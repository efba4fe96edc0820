----------------------------- MODULE BankProofs -----------------------------
(***************************************************************************)
(* The bank keeps its money and its list of segments whatever its          *)
(* transactions do, for any number of transactions, segments and accounts  *)
(* per segment.                                                            *)
(*                                                                         *)
(* A step of the bank is a step of the STM, so the invariants of the STM   *)
(* carry over.  The memory that the transactions of an epoch see does not  *)
(* change before its end, and what a transaction has read no other one     *)
(* writes, although not every word is read before it is written.  So the   *)
(* effects of those that have committed add up: the memory and the segments*)
(* that the end of the epoch would leave (Outlook) are those of a good bank*)
(* after each commit.                                                      *)
(*                                                                         *)
(* A call takes two steps, its start and the access.  What a closure knows *)
(* is stated of its log, its reads and its target as they will be after    *)
(* the call in progress; an access then changes none of it.                *)
(***************************************************************************)
EXTENDS Bank, DualStmProofs, WellFoundedInduction

-----------------------------------------------------------------------------
\* A bank in a memory m with the segments T.

\* The first n accounts of a segment.
Part(m, s, n) == [i \in 0..(n - 1) |-> m[Account(s, i)]]

SegmentMoney(m, s) == m[ParityOf(s)] + SumFunction(Part(m, s, m[CountOf(s)]))

MoneyOf(m, T) == SumFunction([s \in T |-> SegmentMoney(m, s)])

AccountsOf(m, T) == SumFunction([s \in T |-> m[CountOf(s)]])

\* Segment s of T is the last one, or its successor is the next one in T.
IsLast(m, T, s) ==
  /\ m[NextOf(s)] = nullptr
  /\ \A r \in T : r <= s
  /\ m[CountOf(s)] \in 1..nbaccounts

IsInner(m, T, s) ==
  /\ m[NextOf(s)] \in T
  /\ m[NextOf(s)] > s
  /\ \A r \in T : r <= s \/ r >= m[NextOf(s)]
  /\ m[CountOf(s)] = nbaccounts

GoodList(m, T) ==
  /\ T \subseteq Segment
  /\ 1 \in T
  /\ \A s \in T : IsLast(m, T, s) \/ IsInner(m, T, s)
  /\ m[CountOf(1)] >= 2

NoDebts(m, T) ==
  \A s \in T : \A i \in 0..(m[CountOf(s)] - 1) : m[Account(s, i)] >= 0

GoodBank(m, T) ==
  /\ GoodList(m, T)
  /\ NoDebts(m, T)
  /\ MoneyOf(m, T) = init_balance * AccountsOf(m, T)

-----------------------------------------------------------------------------
\* What closures know: K is the log of a transaction, R what it has read, mi
\* and wi what it has allocated and freed, f its frame, g its target; m is the
\* memory of the epoch and S are its segments.

\* The words that belong to the bank.
Proper(m, S) ==
  {w \in Words : \E s \in S :
     \/ w \in {CountOf(s), NextOf(s), ParityOf(s)}
     \/ \E i \in 0..(m[CountOf(s)] - 1) : w = Account(s, i)}

WordsOf(T) == {w \in Words : SegmentOfWord(w) \in T}

View(K, m, w) == IF w \in DOMAIN K THEN K[w] ELSE m[w]

\* What a transaction has read belongs to the bank, what it writes of the bank
\* it has read, it writes into segments that are there, and a segment that it
\* frees it takes out of the list.
Extent(K, R, m, S, mi, wi) ==
  /\ R \subseteq Proper(m, S)
  /\ DOMAIN K \cap Proper(m, S) \subseteq R
  /\ DOMAIN K \subseteq WordsOf(S \cup mi)
  /\ \A s \in wi : s \in S /\ \E p \in S : p < s /\ NextOf(p) \in DOMAIN K

Untouched(K, mi, wi) == DOMAIN K = {} /\ mi = {} /\ wi = {}

\* The list was followed up to segment s.
Walked(R, S, s) ==
  /\ s \in S
  /\ \A r \in S : r < s => CountOf(r) \in R /\ NextOf(r) \in R

Before(S, s) == {r \in S : r < s}

UpTo(S, s) == {r \in S : r <= s}

\* long_tx, by the place of its last call.
LongAt(f, g, m, S) ==
  LET s == f.seg
  IN  /\ s \in S
      /\ f.at = "longCount" =>
           /\ g = m[CountOf(s)]
           /\ f.count = AccountsOf(m, Before(S, s))
           /\ f.sum = MoneyOf(m, Before(S, s))
      /\ f.at # "longCount" => f.count = AccountsOf(m, UpTo(S, s))
      /\ f.at = "longSum" =>
           /\ g = m[ParityOf(s)] /\ f.n = m[CountOf(s)] /\ f.i = 0
           /\ f.sum = MoneyOf(m, Before(S, s))
      /\ f.at = "longAccount" =>
           /\ f.n = m[CountOf(s)] /\ f.i \in 1..f.n
           /\ g = m[Account(s, f.i - 1)]
           /\ f.sum = MoneyOf(m, Before(S, s)) + m[ParityOf(s)]
                        + SumFunction(Part(m, s, f.i - 1))
      /\ f.at = "longNext" =>
           /\ g = m[NextOf(s)]
           /\ f.sum = MoneyOf(m, UpTo(S, s))

\* The segment before f.seg that alloc_tx has come from.
PrevKnown(f, m, S) ==
  IF f.seg = 1 THEN f.prev = nullptr
  ELSE f.prev \in S /\ f.prev < f.seg /\ m[NextOf(f.prev)] = f.seg

\* alloc_tx has followed the list to its end.
AtEnd(R, m, S, s) ==
  /\ Walked(R, S, s)
  /\ CountOf(s) \in R /\ NextOf(s) \in R
  /\ m[NextOf(s)] = nullptr

AllocSearch(f, R, g, m, S) ==
  LET s == f.seg
  IN  /\ Walked(R, S, s)
      /\ PrevKnown(f, m, S)
      /\ CountOf(s) \in R
      /\ f.at = "allocCount" => g = m[CountOf(s)] /\ (s = 1 => f.count = 0)
      /\ f.at = "allocNext" =>
           /\ g = m[NextOf(s)] /\ NextOf(s) \in R
           /\ f.n = m[CountOf(s)] /\ (s = 1 => f.count = f.n)

\* An account is being destroyed.
Destroying(f, R, m, S) ==
  /\ AtEnd(R, m, S, f.seg)
  /\ PrevKnown(f, m, S)
  /\ f.n = m[CountOf(f.seg)] - 1
  /\ f.seg = 1 => f.n >= 2
  /\ ParityOf(f.seg) \in R

Destroyed(f, R, m, S) ==
  /\ Destroying(f, R, m, S)
  /\ Account(f.seg, f.n) \in R
  /\ f.sum = m[ParityOf(f.seg)] + m[Account(f.seg, f.n)] - init_balance

Lowering(f, K, R, m, S) ==
  /\ Destroyed(f, R, m, S)
  /\ f.n > 0
  /\ DOMAIN K = {CountOf(f.seg)}
  /\ K[CountOf(f.seg)] = f.n

Unlinking(f, R, m, S) ==
  /\ Destroyed(f, R, m, S)
  /\ f.n = 0
  /\ f.seg # 1

Unlinked(f, K, R, m, S) ==
  /\ Unlinking(f, R, m, S)
  /\ DOMAIN K = {NextOf(f.prev)}
  /\ K[NextOf(f.prev)] = nullptr

Filling(f, K, R, m, S) ==
  /\ AtEnd(R, m, S, f.seg)
  /\ f.n = m[CountOf(f.seg)] /\ f.n < nbaccounts
  /\ DOMAIN K = {Account(f.seg, f.n)}
  /\ K[Account(f.seg, f.n)] = init_balance

Adding(p, s, K, R, m, S) ==
  /\ AtEnd(R, m, S, p)
  /\ m[CountOf(p)] = nbaccounts
  /\ NextOf(p) \in DOMAIN K /\ K[NextOf(p)] = s

AllocAt(f, K, R, g, m, S, mi, wi) ==
  LET s == f.seg
      p == f.prev
  IN  /\ f.at \in {"allocCount", "allocNext"} => AllocSearch(f, R, g, m, S) /\ Untouched(K, mi, wi)
      /\ f.at = "parity" => Destroying(f, R, m, S) /\ g = m[ParityOf(s)] /\ Untouched(K, mi, wi)
      /\ f.at = "destroyed" =>
           /\ Destroying(f, R, m, S) /\ Account(s, f.n) \in R
           /\ f.sum = m[ParityOf(s)] - init_balance
           /\ g = m[Account(s, f.n)] /\ Untouched(K, mi, wi)
      /\ f.at = "lowered" => Lowering(f, K, R, m, S) /\ mi = {} /\ wi = {}
      /\ f.at = "unlink" => Unlinking(f, R, m, S) /\ g = s /\ Untouched(K, mi, wi)
      /\ f.at = "unlinked" => Unlinked(f, K, R, m, S) /\ mi = {} /\ wi = {s}
      /\ f.at = "previousParity" =>
           /\ Unlinked(f, K, R, m, S) /\ mi = {} /\ wi = {s}
           /\ ParityOf(p) \in R /\ g = m[ParityOf(p)]
      /\ f.at = "filled" => Filling(f, K, R, m, S) /\ mi = {} /\ wi = {}
      /\ f.at = "linked" =>
           Adding(p, s, K, R, m, S) /\ DOMAIN K = {NextOf(p)} /\ mi = {s} /\ wi = {}
      /\ f.at = "counted" =>
           /\ Adding(p, s, K, R, m, S) /\ mi = {s} /\ wi = {}
           /\ DOMAIN K = {NextOf(p), CountOf(s)} /\ K[CountOf(s)] = 1

\* An account that short_tx has found.
Found(a, R, m, S) ==
  \E s \in S :
    /\ Walked(R, S, s) /\ CountOf(s) \in R
    /\ \E i \in 0..(m[CountOf(s)] - 1) : a = Account(s, i)

ShortAt(f, K, R, g, m, S) ==
  LET s == f.seg
      a == f.ptr["send"]
      b == f.ptr["recv"]
  IN  /\ f.at \in {"shortCount", "shortNext"} =>
           /\ Walked(R, S, s) /\ CountOf(s) \in R
           /\ \A p \in Party : f.ptr[p] = nullptr \/ Found(f.ptr[p], R, m, S)
           /\ \A p \in Party : f.id[p] \in Nat
           /\ DOMAIN K = {}
      /\ f.at = "shortCount" => g = m[CountOf(s)]
      /\ f.at = "shortNext" => g = m[NextOf(s)] /\ NextOf(s) \in R
      /\ f.at \in {"sender", "debited", "recver"} =>
           Found(a, R, m, S) /\ Found(b, R, m, S) /\ a \in R
      /\ f.at = "sender" => g = m[a] /\ DOMAIN K = {}
      /\ f.at \in {"debited", "recver"} => m[a] > 0 /\ DOMAIN K = {a} /\ K[a] = m[a] - 1
      /\ f.at = "recver" => b \in R /\ g = View(K, m, b)

\* What a closure that has returned leaves.
Filled(s, K, R, m, S, mi, wi) ==
  LET n == m[CountOf(s)]
  IN  /\ AtEnd(R, m, S, s) /\ n < nbaccounts /\ mi = {} /\ wi = {}
      /\ DOMAIN K = {Account(s, n), CountOf(s)}
      /\ K[Account(s, n)] = init_balance /\ K[CountOf(s)] = n + 1

Lowered(s, K, R, m, S, mi, wi) ==
  LET n == m[CountOf(s)] - 1
  IN  /\ AtEnd(R, m, S, s) /\ n > 0 /\ (s = 1 => n >= 2) /\ mi = {} /\ wi = {}
      /\ Account(s, n) \in R /\ ParityOf(s) \in R
      /\ DOMAIN K = {CountOf(s), ParityOf(s)}
      /\ K[CountOf(s)] = n
      /\ K[ParityOf(s)] = m[ParityOf(s)] + m[Account(s, n)] - init_balance

Shortened(p, s, K, R, m, S, mi, wi) ==
  /\ AtEnd(R, m, S, s) /\ s # 1 /\ m[CountOf(s)] = 1 /\ mi = {} /\ wi = {s}
  /\ p \in S /\ p < s /\ m[NextOf(p)] = s
  /\ Account(s, 0) \in R /\ ParityOf(s) \in R /\ ParityOf(p) \in R
  /\ DOMAIN K = {NextOf(p), ParityOf(p)}
  /\ K[NextOf(p)] = nullptr
  /\ K[ParityOf(p)] = m[ParityOf(p)] + m[ParityOf(s)] + m[Account(s, 0)] - init_balance

Extended(p, s, K, R, m, S, mi, wi) ==
  /\ Adding(p, s, K, R, m, S) /\ mi = {s} /\ wi = {}
  /\ DOMAIN K = {NextOf(p), CountOf(s), Account(s, 0)}
  /\ K[CountOf(s)] = 1 /\ K[Account(s, 0)] = init_balance

Transferred(a, b, K, R, m, S, mi, wi) ==
  /\ Found(a, R, m, S) /\ Found(b, R, m, S) /\ a \in R /\ b \in R
  /\ m[a] > 0 /\ mi = {} /\ wi = {}
  /\ DOMAIN K = {a, b}
  /\ K[b] = IF a = b THEN m[a] ELSE m[b] + 1
  /\ a # b => K[a] = m[a] - 1

Returned(K, R, m, S, mi, wi) ==
  \/ Untouched(K, mi, wi)
  \/ \E s \in S : Filled(s, K, R, m, S, mi, wi) \/ Lowered(s, K, R, m, S, mi, wi)
  \/ \E p, s \in S : Shortened(p, s, K, R, m, S, mi, wi)
  \/ \E p \in S, s \in mi : Extended(p, s, K, R, m, S, mi, wi)
  \/ \E a, b \in Words : Transferred(a, b, K, R, m, S, mi, wi)

LongPlaces == {"longCount", "longSum", "longAccount", "longNext"}

ShortPlaces == {"shortCount", "shortNext", "sender", "debited", "recver"}

\* What a transaction that may still commit knows.
Knows(f, K, R, g, m, S, mi, wi, ro) ==
  /\ Extent(K, R, m, S, mi, wi)
  /\ f.at = "begin" => f = NewFrame /\ R = {} /\ Untouched(K, mi, wi)
  /\ f.at \in LongPlaces => LongAt(f, g, m, S)
  /\ ro => f.at \in {"begin", "returned"} \cup LongPlaces
  /\ f.at \in LongPlaces => ro /\ Untouched(K, mi, wi)
  /\ AllocAt(f, K, R, g, m, S, mi, wi)
  /\ ShortAt(f, K, R, g, m, S)
  /\ f.at \in ShortPlaces => mi = {} /\ wi = {}
  /\ f.at = "returned" => Returned(K, R, m, S, mi, wi)

-----------------------------------------------------------------------------
\* The invariant.

Mem == MemoryOf

Log(t) == [w \in writtenSet[t] |-> Writable(word[w])]

\* Log, reads and target of a transaction after the call c in progress.
LogWith(K, w, v) == [a \in DOMAIN K \cup {w} |-> IF a = w THEN v ELSE K[a]]

ReadsWith(K, R, w, ro) == IF ~ro /\ w \notin DOMAIN K THEN R \cup {w} ELSE R

LogAfter(K, c, v) == IF c.op = "write" THEN LogWith(K, c.next, v) ELSE K

ReadsAfter(K, R, c, ro) == IF c.op = "read" THEN ReadsWith(K, R, c.next, ro) ELSE R

TargetAfter(K, m, c, g) == IF c.op = "read" THEN View(K, m, c.next) ELSE g

KnowsAfter(f, K, R, c, g, m, S, mi, wi, ro) ==
  Knows(f, LogAfter(K, c, f.arg), ReadsAfter(K, R, c, ro), TargetAfter(K, m, c, g),
        m, S, mi, wi, ro)

TxKnows(t) ==
  KnowsAfter(frame[t], Log(t), readSet[t], call[t], target[t], Mem, store, mine[t], wishes[t],
             is_read_only[t])

\* The memory and the segments after an epoch in which those of C commit.
MemAfter(C) ==
  [w \in Words |-> IF \E u \in C : w \in writtenSet[u]
                   THEN Writable(word[w]) ELSE Readable(word[w])]

StoreAfter(C) ==
  (store \cup UNION {mine[t] : t \in C}) \ UNION {wishes[t] : t \in C}

\* If the epoch ended now and nobody else committed.
OutlookMem == MemAfter(committed)

OutlookStore == StoreAfter(committed)

Frames ==
  [at : Places \ {"violated"}, seg : Segment, prev : Segment \cup {nullptr}, n : Int, count : Int,
   sum : Int, i : Int, id : [Party -> Int], ptr : [Party -> Words \cup {nullptr}], arg : Int]

FramesOK ==
  /\ frame \in [Tx -> Frames]
  /\ top \in Segment
  /\ store \subseteq 1..top
  /\ mine \in [Tx -> SUBSET (1..top)]
  /\ wishes \in [Tx -> SUBSET Segment]

\* Segments that nobody else can reach yet.
FreshSegments ==
  /\ \A s \in Segment : s > top => Mem[NextOf(s)] = nullptr /\ Mem[ParityOf(s)] = 0
  /\ \A t \in Tx : \A s \in mine[t] :
       /\ Mem[NextOf(s)] = nullptr /\ Mem[ParityOf(s)] = 0
       /\ \A r \in store : r < s
       /\ \A u \in Tx \ {t} : s \notin mine[u]

\* Transactions that do not run have no frame, calls are for single words of
\* segments that are there, and reads are of words of the bank.
CallsOK ==
  \A t \in Tx :
    /\ pc[t] # "running" => frame[t] = NewFrame
    /\ pc[t] \notin {"running", "left"} => mine[t] = {} /\ wishes[t] = {} /\ ~doomed[t]
    /\ call[t] # NoCall =>
         /\ call[t].next = call[t].last
         /\ call[t].next \in WordsOf(store \cup mine[t])
    /\ readSet[t] \subseteq Proper(Mem, store)

ClosuresOK ==
  /\ \A t \in Tx : ~doomed[t] /\ pc[t] # "left" => TxKnows(t)
  /\ \A t \in committed : Extent(Log(t), readSet[t], Mem, store, mine[t], wishes[t])

BankInv ==
  /\ StmInv
  /\ BatcherInv
  /\ ConflictFree
  /\ FramesOK
  /\ FreshSegments
  /\ CallsOK
  /\ ClosuresOK
  /\ GoodBank(Mem, store)
  /\ GoodBank(OutlookMem, OutlookStore)

-----------------------------------------------------------------------------
(***************************************************************************)
(* Sums.  To the provers the fold behind SumFunction is a CHOOSE of a      *)
(* recursive function.  Such a function exists, and the order in which it  *)
(* takes the elements does not matter.                                     *)
(***************************************************************************)

Iterate(f, g, s) ==
  IF s = {} THEN 0 ELSE f[CHOOSE x \in s : TRUE] + g[s \ {CHOOSE x \in s : TRUE}]

IsIteration(f, g) == g = [s \in SUBSET DOMAIN f |-> Iterate(f, g, s)]

IsSummand(f) == /\ IsFiniteSet(DOMAIN f)
                /\ \A x \in DOMAIN f : f[x] \in Int

LEMMA SumIsIteration ==
  ASSUME NEW f, NEW g0, IsIteration(f, g0)
  PROVE  \E g : IsIteration(f, g) /\ SumFunction(f) = g[DOMAIN f]
<1> DEFINE P(g) ==
             g = [s \in SUBSET DOMAIN f |->
                    IF s = {} THEN 0
                    ELSE f[CHOOSE x \in s : TRUE] + g[s \ {CHOOSE x \in s : TRUE}]]
           h == CHOOSE g : P(g)
<1>1. SumFunction(f) = h[DOMAIN f]
  BY DEF SumFunction, SumFunctionOnSet, FoldFunctionOnSet, MapThenFoldSet
<1>2. P(g0)
  BY DEF IsIteration, Iterate
<1> HIDE DEF P
<1>3. P(h)
  BY <1>2
<1> HIDE DEF h
<1>4. IsIteration(f, h)
  BY <1>3 DEF IsIteration, Iterate, P
<1> QED
  BY <1>1, <1>4

LEMMA NatWF == IsWellFoundedOn({p \in Nat \X Nat : p[1] < p[2]}, Nat)
BY NatLessThanWellFounded DEF OpToRel

LEMMA Least ==
  ASSUME NEW T \in (SUBSET Nat) \ {{}}
  PROVE  \E x \in T : \A y \in T : x <= y
<1> DEFINE R == {p \in Nat \X Nat : p[1] < p[2]}
<1>1. PICK x \in T : \A y \in T : ~(<<y, x>> \in R)
  BY NatWF, WFMin
<1>2. \A y \in T : y < x => <<y, x>> \in R
  OBVIOUS
<1> HIDE DEF R
<1>3. ASSUME NEW y \in T
      PROVE  x <= y
  <2>1. ~(y < x)
    BY <1>1, <1>2
  <2> QED
    BY <2>1
<1> QED
  BY <1>3

\* A set without one of its elements.
LEMMA SmallerSet ==
  ASSUME NEW s, IsFiniteSet(s), NEW x \in s
  PROVE  /\ IsFiniteSet(s \ {x})
         /\ Cardinality(s) \in Nat
         /\ Cardinality(s \ {x}) \in Nat
         /\ Cardinality(s) = Cardinality(s \ {x}) + 1
<1>1. IsFiniteSet(s \ {x}) /\ Cardinality(s \ {x}) = Cardinality(s) - 1
  BY FS_RemoveElement
<1>2. Cardinality(s) \in Nat /\ Cardinality(s \ {x}) \in Nat
  BY <1>1, FS_CardinalityType
<1> QED
  BY <1>1, <1>2

LEMMA IterationExists ==
  ASSUME NEW f, IsSummand(f)
  PROVE  \E g : IsIteration(f, g)
<1> DEFINE D == SUBSET DOMAIN f
           Defined(n, g) == /\ g = [s \in D |-> g[s]]
                         /\ \A s \in D : Cardinality(s) <= n => g[s] = Iterate(f, g, s)
           Bad == {n \in Nat : ~\E g : Defined(n, g)}
<1>0. \A s \in D : IsFiniteSet(s) /\ Cardinality(s) \in Nat
  BY FS_Subset, FS_CardinalityType DEF IsSummand
<1>1. Bad = {}
  <2> SUFFICES ASSUME Bad # {} PROVE FALSE
    OBVIOUS
  <2>0. Bad \in (SUBSET Nat) \ {{}}
    OBVIOUS
  <2>1. PICK n \in Nat : n \in Bad /\ \A k \in Nat : k < n => k \notin Bad
    <3> HIDE DEF Bad
    <3> QED
      BY <2>0, Least
  <2>2. CASE n = 0
    <3> DEFINE g0 == [s \in D |-> 0]
    <3>1. \A s \in D : Cardinality(s) <= 0 => s = {}
      BY <1>0, FS_EmptySet
    <3>2. Defined(0, g0)
      BY <3>1 DEF Iterate
    <3> QED
      BY <2>1, <2>2, <3>2
  <2>3. CASE n # 0
    <3>1. n - 1 \in Nat /\ n - 1 \notin Bad
      <4> HIDE DEF Bad
      <4> QED
        BY <2>1, <2>3
    <3>2. PICK g : Defined(n - 1, g)
      BY <3>1
    <3> DEFINE h == [s \in D |-> IF Cardinality(s) = n THEN Iterate(f, g, s) ELSE g[s]]
    <3>3. ASSUME NEW s \in D, Cardinality(s) <= n
          PROVE  h[s] = Iterate(f, h, s)
      <4> DEFINE c == CHOOSE x \in s : TRUE
      <4>1. CASE s = {}
        <5>1. Cardinality(s) = 0
          BY <4>1, FS_EmptySet
        <5>2. h[s] = g[s] /\ g[s] = Iterate(f, g, s)
          <6>1. 0 <= n - 1 /\ 0 # n
            BY <2>3, <3>1
          <6> QED
            BY <3>2, <5>1, <6>1
        <5> QED
          BY <4>1, <5>2 DEF Iterate
      <4>2. CASE s # {}
        <5>1. c \in s
          BY <4>2
        <5> HIDE DEF c
        <5>2. /\ Cardinality(s \ {c}) \in Nat
              /\ Cardinality(s) = Cardinality(s \ {c}) + 1
              /\ s \ {c} \in D
          BY <1>0, <5>1, SmallerSet
        <5>3. h[s \ {c}] = g[s \ {c}]
          BY <2>1, <3>3, <5>2
        <5>4. Iterate(f, h, s) = Iterate(f, g, s)
          BY <4>2, <5>3 DEF Iterate, c
        <5>5. h[s] = Iterate(f, g, s)
          <6>1. CASE Cardinality(s) = n
            BY <6>1
          <6>2. CASE Cardinality(s) # n
            <7>1. Cardinality(s) <= n - 1
              BY <1>0, <2>1, <3>3, <6>2
            <7> QED
              BY <3>2, <6>2, <7>1
          <6> QED
            BY <6>1, <6>2
        <5> QED
          BY <5>4, <5>5
      <4> QED
        BY <4>1, <4>2
    <3>4. h = [s \in D |-> h[s]]
      OBVIOUS
    <3>5. Defined(n, h)
      BY <3>3, <3>4
    <3> QED
      BY <2>1, <3>5
  <2> QED
    BY <2>2, <2>3
<1>2. Cardinality(DOMAIN f) \in Nat
  BY FS_CardinalityType DEF IsSummand
<1>3. PICK g : Defined(Cardinality(DOMAIN f), g)
  BY <1>1, <1>2
<1>4. \A s \in D : Cardinality(s) <= Cardinality(DOMAIN f)
  BY FS_Subset DEF IsSummand
<1>5. \A s \in D : g[s] = Iterate(f, g, s)
  BY <1>3, <1>4
<1>6. g = [s \in D |-> Iterate(f, g, s)]
  BY <1>3, <1>5
<1> QED
  BY <1>6 DEF IsIteration

\* Values of iterations of two functions that agree on a set, in any order.
LEMMA IterationStep ==
  ASSUME NEW f, IsSummand(f), NEW g, IsIteration(f, g),
         NEW s \in SUBSET DOMAIN f
  PROVE  /\ g[s] \in Int
         /\ \A x \in s : g[s] = f[x] + g[s \ {x}]
<1> DEFINE D == SUBSET DOMAIN f
           Fine(r) == g[r] \in Int /\ \A x \in r : g[r] = f[x] + g[r \ {x}]
           Bad == {n \in Nat : \E r \in D : Cardinality(r) = n /\ ~Fine(r)}
<1>0. \A r \in D : IsFiniteSet(r) /\ Cardinality(r) \in Nat
  BY FS_Subset, FS_CardinalityType DEF IsSummand
<1>g. \A r \in D : g[r] = Iterate(f, g, r)
  BY DEF IsIteration
<1>1. Bad = {}
  <2> SUFFICES ASSUME Bad # {} PROVE FALSE
    OBVIOUS
  <2>0. Bad \in (SUBSET Nat) \ {{}}
    OBVIOUS
  <2>1. PICK n \in Nat : n \in Bad /\ \A k \in Nat : k < n => k \notin Bad
    <3> HIDE DEF Bad
    <3> QED
      BY <2>0, Least
  <2>2. PICK r \in D : Cardinality(r) = n /\ ~Fine(r)
    BY <2>1
  <2>a. \A q \in D : Cardinality(q) < n => Fine(q)
    <3> HIDE DEF Fine, D
    <3> QED
      BY <1>0, <2>1
  <2>3. ASSUME NEW x \in r
        PROVE  Fine(r \ {x}) /\ r \ {x} \in D
    <3>1. Cardinality(r \ {x}) \in Nat /\ Cardinality(r \ {x}) + 1 = n
      BY <1>0, <2>2, SmallerSet
    <3> HIDE DEF Fine
    <3> QED
      BY <2>a, <3>1
  <2>4. CASE r = {}
    BY <1>g, <2>2, <2>4 DEF Iterate
  <2>5. CASE r # {}
    <3> DEFINE c == CHOOSE x \in r : TRUE
    <3>1. c \in r /\ g[r] = f[c] + g[r \ {c}]
      BY <1>g, <2>5 DEF Iterate
    <3> HIDE DEF c
    <3>2. \A x \in r : f[x] \in Int
      BY DEF IsSummand
    <3>3. ASSUME NEW x \in r
          PROVE  g[r] = f[x] + g[r \ {x}]
      <4>1. CASE x = c
        BY <3>1, <4>1
      <4>2. CASE x # c
        <5>1. g[r \ {c}] = f[x] + g[(r \ {c}) \ {x}]
          BY <2>3, <3>1, <4>2
        <5>2. g[r \ {x}] = f[c] + g[(r \ {x}) \ {c}]
          BY <2>3, <3>1, <4>2
        <5>3. (r \ {c}) \ {x} = (r \ {x}) \ {c} /\ (r \ {x}) \ {c} \in D
          OBVIOUS
        <5>4. g[(r \ {x}) \ {c}] \in Int
          <6>1. r \ {x} \in D /\ c \in r \ {x}
            BY <3>1, <4>2
          <6>2. Cardinality((r \ {x}) \ {c}) \in Nat /\ Cardinality((r \ {x}) \ {c}) + 2 = n
            <7>1. /\ Cardinality(r \ {x}) \in Nat
                  /\ Cardinality(r) = Cardinality(r \ {x}) + 1
              BY <1>0, SmallerSet
            <7>2. /\ Cardinality((r \ {x}) \ {c}) \in Nat
                  /\ Cardinality(r \ {x}) = Cardinality((r \ {x}) \ {c}) + 1
              BY <1>0, <6>1, SmallerSet
            <7> QED
              BY <2>2, <7>1, <7>2
          <6>3. Fine((r \ {x}) \ {c})
            <7> HIDE DEF Fine
            <7> QED
              BY <2>a, <5>3, <6>2
          <6> QED
            BY <6>3
        <5>5. f[x] \in Int /\ f[c] \in Int
          BY <3>1, <3>2
        <5> DEFINE e == g[(r \ {x}) \ {c}]
        <5>6. g[r] = f[c] + (f[x] + e) /\ g[r \ {x}] = f[c] + e /\ e \in Int
          BY <3>1, <5>1, <5>2, <5>3, <5>4
        <5> HIDE DEF e
        <5> QED
          BY <5>5, <5>6
      <4> QED
        BY <4>1, <4>2
    <3>4. g[r] \in Int
      <4>1. g[r \ {c}] \in Int
        BY <2>3, <3>1
      <4>2. f[c] \in Int
        BY <3>1, <3>2
      <4> QED
        BY <3>1, <4>1, <4>2
    <3> QED
      BY <2>2, <3>3, <3>4
  <2> QED
    BY <2>4, <2>5
<1>2. Cardinality(s) \in Nat /\ Cardinality(s) \notin Bad
  BY <1>0, <1>1
<1>3. Fine(s)
  BY <1>2
<1> QED
  BY <1>3

LEMMA IterationUnique ==
  ASSUME NEW f, IsSummand(f), NEW g, IsIteration(f, g), NEW h, IsIteration(f, h),
         NEW s \in SUBSET DOMAIN f
  PROVE  g[s] = h[s]
<1> DEFINE D == SUBSET DOMAIN f
           Bad == {n \in Nat : \E r \in D : Cardinality(r) = n /\ g[r] # h[r]}
<1>0. \A r \in D : IsFiniteSet(r) /\ Cardinality(r) \in Nat
  BY FS_Subset, FS_CardinalityType DEF IsSummand
<1>1. Bad = {}
  <2> SUFFICES ASSUME Bad # {} PROVE FALSE
    OBVIOUS
  <2>0. Bad \in (SUBSET Nat) \ {{}}
    OBVIOUS
  <2>1. PICK n \in Nat : n \in Bad /\ \A k \in Nat : k < n => k \notin Bad
    <3> HIDE DEF Bad
    <3> QED
      BY <2>0, Least
  <2>2. PICK r \in D : Cardinality(r) = n /\ g[r] # h[r]
    BY <2>1
  <2>3. \A q \in D : Cardinality(q) < n => g[q] = h[q]
    BY <1>0, <2>1
  <2>4. g[r] = Iterate(f, g, r) /\ h[r] = Iterate(f, h, r)
    BY DEF IsIteration
  <2>5. r # {}
    BY <2>2, <2>4 DEF Iterate
  <2> DEFINE c == CHOOSE x \in r : TRUE
  <2>6. c \in r
    BY <2>5
  <2>7. g[r] = f[c] + g[r \ {c}] /\ h[r] = f[c] + h[r \ {c}]
    BY <2>4, <2>5 DEF Iterate
  <2> HIDE DEF c
  <2>8. r \ {c} \in D /\ Cardinality(r \ {c}) < n
    BY <1>0, <2>2, <2>6, SmallerSet
  <2> QED
    BY <2>2, <2>3, <2>7, <2>8
<1>2. Cardinality(s) \in Nat /\ Cardinality(s) \notin Bad
  BY <1>0, <1>1
<1> QED
  BY <1>2

LEMMA SumIs ==
  ASSUME NEW f, IsSummand(f), NEW g, IsIteration(f, g)
  PROVE  SumFunction(f) = g[DOMAIN f]
BY SumIsIteration, IterationUnique

Without(f, x) == [y \in DOMAIN f \ {x} |-> f[y]]

LEMMA SumEmpty == ASSUME NEW f, DOMAIN f = {} PROVE SumFunction(f) = 0
<1>1. IsSummand(f)
  BY FS_EmptySet DEF IsSummand
<1>2. PICK g : IsIteration(f, g)
  BY <1>1, IterationExists
<1>3. g[{}] = Iterate(f, g, {})
  BY <1>2 DEF IsIteration
<1> QED
  BY <1>1, <1>2, <1>3, SumIs DEF Iterate

LEMMA SumInt == ASSUME NEW f, IsSummand(f) PROVE SumFunction(f) \in Int
BY IterationExists, SumIs, IterationStep

LEMMA SumStep ==
  ASSUME NEW f, IsSummand(f), NEW x \in DOMAIN f
  PROVE  /\ IsSummand(Without(f, x))
         /\ SumFunction(f) = f[x] + SumFunction(Without(f, x))
<1> DEFINE e == Without(f, x)
<1>1. DOMAIN e = DOMAIN f \ {x} /\ \A y \in DOMAIN e : e[y] = f[y]
  BY DEF Without
<1> HIDE DEF e
<1>2. IsSummand(e)
  BY <1>1, FS_RemoveElement DEF IsSummand
<1>3. PICK g : IsIteration(f, g)
  BY IterationExists
<1> DEFINE h == [s \in SUBSET DOMAIN e |-> g[s]]
<1>4. ASSUME NEW s \in SUBSET DOMAIN e
      PROVE  h[s] = Iterate(e, h, s)
  <2>1. g[s] = Iterate(f, g, s)
    BY <1>1, <1>3 DEF IsIteration
  <2>2. CASE s = {}
    BY <2>1, <2>2 DEF Iterate
  <2>3. CASE s # {}
    <3> DEFINE c == CHOOSE y \in s : TRUE
    <3>1. c \in s
      BY <2>3
    <3>2. Iterate(f, g, s) = f[c] + g[s \ {c}] /\ Iterate(e, h, s) = e[c] + h[s \ {c}]
      BY <2>3 DEF Iterate
    <3> HIDE DEF c
    <3>3. f[c] = e[c] /\ h[s \ {c}] = g[s \ {c}]
      BY <1>1, <3>1
    <3> QED
      BY <2>1, <3>2, <3>3
  <2> QED
    BY <2>2, <2>3
<1>5. IsIteration(e, h)
  BY <1>4 DEF IsIteration
<1>6. SumFunction(e) = g[DOMAIN e]
  BY <1>2, <1>5, SumIs
<1>7. SumFunction(f) = g[DOMAIN f]
  BY <1>3, SumIs
<1>8. g[DOMAIN f] = f[x] + g[DOMAIN f \ {x}]
  BY <1>3, IterationStep
<1> QED
  BY <1>1, <1>2, <1>6, <1>7, <1>8 DEF e

\* Two summands that differ at one place.
LEMMA SumChange ==
  ASSUME NEW f, IsSummand(f), NEW g, IsSummand(g), DOMAIN g = DOMAIN f, NEW x \in DOMAIN f,
         \A y \in DOMAIN f \ {x} : g[y] = f[y]
  PROVE  SumFunction(g) = SumFunction(f) - f[x] + g[x]
<1>1. Without(f, x) = Without(g, x)
  BY DEF Without
<1>2. /\ SumFunction(f) = f[x] + SumFunction(Without(f, x))
      /\ SumFunction(g) = g[x] + SumFunction(Without(f, x))
      /\ SumFunction(Without(f, x)) \in Int
  BY <1>1, SumStep, SumInt
<1> QED
  BY <1>2 DEF IsSummand

\* A summand with one more element.
LEMMA SumMore ==
  ASSUME NEW f, IsSummand(f), NEW g, IsSummand(g), NEW x, x \notin DOMAIN f,
         DOMAIN g = DOMAIN f \cup {x}, f = [y \in DOMAIN f |-> g[y]]
  PROVE  SumFunction(g) = SumFunction(f) + g[x]
<1>1. Without(g, x) = f
  BY DEF Without
<1>2. SumFunction(g) = g[x] + SumFunction(f) /\ SumFunction(f) \in Int
  BY <1>1, SumStep, SumInt
<1> QED
  BY <1>2 DEF IsSummand

-----------------------------------------------------------------------------
\* The words of the segments.

OffsetOf(w) == (w - 1) - (SegmentOfWord(w) - 1) * SegmentWords

LEMMA WordAddress ==
  ASSUME NEW s \in Segment, NEW o \in 0..(SegmentWords - 1)
  PROVE  LET w == (s - 1) * SegmentWords + 1 + o
         IN  w \in Words /\ SegmentOfWord(w) = s /\ OffsetOf(w) = o
<1> DEFINE B == SegmentWords
           w == (s - 1) * B + 1 + o
<1>1. B \in Nat /\ B >= 5 /\ s \in Nat /\ s >= 1 /\ s <= MaxSegments /\ MaxSegments \in Nat
      /\ NumWords = MaxSegments * B /\ o \in Nat /\ o <= B - 1
  BY BankAssumption DEF SegmentWords, Segment
<1> HIDE DEF B
<1>2. w \in Nat /\ w >= 1 /\ w <= NumWords
  <2>1. (s - 1) * B + B = s * B
    BY <1>1
  <2>2. s * B <= MaxSegments * B
    BY <1>1
  <2>3. (s - 1) * B \in Nat
    BY <1>1
  <2>4. s * B \in Nat /\ MaxSegments * B \in Nat
    BY <1>1
  <2> QED
    BY <1>1, <2>1, <2>2, <2>3, <2>4
<1>3. (w - 1) \div B = s - 1
  <2> DEFINE q == (w - 1) \div B
             r == (w - 1) % B
  <2>1. w - 1 = B * q + r /\ r \in 0..(B - 1) /\ q \in Int
    BY <1>1, <1>2
  <2>2. w - 1 = B * (s - 1) + o
    BY <1>1
  <2> HIDE DEF q, r, w
  <2>3. B * (q - (s - 1)) = o - r
    BY <1>1, <2>1, <2>2
  <2>4. CASE q - (s - 1) >= 1
    <3>1. B * (q - (s - 1)) >= B
      BY <1>1, <2>1, <2>4
    <3> QED
      BY <1>1, <2>1, <2>3, <3>1
  <2>5. CASE q - (s - 1) <= -1
    <3>1. B * (q - (s - 1)) <= -B
      BY <1>1, <2>1, <2>5
    <3> QED
      BY <1>1, <2>1, <2>3, <3>1
  <2> QED
    BY <1>1, <2>1, <2>4, <2>5 DEF q
<1>4. SegmentOfWord(w) = s
  BY <1>1, <1>3 DEF SegmentOfWord, B
<1>5. OffsetOf(w) = o
  BY <1>1, <1>4 DEF OffsetOf, B
<1> QED
  BY <1>2, <1>4, <1>5 DEF B, Words

\* Where the parts of a segment are: no two words are the same.
LEMMA Addresses ==
  ASSUME NEW s \in Segment
  PROVE  /\ s \in Nat /\ s >= 1 /\ s <= MaxSegments
         /\ CountOf(s) \in Words /\ SegmentOfWord(CountOf(s)) = s /\ OffsetOf(CountOf(s)) = 0
         /\ NextOf(s) \in Words /\ SegmentOfWord(NextOf(s)) = s /\ OffsetOf(NextOf(s)) = 1
         /\ ParityOf(s) \in Words /\ SegmentOfWord(ParityOf(s)) = s /\ OffsetOf(ParityOf(s)) = 2
         /\ \A i \in 0..(nbaccounts - 1) :
              /\ Account(s, i) \in Words /\ SegmentOfWord(Account(s, i)) = s
              /\ OffsetOf(Account(s, i)) = 3 + i
<1>1. nbaccounts \in Nat /\ nbaccounts >= 2 /\ SegmentWords = nbaccounts + 3
      /\ s \in Nat /\ s >= 1 /\ s <= MaxSegments /\ MaxSegments \in Nat
  BY BankAssumption DEF SegmentWords, Segment
<1>2. (s - 1) * SegmentWords \in Int
  BY <1>1
<1>3. /\ CountOf(s) = (s - 1) * SegmentWords + 1 + 0
      /\ NextOf(s) = (s - 1) * SegmentWords + 1 + 1
      /\ ParityOf(s) = (s - 1) * SegmentWords + 1 + 2
  BY <1>2 DEF CountOf, NextOf, ParityOf
<1>4. /\ CountOf(s) \in Words /\ SegmentOfWord(CountOf(s)) = s /\ OffsetOf(CountOf(s)) = 0
      /\ NextOf(s) \in Words /\ SegmentOfWord(NextOf(s)) = s /\ OffsetOf(NextOf(s)) = 1
      /\ ParityOf(s) \in Words /\ SegmentOfWord(ParityOf(s)) = s /\ OffsetOf(ParityOf(s)) = 2
  <2>1. 0 \in 0..(SegmentWords - 1) /\ 1 \in 0..(SegmentWords - 1) /\ 2 \in 0..(SegmentWords - 1)
    BY <1>1
  <2> QED
    BY <1>3, <2>1, WordAddress
<1>5. ASSUME NEW i \in 0..(nbaccounts - 1)
      PROVE  /\ Account(s, i) \in Words /\ SegmentOfWord(Account(s, i)) = s
             /\ OffsetOf(Account(s, i)) = 3 + i
  <2>1. 3 + i \in 0..(SegmentWords - 1)
    BY <1>1
  <2>2. Account(s, i) = (s - 1) * SegmentWords + 1 + (3 + i)
    BY <1>1, <1>2 DEF Account, CountOf
  <2> QED
    BY <2>1, <2>2, WordAddress
<1> QED
  BY <1>1, <1>4, <1>5

-----------------------------------------------------------------------------
\* The money on parts of a bank.

Memories == [Words -> Int]

CountsFit(m, T) == T \subseteq Segment /\ \A s \in T : m[CountOf(s)] \in 0..nbaccounts

LEMMA PartSummand ==
  ASSUME NEW m \in Memories, NEW s \in Segment, NEW n \in 0..nbaccounts
  PROVE  /\ IsSummand(Part(m, s, n))
         /\ SumFunction(Part(m, s, n)) \in Int
<1>1. nbaccounts \in Nat
  BY BankAssumption
<1>2. DOMAIN Part(m, s, n) = 0..(n - 1) /\ \A i \in 0..(n - 1) : Part(m, s, n)[i] = m[Account(s, i)]
  BY DEF Part
<1>3. IsFiniteSet(0..(n - 1))
  BY <1>1, FS_Interval
<1>4. \A i \in 0..(n - 1) : m[Account(s, i)] \in Int
  BY <1>1, Addresses DEF Memories
<1>5. IsSummand(Part(m, s, n))
  BY <1>2, <1>3, <1>4 DEF IsSummand
<1> QED
  BY <1>5, SumInt

LEMMA PartEmpty ==
  ASSUME NEW m, NEW s
  PROVE  SumFunction(Part(m, s, 0)) = 0
<1>1. DOMAIN Part(m, s, 0) = {}
  BY DEF Part
<1> QED
  BY <1>1, SumEmpty

LEMMA PartMore ==
  ASSUME NEW m \in Memories, NEW s \in Segment, NEW n \in 0..(nbaccounts - 1)
  PROVE  SumFunction(Part(m, s, n + 1)) = SumFunction(Part(m, s, n)) + m[Account(s, n)]
<1> DEFINE f == Part(m, s, n)
           g == Part(m, s, n + 1)
<1>1. nbaccounts \in Nat /\ n \in Nat /\ n + 1 \in 0..nbaccounts /\ n \in 0..nbaccounts
  BY BankAssumption
<1>2. IsSummand(f) /\ IsSummand(g)
  BY <1>1, PartSummand
<1>3. DOMAIN f = 0..(n - 1) /\ DOMAIN g = (0..(n - 1)) \cup {n} /\ n \notin 0..(n - 1)
  <2>1. 0..((n + 1) - 1) = (0..(n - 1)) \cup {n}
    BY <1>1
  <2> QED
    BY <1>1, <2>1 DEF Part
<1>4. f = [i \in DOMAIN f |-> g[i]] /\ g[n] = m[Account(s, n)]
  <2>1. \A i \in DOMAIN g : g[i] = m[Account(s, i)]
    BY DEF Part
  <2>2. f = [i \in DOMAIN f |-> m[Account(s, i)]]
    BY DEF Part
  <2> HIDE DEF f, g
  <2> QED
    BY <1>3, <2>1, <2>2
<1> HIDE DEF f, g
<1>5. SumFunction(g) = SumFunction(f) + g[n]
  BY <1>2, <1>3, <1>4, SumMore
<1> QED
  BY <1>4, <1>5 DEF f, g

\* The sum over some accounts when one of them changes.
LEMMA PartChange ==
  ASSUME NEW m \in Memories, NEW w \in Memories, NEW s \in Segment, NEW n \in 0..nbaccounts,
         NEW i \in 0..(n - 1),
         \A j \in 0..(n - 1) : j # i => w[Account(s, j)] = m[Account(s, j)]
  PROVE  SumFunction(Part(w, s, n)) =
           SumFunction(Part(m, s, n)) - m[Account(s, i)] + w[Account(s, i)]
<1> DEFINE f == Part(m, s, n)
           g == Part(w, s, n)
<1>1. IsSummand(f) /\ IsSummand(g)
  BY PartSummand
<1>2. /\ DOMAIN f = 0..(n - 1) /\ DOMAIN g = 0..(n - 1)
      /\ \A j \in 0..(n - 1) : f[j] = m[Account(s, j)] /\ g[j] = w[Account(s, j)]
  BY DEF Part
<1> HIDE DEF f, g
<1>3. SumFunction(g) = SumFunction(f) - f[i] + g[i]
  BY <1>1, <1>2, SumChange
<1> QED
  BY <1>2, <1>3 DEF f, g

LEMMA SegmentMoneyInt ==
  ASSUME NEW m \in Memories, NEW s \in Segment, m[CountOf(s)] \in 0..nbaccounts
  PROVE  SegmentMoney(m, s) \in Int
<1>1. m[ParityOf(s)] \in Int
  BY Addresses DEF Memories
<1>2. SumFunction(Part(m, s, m[CountOf(s)])) \in Int
  BY PartSummand
<1> QED
  BY <1>1, <1>2 DEF SegmentMoney

\* A segment whose words have not changed has its money.
LEMMA SegmentMoneySame ==
  ASSUME NEW m, NEW w, NEW s,
         w[CountOf(s)] = m[CountOf(s)], w[ParityOf(s)] = m[ParityOf(s)],
         \A i \in 0..(m[CountOf(s)] - 1) : w[Account(s, i)] = m[Account(s, i)]
  PROVE  SegmentMoney(w, s) = SegmentMoney(m, s)
<1>1. Part(w, s, w[CountOf(s)]) = Part(m, s, m[CountOf(s)])
  BY DEF Part
<1> QED
  BY <1>1 DEF SegmentMoney

LEMMA SegmentsFinite == IsFiniteSet(Segment)
<1>1. MaxSegments \in Nat
  BY BankAssumption
<1> QED
  BY <1>1, FS_Interval DEF Segment

LEMMA MoneySummand ==
  ASSUME NEW m \in Memories, NEW T, CountsFit(m, T)
  PROVE  /\ IsSummand([s \in T |-> SegmentMoney(m, s)])
         /\ IsSummand([s \in T |-> m[CountOf(s)]])
         /\ MoneyOf(m, T) \in Int /\ AccountsOf(m, T) \in Int
<1> DEFINE f == [s \in T |-> SegmentMoney(m, s)]
           g == [s \in T |-> m[CountOf(s)]]
<1>1. IsFiniteSet(T)
  BY SegmentsFinite, FS_Subset DEF CountsFit
<1>2. \A s \in T : SegmentMoney(m, s) \in Int
  BY SegmentMoneyInt DEF CountsFit
<1>3. nbaccounts \in Nat
  BY BankAssumption
<1>4. IsSummand(f)
  BY <1>1, <1>2 DEF IsSummand
<1>5. IsSummand(g)
  BY <1>1, <1>3 DEF IsSummand, CountsFit
<1> QED
  BY <1>4, <1>5, SumInt DEF MoneyOf, AccountsOf

LEMMA MoneyNone ==
  ASSUME NEW m
  PROVE  MoneyOf(m, {}) = 0 /\ AccountsOf(m, {}) = 0
BY SumEmpty DEF MoneyOf, AccountsOf

\* One more segment.
LEMMA MoneyMore ==
  ASSUME NEW m \in Memories, NEW T, NEW x, x \notin T, CountsFit(m, T \cup {x})
  PROVE  /\ MoneyOf(m, T \cup {x}) = MoneyOf(m, T) + SegmentMoney(m, x)
         /\ AccountsOf(m, T \cup {x}) = AccountsOf(m, T) + m[CountOf(x)]
<1>1. CountsFit(m, T)
  BY DEF CountsFit
<1> DEFINE f == [s \in T |-> SegmentMoney(m, s)]
           g == [s \in T \cup {x} |-> SegmentMoney(m, s)]
           h == [s \in T |-> m[CountOf(s)]]
           k == [s \in T \cup {x} |-> m[CountOf(s)]]
<1>2. IsSummand(f) /\ IsSummand(g) /\ IsSummand(h) /\ IsSummand(k)
  BY <1>1, MoneySummand
<1>3. SumFunction(g) = SumFunction(f) + g[x]
  <2>1. DOMAIN f = T /\ DOMAIN g = DOMAIN f \cup {x} /\ f = [y \in DOMAIN f |-> g[y]]
    OBVIOUS
  <2> HIDE DEF f, g
  <2> QED
    BY <1>2, <2>1, SumMore
<1>4. SumFunction(k) = SumFunction(h) + k[x]
  <2>1. DOMAIN h = T /\ DOMAIN k = DOMAIN h \cup {x} /\ h = [y \in DOMAIN h |-> k[y]]
    OBVIOUS
  <2> HIDE DEF h, k
  <2> QED
    BY <1>2, <2>1, SumMore
<1> QED
  BY <1>3, <1>4 DEF MoneyOf, AccountsOf

\* One segment has changed.
LEMMA MoneyChange ==
  ASSUME NEW m \in Memories, NEW w \in Memories, NEW T, CountsFit(m, T), CountsFit(w, T),
         NEW x \in T,
         \A s \in T \ {x} : SegmentMoney(w, s) = SegmentMoney(m, s)
                              /\ w[CountOf(s)] = m[CountOf(s)]
  PROVE  /\ MoneyOf(w, T) = MoneyOf(m, T) - SegmentMoney(m, x) + SegmentMoney(w, x)
         /\ AccountsOf(w, T) = AccountsOf(m, T) - m[CountOf(x)] + w[CountOf(x)]
<1> DEFINE f == [s \in T |-> SegmentMoney(m, s)]
           g == [s \in T |-> SegmentMoney(w, s)]
           h == [s \in T |-> m[CountOf(s)]]
           k == [s \in T |-> w[CountOf(s)]]
<1>1. IsSummand(f) /\ IsSummand(g) /\ IsSummand(h) /\ IsSummand(k)
  BY MoneySummand
<1>2. SumFunction(g) = SumFunction(f) - f[x] + g[x]
  <2>1. DOMAIN f = T /\ DOMAIN g = DOMAIN f /\ \A y \in DOMAIN f \ {x} : g[y] = f[y]
    OBVIOUS
  <2> HIDE DEF f, g
  <2> QED
    BY <1>1, <2>1, SumChange
<1>3. SumFunction(k) = SumFunction(h) - h[x] + k[x]
  <2>1. DOMAIN h = T /\ DOMAIN k = DOMAIN h /\ \A y \in DOMAIN h \ {x} : k[y] = h[y]
    OBVIOUS
  <2> HIDE DEF h, k
  <2> QED
    BY <1>1, <2>1, SumChange
<1> QED
  BY <1>2, <1>3 DEF MoneyOf, AccountsOf

-----------------------------------------------------------------------------
\* What the closures do to a good bank.

LEMMA GoodCounts ==
  ASSUME NEW m \in Memories, NEW T, GoodList(m, T)
  PROVE  /\ CountsFit(m, T)
         /\ \A s \in T : s \in Segment /\ m[CountOf(s)] \in 1..nbaccounts
         /\ \A s \in T : m[NextOf(s)] = nullptr => IsLast(m, T, s)
         /\ nbaccounts \in Nat /\ nbaccounts >= 2 /\ init_balance \in Nat
<1>1. nbaccounts \in Nat /\ nbaccounts >= 2 /\ init_balance \in Nat
  BY BankAssumption
<1>2. \A s \in T : s \in Segment /\ m[CountOf(s)] \in 1..nbaccounts
  BY <1>1 DEF GoodList, IsLast, IsInner
<1>3. CountsFit(m, T)
  BY <1>1, <1>2 DEF CountsFit
<1>4. 0 \notin Segment
  BY BankAssumption DEF Segment
<1>5. ASSUME NEW s \in T, m[NextOf(s)] = nullptr
      PROVE  IsLast(m, T, s)
  BY <1>4, <1>5 DEF GoodList, IsInner, nullptr
<1> QED
  BY <1>1, <1>2, <1>3, <1>5

\* Segments that a change leaves alone.
LEMMA SegmentSame ==
  ASSUME NEW m \in Memories, NEW w \in Memories, NEW s \in Segment,
         \A a \in Words : SegmentOfWord(a) = s => w[a] = m[a],
         m[CountOf(s)] \in 0..nbaccounts
  PROVE  /\ w[CountOf(s)] = m[CountOf(s)]
         /\ w[NextOf(s)] = m[NextOf(s)]
         /\ w[ParityOf(s)] = m[ParityOf(s)]
         /\ \A i \in 0..(nbaccounts - 1) : w[Account(s, i)] = m[Account(s, i)]
         /\ SegmentMoney(w, s) = SegmentMoney(m, s)
<1>1. /\ w[CountOf(s)] = m[CountOf(s)]
      /\ w[NextOf(s)] = m[NextOf(s)]
      /\ w[ParityOf(s)] = m[ParityOf(s)]
      /\ \A i \in 0..(nbaccounts - 1) : w[Account(s, i)] = m[Account(s, i)]
  BY Addresses
<1>2. \A i \in 0..(m[CountOf(s)] - 1) : i \in 0..(nbaccounts - 1)
  BY BankAssumption
<1> QED
  BY <1>1, <1>2, SegmentMoneySame

\* One more account in the last segment.
LEMMA FillEffect ==
  ASSUME NEW m \in Memories, NEW w \in Memories, NEW T, GoodBank(m, T), NEW s \in T,
         m[NextOf(s)] = nullptr, NEW n, n = m[CountOf(s)], n < nbaccounts,
         w[Account(s, n)] = init_balance, w[CountOf(s)] = n + 1,
         \A a \in Words \ {Account(s, n), CountOf(s)} : w[a] = m[a]
  PROVE  GoodBank(w, T)
<1>1. /\ CountsFit(m, T) /\ s \in Segment /\ n \in 1..(nbaccounts - 1)
      /\ nbaccounts \in Nat /\ nbaccounts >= 2 /\ init_balance \in Nat
      /\ IsLast(m, T, s) /\ GoodList(m, T)
  BY GoodCounts DEF GoodBank
<1>2. ASSUME NEW r \in T, r # s
      PROVE  /\ w[CountOf(r)] = m[CountOf(r)]
             /\ w[NextOf(r)] = m[NextOf(r)]
             /\ \A i \in 0..(nbaccounts - 1) : w[Account(r, i)] = m[Account(r, i)]
             /\ SegmentMoney(w, r) = SegmentMoney(m, r)
  <2>1. r \in Segment /\ m[CountOf(r)] \in 0..nbaccounts
    BY <1>1 DEF CountsFit
  <2>2. SegmentOfWord(Account(s, n)) = s /\ SegmentOfWord(CountOf(s)) = s
    BY <1>1, Addresses
  <2>3. \A a \in Words : SegmentOfWord(a) = r => w[a] = m[a]
    BY <1>2, <2>2
  <2> QED
    BY <2>1, <2>3, SegmentSame
<1>3. /\ w[NextOf(s)] = m[NextOf(s)] /\ w[ParityOf(s)] = m[ParityOf(s)]
      /\ \A i \in 0..(n - 1) : w[Account(s, i)] = m[Account(s, i)]
  <2>1. \A i \in 0..(n - 1) : i \in 0..(nbaccounts - 1) /\ i # n
    BY <1>1
  <2>2. n \in 0..(nbaccounts - 1)
    BY <1>1
  <2> QED
    BY <1>1, <2>1, <2>2, Addresses
<1>4. GoodList(w, T)
  <2>1. IsLast(w, T, s)
    BY <1>1, <1>3 DEF IsLast
  <2>2. \A r \in T \ {s} : IsLast(w, T, r) \/ IsInner(w, T, r)
    BY <1>1, <1>2 DEF GoodList, IsLast, IsInner
  <2>3. w[CountOf(1)] >= 2
    BY <1>1, <1>2 DEF GoodList
  <2> QED
    BY <1>1, <2>1, <2>2, <2>3 DEF GoodList
<1>5. CountsFit(w, T)
  BY <1>4, GoodCounts
<1>6. NoDebts(w, T)
  <2> SUFFICES ASSUME NEW r \in T, NEW i \in 0..(w[CountOf(r)] - 1)
               PROVE  w[Account(r, i)] >= 0
    BY DEF NoDebts
  <2>1. CASE r # s
    <3>1. i \in 0..(m[CountOf(r)] - 1) /\ i \in 0..(nbaccounts - 1)
      BY <1>1, <1>2, <2>1 DEF CountsFit
    <3> QED
      BY <1>2, <2>1, <3>1 DEF GoodBank, NoDebts
  <2>2. CASE r = s
    <3>1. i = n \/ i \in 0..(n - 1)
      BY <1>1, <2>2
    <3> QED
      BY <1>1, <1>3, <2>2, <3>1 DEF GoodBank, NoDebts
  <2> QED
    BY <2>1, <2>2
<1>7. SegmentMoney(w, s) = SegmentMoney(m, s) + init_balance
  <2>1. Part(w, s, n) = Part(m, s, n)
    BY <1>3 DEF Part
  <2>2. n \in 0..(nbaccounts - 1) /\ n \in 0..nbaccounts
    BY <1>1
  <2>3. SumFunction(Part(w, s, n + 1)) = SumFunction(Part(m, s, n)) + init_balance
    BY <1>1, <2>1, <2>2, PartMore
  <2>4. SumFunction(Part(m, s, n)) \in Int /\ m[ParityOf(s)] \in Int
    BY <1>1, <2>2, PartSummand, Addresses DEF Memories
  <2> QED
    BY <1>1, <1>3, <2>3, <2>4 DEF SegmentMoney
<1>8. /\ MoneyOf(w, T) = MoneyOf(m, T) - SegmentMoney(m, s) + SegmentMoney(w, s)
      /\ AccountsOf(w, T) = AccountsOf(m, T) - m[CountOf(s)] + w[CountOf(s)]
  <2>1. /\ CountsFit(m, T)
        /\ \A r \in T \ {s} : /\ SegmentMoney(w, r) = SegmentMoney(m, r)
                             /\ w[CountOf(r)] = m[CountOf(r)]
    BY <1>1, <1>2
  <2> QED
    BY <1>5, <2>1, MoneyChange
<1>9. MoneyOf(m, T) \in Int /\ AccountsOf(m, T) \in Int /\ SegmentMoney(m, s) \in Int
  <2>1. m[CountOf(s)] \in 0..nbaccounts
    BY <1>1
  <2> QED
    BY <1>1, <2>1, MoneySummand, SegmentMoneyInt
<1>10. MoneyOf(w, T) = init_balance * AccountsOf(w, T)
  <2>1. MoneyOf(w, T) = MoneyOf(m, T) + init_balance /\ AccountsOf(w, T) = AccountsOf(m, T) + 1
    BY <1>1, <1>7, <1>8, <1>9
  <2>2. MoneyOf(m, T) = init_balance * AccountsOf(m, T)
    BY DEF GoodBank
  <2> QED
    BY <1>1, <1>9, <2>1, <2>2
<1> QED
  BY <1>4, <1>6, <1>10 DEF GoodBank

\* The last account of the last segment goes, and another one is left there.
LEMMA LowerEffect ==
  ASSUME NEW m \in Memories, NEW w \in Memories, NEW T, GoodBank(m, T), NEW s \in T,
         m[NextOf(s)] = nullptr, NEW n, n = m[CountOf(s)] - 1, n > 0, s = 1 => n >= 2,
         w[CountOf(s)] = n,
         w[ParityOf(s)] = m[ParityOf(s)] + m[Account(s, n)] - init_balance,
         \A a \in Words \ {CountOf(s), ParityOf(s)} : w[a] = m[a]
  PROVE  GoodBank(w, T)
<1>1. /\ CountsFit(m, T) /\ s \in Segment /\ n \in 1..(nbaccounts - 1) /\ m[CountOf(s)] = n + 1
      /\ nbaccounts \in Nat /\ nbaccounts >= 2 /\ init_balance \in Nat
      /\ IsLast(m, T, s) /\ GoodList(m, T)
  BY GoodCounts DEF GoodBank
<1>2. ASSUME NEW r \in T, r # s
      PROVE  /\ w[CountOf(r)] = m[CountOf(r)]
             /\ w[NextOf(r)] = m[NextOf(r)]
             /\ \A i \in 0..(nbaccounts - 1) : w[Account(r, i)] = m[Account(r, i)]
             /\ SegmentMoney(w, r) = SegmentMoney(m, r)
  <2>1. r \in Segment /\ m[CountOf(r)] \in 0..nbaccounts
    BY <1>1 DEF CountsFit
  <2>2. SegmentOfWord(ParityOf(s)) = s /\ SegmentOfWord(CountOf(s)) = s
    BY <1>1, Addresses
  <2>3. \A a \in Words : SegmentOfWord(a) = r => w[a] = m[a]
    BY <1>2, <2>2
  <2> QED
    BY <2>1, <2>3, SegmentSame
<1>3. /\ w[NextOf(s)] = m[NextOf(s)]
      /\ \A i \in 0..(nbaccounts - 1) : w[Account(s, i)] = m[Account(s, i)]
  <2>1. \A i \in 0..(nbaccounts - 1) : 3 + i # 0 /\ 3 + i # 2
    BY <1>1
  <2> QED
    BY <1>1, <2>1, Addresses
<1>4. GoodList(w, T)
  <2>1. IsLast(w, T, s)
    BY <1>1, <1>3 DEF IsLast
  <2>2. \A r \in T \ {s} : IsLast(w, T, r) \/ IsInner(w, T, r)
    BY <1>1, <1>2 DEF GoodList, IsLast, IsInner
  <2>3. w[CountOf(1)] >= 2
    BY <1>1, <1>2 DEF GoodList
  <2> QED
    BY <1>1, <2>1, <2>2, <2>3 DEF GoodList
<1>5. CountsFit(w, T)
  BY <1>4, GoodCounts
<1>6. NoDebts(w, T)
  <2> SUFFICES ASSUME NEW r \in T, NEW i \in 0..(w[CountOf(r)] - 1)
               PROVE  w[Account(r, i)] >= 0
    BY DEF NoDebts
  <2>1. i \in 0..(m[CountOf(r)] - 1) /\ i \in 0..(nbaccounts - 1)
    BY <1>1, <1>2 DEF CountsFit
  <2> QED
    BY <1>2, <1>3, <2>1 DEF GoodBank, NoDebts
<1>7. SegmentMoney(w, s) = SegmentMoney(m, s) - init_balance
  <2>1. Part(w, s, n) = Part(m, s, n)
    <3>1. \A i \in 0..(n - 1) : i \in 0..(nbaccounts - 1)
      BY <1>1
    <3> QED
      BY <1>3, <3>1 DEF Part
  <2>2. n \in 0..(nbaccounts - 1) /\ n \in 0..nbaccounts
    BY <1>1
  <2>3. SumFunction(Part(m, s, n + 1)) = SumFunction(Part(m, s, n)) + m[Account(s, n)]
    BY <1>1, <2>2, PartMore
  <2>4. /\ SumFunction(Part(m, s, n)) \in Int /\ m[ParityOf(s)] \in Int
        /\ m[Account(s, n)] \in Int
    BY <1>1, <2>2, PartSummand, Addresses DEF Memories
  <2> QED
    BY <1>1, <1>3, <2>1, <2>3, <2>4 DEF SegmentMoney
<1>8. /\ MoneyOf(w, T) = MoneyOf(m, T) - SegmentMoney(m, s) + SegmentMoney(w, s)
      /\ AccountsOf(w, T) = AccountsOf(m, T) - m[CountOf(s)] + w[CountOf(s)]
  <2>1. /\ CountsFit(m, T)
        /\ \A r \in T \ {s} : /\ SegmentMoney(w, r) = SegmentMoney(m, r)
                             /\ w[CountOf(r)] = m[CountOf(r)]
    BY <1>1, <1>2
  <2> QED
    BY <1>5, <2>1, MoneyChange
<1>9. MoneyOf(m, T) \in Int /\ AccountsOf(m, T) \in Int /\ SegmentMoney(m, s) \in Int
  <2>1. m[CountOf(s)] \in 0..nbaccounts
    BY <1>1
  <2> QED
    BY <1>1, <2>1, MoneySummand, SegmentMoneyInt
<1>10. MoneyOf(w, T) = init_balance * AccountsOf(w, T)
  <2>1. MoneyOf(w, T) = MoneyOf(m, T) - init_balance /\ AccountsOf(w, T) = AccountsOf(m, T) - 1
    <3>1. MoneyOf(w, T) = MoneyOf(m, T) - init_balance
      BY <1>1, <1>7, <1>8, <1>9
    <3>2. n \in Int
      BY <1>1
    <3>3. w[CountOf(s)] = n
      OBVIOUS
    <3>4. AccountsOf(w, T) = AccountsOf(m, T) - (n + 1) + n
      BY <1>1, <1>8, <3>3
    <3> QED
      BY <1>9, <3>1, <3>2, <3>4
  <2>2. MoneyOf(m, T) = init_balance * AccountsOf(m, T)
    BY DEF GoodBank
  <2> QED
    BY <1>1, <1>9, <2>1, <2>2
<1> QED
  BY <1>4, <1>6, <1>10 DEF GoodBank

\* The last segment goes with its only account.
LEMMA UnlinkEffect ==
  ASSUME NEW m \in Memories, NEW w \in Memories, NEW T, GoodBank(m, T), NEW s \in T, NEW p \in T,
         m[NextOf(s)] = nullptr, m[CountOf(s)] = 1, p < s, m[NextOf(p)] = s,
         w[NextOf(p)] = nullptr,
         w[ParityOf(p)] =
           m[ParityOf(p)] + m[ParityOf(s)] + m[Account(s, 0)] - init_balance,
         \A a \in Words \ {NextOf(p), ParityOf(p)} : w[a] = m[a]
  PROVE  GoodBank(w, T \ {s})
<1> DEFINE U == T \ {s}
<1>1. /\ CountsFit(m, T) /\ s \in Segment /\ p \in Segment /\ p # s
      /\ nbaccounts \in Nat /\ nbaccounts >= 2 /\ init_balance \in Nat
      /\ IsLast(m, T, s) /\ GoodList(m, T)
  <2>1. s \in Segment /\ p \in Segment
    BY GoodCounts DEF GoodBank
  <2>2. s \in Nat /\ p \in Nat
    BY <2>1, Addresses
  <2> QED
    BY <2>2, GoodCounts DEF GoodBank
<1>2. \A r \in T : r \in Nat /\ r >= 1
  BY <1>1, Addresses DEF CountsFit
<1>3. IsInner(m, T, p) /\ s # 1
  BY <1>1, <1>2 DEF GoodList, IsLast
<1>4. ASSUME NEW r \in Segment, r # p, m[CountOf(r)] \in 0..nbaccounts
      PROVE  /\ w[CountOf(r)] = m[CountOf(r)]
             /\ w[NextOf(r)] = m[NextOf(r)]
             /\ \A i \in 0..(nbaccounts - 1) : w[Account(r, i)] = m[Account(r, i)]
             /\ SegmentMoney(w, r) = SegmentMoney(m, r)
  <2>1. SegmentOfWord(ParityOf(p)) = p /\ SegmentOfWord(NextOf(p)) = p
    BY <1>1, Addresses
  <2>2. \A a \in Words : SegmentOfWord(a) = r => w[a] = m[a]
    BY <1>4, <2>1
  <2> QED
    BY <1>4, <2>2, SegmentSame
<1>5. /\ w[CountOf(p)] = m[CountOf(p)]
      /\ \A i \in 0..(nbaccounts - 1) : w[Account(p, i)] = m[Account(p, i)]
  <2>1. \A i \in 0..(nbaccounts - 1) : 3 + i # 1 /\ 3 + i # 2
    BY <1>1
  <2> QED
    BY <1>1, <2>1, Addresses
<1>6. ASSUME NEW r \in U
      PROVE  IsLast(w, U, r) \/ IsInner(w, U, r)
  <2>1. CASE r = p
    <3>1. \A x \in U : x <= p
      BY <1>1, <1>2, <1>3 DEF IsLast, IsInner
    <3>2. w[CountOf(p)] \in 1..nbaccounts
      BY <1>1, <1>3, <1>5 DEF IsInner
    <3> QED
      BY <2>1, <3>1, <3>2 DEF IsLast
  <2>2. CASE r # p
    <3>1. r \in T /\ r # s /\ m[CountOf(r)] \in 0..nbaccounts /\ r \in Segment
      BY <1>1 DEF CountsFit
    <3>2. w[CountOf(r)] = m[CountOf(r)] /\ w[NextOf(r)] = m[NextOf(r)]
      BY <1>4, <2>2, <3>1
    <3>3. r < s
      BY <1>1, <1>2, <3>1 DEF IsLast
    <3>4. IsInner(m, T, r)
      BY <1>1, <1>2, <3>1, <3>3 DEF GoodList, IsLast
    <3>5. m[NextOf(r)] # s
      <4> SUFFICES ASSUME m[NextOf(r)] = s PROVE FALSE
        OBVIOUS
      <4>1. p <= r \/ p >= s
        BY <3>4 DEF IsInner
      <4>2. r <= p \/ r >= s
        BY <1>3, <3>1 DEF IsInner
      <4> QED
        BY <1>2, <2>2, <3>1, <3>3, <4>1, <4>2
    <3> QED
      BY <3>2, <3>4, <3>5 DEF IsInner
  <2> QED
    BY <2>1, <2>2
<1>7. GoodList(w, U)
  <2>1. 1 \in U /\ U \subseteq Segment
    BY <1>1, <1>3 DEF GoodList
  <2>2. w[CountOf(1)] >= 2
    <3>1. m[CountOf(1)] >= 2 /\ 1 \in Segment /\ m[CountOf(1)] \in 0..nbaccounts
      BY <1>1, <2>1 DEF GoodList, CountsFit
    <3> QED
      BY <1>4, <1>5, <3>1
  <2> QED
    BY <1>6, <2>1, <2>2 DEF GoodList
<1>8. CountsFit(m, U) /\ CountsFit(w, U)
  BY <1>1, <1>7, GoodCounts DEF CountsFit
<1>9. NoDebts(w, U)
  <2> SUFFICES ASSUME NEW r \in U, NEW i \in 0..(w[CountOf(r)] - 1)
               PROVE  w[Account(r, i)] >= 0
    BY DEF NoDebts
  <2>1. r \in T /\ r \in Segment /\ m[CountOf(r)] \in 0..nbaccounts
    BY <1>1 DEF CountsFit
  <2>2. w[CountOf(r)] = m[CountOf(r)] /\ \A j \in 0..(nbaccounts - 1) : w[Account(r, j)] = m[Account(r, j)]
    BY <1>4, <1>5, <2>1
  <2>3. i \in 0..(m[CountOf(r)] - 1) /\ i \in 0..(nbaccounts - 1)
    BY <1>1, <2>1, <2>2
  <2> QED
    BY <2>1, <2>2, <2>3 DEF GoodBank, NoDebts
<1>10. SegmentMoney(m, s) = m[ParityOf(s)] + m[Account(s, 0)] /\ SegmentMoney(m, s) \in Int
  <2>1. 0 \in 0..(nbaccounts - 1) /\ 1 \in 0..nbaccounts
    BY <1>1
  <2>2. SumFunction(Part(m, s, 0 + 1)) = SumFunction(Part(m, s, 0)) + m[Account(s, 0)]
    BY <1>1, <2>1, PartMore
  <2>3. SumFunction(Part(m, s, 0)) = 0
    BY PartEmpty
  <2>4. m[Account(s, 0)] \in Int /\ m[ParityOf(s)] \in Int
    BY <1>1, <2>1, Addresses DEF Memories
  <2>5. SumFunction(Part(m, s, 1)) = m[Account(s, 0)]
    BY <2>2, <2>3, <2>4
  <2> QED
    BY <2>4, <2>5 DEF SegmentMoney
<1>11. /\ SegmentMoney(w, p) = SegmentMoney(m, p) + SegmentMoney(m, s) - init_balance
       /\ SegmentMoney(m, p) \in Int
  <2>1. m[CountOf(p)] = nbaccounts /\ nbaccounts \in 0..nbaccounts
    BY <1>1, <1>3 DEF IsInner
  <2>2. Part(w, p, nbaccounts) = Part(m, p, nbaccounts)
    BY <1>5 DEF Part
  <2>3. SumFunction(Part(m, p, nbaccounts)) \in Int /\ m[ParityOf(p)] \in Int
    BY <1>1, <2>1, PartSummand, Addresses DEF Memories
  <2>4. m[Account(s, 0)] \in Int /\ m[ParityOf(s)] \in Int
    BY <1>1, Addresses DEF Memories
  <2>5. SegmentMoney(m, p) = m[ParityOf(p)] + SumFunction(Part(m, p, nbaccounts))
    BY <2>1 DEF SegmentMoney
  <2>6. SegmentMoney(w, p) = w[ParityOf(p)] + SumFunction(Part(m, p, nbaccounts))
    BY <1>5, <2>1, <2>2 DEF SegmentMoney
  <2> QED
    BY <1>1, <1>10, <2>3, <2>4, <2>5, <2>6
<1>12. /\ MoneyOf(m, T) = MoneyOf(m, U) + SegmentMoney(m, s)
       /\ AccountsOf(m, T) = AccountsOf(m, U) + 1
  <2>1. T = U \cup {s} /\ s \notin U
    OBVIOUS
  <2> HIDE DEF U
  <2> QED
    BY <1>1, <2>1, MoneyMore
<1>13. /\ MoneyOf(w, U) = MoneyOf(m, U) - SegmentMoney(m, p) + SegmentMoney(w, p)
       /\ AccountsOf(w, U) = AccountsOf(m, U) - m[CountOf(p)] + w[CountOf(p)]
  <2>1. p \in U
    BY <1>1
  <2>2. \A r \in U \ {p} : SegmentMoney(w, r) = SegmentMoney(m, r) /\ w[CountOf(r)] = m[CountOf(r)]
    BY <1>1, <1>4 DEF CountsFit
  <2> HIDE DEF U
  <2> QED
    BY <1>8, <2>1, <2>2, MoneyChange
<1>14. MoneyOf(w, U) = init_balance * AccountsOf(w, U)
  <2>1. MoneyOf(m, U) \in Int /\ AccountsOf(m, U) \in Int /\ m[CountOf(p)] \in Int
    <3>1. m[CountOf(p)] \in Int
      BY <1>1, <1>3 DEF IsInner
    <3> HIDE DEF U
    <3> QED
      BY <1>8, <3>1, MoneySummand
  <2>2. MoneyOf(m, T) = init_balance * AccountsOf(m, T)
    BY DEF GoodBank
  <2>3. AccountsOf(w, U) = AccountsOf(m, U)
    BY <1>5, <1>13, <2>1
  <2>4. MoneyOf(w, U) = MoneyOf(m, U) + SegmentMoney(m, s) - init_balance
    BY <1>1, <1>10, <1>11, <1>13, <2>1
  <2>5. init_balance * (AccountsOf(m, U) + 1) = init_balance * AccountsOf(m, U) + init_balance
    BY <1>1, <2>1
  <2>6. MoneyOf(w, U) = MoneyOf(m, T) - init_balance
    BY <1>1, <1>10, <1>12, <2>1, <2>4
  <2>7. init_balance * AccountsOf(m, U) \in Int
    BY <1>1, <2>1
  <2> HIDE DEF U
  <2> QED
    BY <1>1, <1>12, <2>2, <2>3, <2>5, <2>6, <2>7
<1> QED
  BY <1>7, <1>9, <1>14 DEF GoodBank

\* A new segment with one account is linked behind the last one.
LEMMA AddEffect ==
  ASSUME NEW m \in Memories, NEW w \in Memories, NEW T, GoodBank(m, T), NEW p \in T,
         NEW s \in Segment, \A r \in T : r < s,
         m[NextOf(p)] = nullptr, m[CountOf(p)] = nbaccounts,
         m[NextOf(s)] = nullptr, m[ParityOf(s)] = 0,
         w[NextOf(p)] = s, w[CountOf(s)] = 1, w[Account(s, 0)] = init_balance,
         \A a \in Words \ {NextOf(p), CountOf(s), Account(s, 0)} : w[a] = m[a]
  PROVE  GoodBank(w, T \cup {s})
<1> DEFINE U == T \cup {s}
<1>1. /\ CountsFit(m, T) /\ p \in Segment
      /\ nbaccounts \in Nat /\ nbaccounts >= 2 /\ init_balance \in Nat
      /\ IsLast(m, T, p) /\ GoodList(m, T)
  BY GoodCounts DEF GoodBank
<1>2. s \in Nat /\ s >= 1 /\ \A r \in T : r \in Nat /\ r >= 1 /\ r \in Segment /\ r # s
  BY <1>1, Addresses DEF CountsFit
<1>3. /\ SegmentOfWord(NextOf(p)) = p /\ SegmentOfWord(CountOf(s)) = s
      /\ SegmentOfWord(Account(s, 0)) = s /\ 0 \in 0..(nbaccounts - 1)
  BY <1>1, Addresses
<1>4. ASSUME NEW r \in T, r # p
      PROVE  /\ w[CountOf(r)] = m[CountOf(r)]
             /\ w[NextOf(r)] = m[NextOf(r)]
             /\ \A i \in 0..(nbaccounts - 1) : w[Account(r, i)] = m[Account(r, i)]
             /\ SegmentMoney(w, r) = SegmentMoney(m, r)
  <2>1. \A a \in Words : SegmentOfWord(a) = r => w[a] = m[a]
    BY <1>2, <1>3, <1>4
  <2>2. m[CountOf(r)] \in 0..nbaccounts
    BY <1>1 DEF CountsFit
  <2> QED
    BY <1>2, <2>1, <2>2, SegmentSame
<1>5. /\ w[CountOf(p)] = nbaccounts /\ w[ParityOf(p)] = m[ParityOf(p)]
      /\ \A i \in 0..(nbaccounts - 1) : w[Account(p, i)] = m[Account(p, i)]
  <2>1. \A i \in 0..(nbaccounts - 1) : 3 + i # 1
    BY <1>1
  <2> QED
    BY <1>1, <1>2, <1>3, <2>1, Addresses
<1>6. w[NextOf(s)] = nullptr /\ w[ParityOf(s)] = 0
  BY <1>1, <1>2, <1>3, Addresses
<1>7. IsLast(w, U, s)
  BY <1>1, <1>2, <1>6 DEF IsLast
<1>8. IsInner(w, U, p)
  BY <1>1, <1>2, <1>5 DEF IsInner, IsLast
<1>9. ASSUME NEW r \in T, r # p
      PROVE  IsInner(w, U, r)
  <2>1. r < p
    BY <1>1, <1>2, <1>9 DEF IsLast
  <2>2. IsInner(m, T, r)
    BY <1>1, <1>2, <2>1 DEF GoodList, IsLast
  <2>3. m[NextOf(r)] \in T /\ m[NextOf(r)] < s
    BY <2>2 DEF IsInner
  <2> QED
    BY <1>2, <1>4, <1>9, <2>2, <2>3 DEF IsInner
<1>10. GoodList(w, U)
  <2>1. w[CountOf(1)] >= 2
    BY <1>1, <1>4, <1>5 DEF GoodList
  <2> QED
    BY <1>1, <1>7, <1>8, <1>9, <2>1 DEF GoodList
<1>11. CountsFit(w, U) /\ CountsFit(w, T)
  BY <1>10, GoodCounts DEF CountsFit
<1>12. NoDebts(w, U)
  <2> SUFFICES ASSUME NEW r \in U, NEW i \in 0..(w[CountOf(r)] - 1)
               PROVE  w[Account(r, i)] >= 0
    BY DEF NoDebts
  <2>1. CASE r = s
    <3>1. i = 0
      BY <2>1
    <3> QED
      BY <1>1, <2>1, <3>1
  <2>2. CASE r \in T
    <3>1. w[CountOf(r)] = m[CountOf(r)] /\ \A j \in 0..(nbaccounts - 1) : w[Account(r, j)] = m[Account(r, j)]
      BY <1>4, <1>5, <2>2
    <3>2. i \in 0..(m[CountOf(r)] - 1) /\ i \in 0..(nbaccounts - 1)
      BY <1>1, <2>2, <3>1 DEF CountsFit
    <3> QED
      BY <2>2, <3>1, <3>2 DEF GoodBank, NoDebts
  <2> QED
    BY <2>1, <2>2
<1>13. SegmentMoney(w, s) = init_balance
  <2>1. SumFunction(Part(w, s, 0 + 1)) = SumFunction(Part(w, s, 0)) + w[Account(s, 0)]
    BY <1>3, PartMore
  <2>2. SumFunction(Part(w, s, 0)) = 0
    BY PartEmpty
  <2>3. SumFunction(Part(w, s, 1)) = init_balance
    BY <1>1, <2>1, <2>2
  <2> QED
    BY <1>1, <1>6, <2>3 DEF SegmentMoney
<1>14. \A r \in T : SegmentMoney(w, r) = SegmentMoney(m, r) /\ w[CountOf(r)] = m[CountOf(r)]
  <2>1. SegmentMoney(w, p) = SegmentMoney(m, p)
    <3>1. Part(w, p, nbaccounts) = Part(m, p, nbaccounts)
      BY <1>5 DEF Part
    <3> QED
      BY <1>5, <3>1 DEF SegmentMoney
  <2> QED
    BY <1>4, <1>5, <2>1
<1>15. MoneyOf(w, T) = MoneyOf(m, T) /\ AccountsOf(w, T) = AccountsOf(m, T)
  BY <1>14 DEF MoneyOf, AccountsOf
<1>16. /\ MoneyOf(w, U) = MoneyOf(m, T) + init_balance
       /\ AccountsOf(w, U) = AccountsOf(m, T) + 1
  <2>1. s \notin T
    BY <1>2
  <2> QED
    BY <1>11, <1>13, <1>15, <2>1, MoneyMore
<1>17. MoneyOf(w, U) = init_balance * AccountsOf(w, U)
  <2>1. MoneyOf(m, T) \in Int /\ AccountsOf(m, T) \in Int
    BY <1>1, MoneySummand
  <2>2. MoneyOf(m, T) = init_balance * AccountsOf(m, T)
    BY DEF GoodBank
  <2>3. init_balance * (AccountsOf(m, T) + 1) = init_balance * AccountsOf(m, T) + init_balance
    BY <1>1, <2>1
  <2> HIDE DEF U
  <2> QED
    BY <1>16, <2>2, <2>3
<1> QED
  BY <1>10, <1>12, <1>17 DEF GoodBank

\* One account of the bank changes.
LEMMA AccountEffect ==
  ASSUME NEW m \in Memories, NEW w \in Memories, NEW T, CountsFit(m, T),
         NEW r \in T, NEW i \in 0..(m[CountOf(r)] - 1),
         \A a \in Words \ {Account(r, i)} : w[a] = m[a]
  PROVE  /\ CountsFit(w, T)
         /\ MoneyOf(w, T) = MoneyOf(m, T) - m[Account(r, i)] + w[Account(r, i)]
         /\ AccountsOf(w, T) = AccountsOf(m, T)
         /\ \A s \in Segment : w[CountOf(s)] = m[CountOf(s)] /\ w[NextOf(s)] = m[NextOf(s)]
<1>1. /\ r \in Segment /\ i \in 0..(nbaccounts - 1) /\ m[CountOf(r)] \in 0..nbaccounts
      /\ nbaccounts \in Nat
  BY BankAssumption DEF CountsFit
<1>2. Account(r, i) \in Words /\ SegmentOfWord(Account(r, i)) = r /\ OffsetOf(Account(r, i)) = 3 + i
  BY <1>1, Addresses
<1>3. ASSUME NEW s \in Segment
      PROVE  /\ w[CountOf(s)] = m[CountOf(s)] /\ w[NextOf(s)] = m[NextOf(s)]
             /\ w[ParityOf(s)] = m[ParityOf(s)]
  <2>1. 3 + i # 0 /\ 3 + i # 1 /\ 3 + i # 2
    BY <1>1
  <2> QED
    BY <1>2, <2>1, Addresses
<1>4. CountsFit(w, T)
  BY <1>3 DEF CountsFit
<1>5. ASSUME NEW s \in T \ {r}
      PROVE  SegmentMoney(w, s) = SegmentMoney(m, s) /\ w[CountOf(s)] = m[CountOf(s)]
  <2>1. s \in Segment /\ m[CountOf(s)] \in 0..nbaccounts
    BY DEF CountsFit
  <2>2. \A a \in Words : SegmentOfWord(a) = s => w[a] = m[a]
    BY <1>2, <1>5
  <2> QED
    BY <2>1, <2>2, SegmentSame
<1>6. /\ SegmentMoney(w, r) = SegmentMoney(m, r) - m[Account(r, i)] + w[Account(r, i)]
      /\ SegmentMoney(m, r) \in Int /\ m[Account(r, i)] \in Int /\ w[Account(r, i)] \in Int
  <2> DEFINE n == m[CountOf(r)]
  <2>1. \A j \in 0..(n - 1) : j # i => w[Account(r, j)] = m[Account(r, j)]
    <3> SUFFICES ASSUME NEW j \in 0..(n - 1), j # i
                 PROVE  w[Account(r, j)] = m[Account(r, j)]
      OBVIOUS
    <3>1. j \in 0..(nbaccounts - 1) /\ 3 + j # 3 + i
      BY <1>1
    <3> QED
      BY <1>1, <1>2, <3>1, Addresses
  <2>2. SumFunction(Part(w, r, n)) = SumFunction(Part(m, r, n)) - m[Account(r, i)] + w[Account(r, i)]
    BY <1>1, <2>1, PartChange
  <2>3. /\ SumFunction(Part(m, r, n)) \in Int /\ m[ParityOf(r)] \in Int
        /\ m[Account(r, i)] \in Int /\ w[Account(r, i)] \in Int
    BY <1>1, <1>2, PartSummand, Addresses DEF Memories
  <2>4. /\ SegmentMoney(m, r) = m[ParityOf(r)] + SumFunction(Part(m, r, n))
        /\ SegmentMoney(w, r) = m[ParityOf(r)] + SumFunction(Part(w, r, n))
    BY <1>1, <1>3 DEF SegmentMoney
  <2> HIDE DEF n
  <2> QED
    BY <2>2, <2>3, <2>4
<1>7. /\ MoneyOf(w, T) = MoneyOf(m, T) - SegmentMoney(m, r) + SegmentMoney(w, r)
      /\ AccountsOf(w, T) = AccountsOf(m, T) - m[CountOf(r)] + w[CountOf(r)]
  BY <1>4, <1>5, MoneyChange
<1>8. MoneyOf(m, T) \in Int /\ AccountsOf(m, T) \in Int /\ m[CountOf(r)] \in Int
  <2>1. MoneyOf(m, T) \in Int /\ AccountsOf(m, T) \in Int
    BY MoneySummand
  <2> QED
    BY <1>1, <2>1
<1>9. AccountsOf(w, T) = AccountsOf(m, T)
  BY <1>1, <1>3, <1>7, <1>8
<1>10. MoneyOf(w, T) = MoneyOf(m, T) - m[Account(r, i)] + w[Account(r, i)]
  BY <1>6, <1>7, <1>8
<1> QED
  BY <1>3, <1>4, <1>9, <1>10

\* One unit moves from a to another account b.
LEMMA TransferEffect ==
  ASSUME NEW m \in Memories, NEW w \in Memories, NEW T, GoodBank(m, T),
         NEW r \in T, NEW i \in 0..(m[CountOf(r)] - 1),
         NEW s \in T, NEW j \in 0..(m[CountOf(s)] - 1),
         Account(r, i) # Account(s, j), m[Account(r, i)] > 0,
         w[Account(r, i)] = m[Account(r, i)] - 1,
         w[Account(s, j)] = m[Account(s, j)] + 1,
         \A a \in Words \ {Account(r, i), Account(s, j)} : w[a] = m[a]
  PROVE  GoodBank(w, T)
<1> DEFINE x == Account(r, i)
           y == Account(s, j)
           d == m[x] - 1
           h == [m EXCEPT ![x] = d]
<1>1. /\ CountsFit(m, T) /\ GoodList(m, T) /\ nbaccounts \in Nat
      /\ \A q \in T : q \in Segment /\ m[CountOf(q)] \in 0..nbaccounts
      /\ i \in 0..(nbaccounts - 1) /\ j \in 0..(nbaccounts - 1)
  BY GoodCounts DEF GoodBank, CountsFit
<1>2. x \in Words /\ y \in Words /\ m[x] \in Int /\ m[y] \in Int
  BY <1>1, Addresses DEF Memories
<1>3. h \in Memories /\ h[x] = d /\ \A a \in Words \ {x} : h[a] = m[a]
  BY <1>2 DEF Memories
<1> HIDE DEF h
<1>4. /\ CountsFit(h, T) /\ MoneyOf(h, T) = MoneyOf(m, T) - m[x] + d
      /\ AccountsOf(h, T) = AccountsOf(m, T)
      /\ \A q \in Segment : h[CountOf(q)] = m[CountOf(q)] /\ h[NextOf(q)] = m[NextOf(q)]
  BY <1>1, <1>3, AccountEffect
<1>5. h[y] = m[y] /\ \A a \in Words \ {y} : w[a] = h[a]
  BY <1>2, <1>3
<1>6. j \in 0..(h[CountOf(s)] - 1)
  BY <1>1, <1>4
<1>7. /\ CountsFit(w, T) /\ MoneyOf(w, T) = MoneyOf(h, T) - h[y] + w[y]
      /\ AccountsOf(w, T) = AccountsOf(h, T)
      /\ \A q \in Segment : w[CountOf(q)] = h[CountOf(q)] /\ w[NextOf(q)] = h[NextOf(q)]
  BY <1>3, <1>4, <1>5, <1>6, AccountEffect
<1>8. \A q \in T : w[CountOf(q)] = m[CountOf(q)] /\ w[NextOf(q)] = m[NextOf(q)]
  BY <1>1, <1>4, <1>7
<1>9. GoodList(w, T)
  <2>1. \A q \in T : (IsLast(m, T, q) => IsLast(w, T, q)) /\ (IsInner(m, T, q) => IsInner(w, T, q))
    BY <1>8 DEF IsLast, IsInner
  <2> QED
    BY <1>1, <1>8, <2>1 DEF GoodList
<1>10. NoDebts(w, T)
  <2> SUFFICES ASSUME NEW q \in T, NEW k \in 0..(w[CountOf(q)] - 1)
               PROVE  w[Account(q, k)] >= 0
    BY DEF NoDebts
  <2>1. k \in 0..(m[CountOf(q)] - 1) /\ k \in 0..(nbaccounts - 1)
    BY <1>1, <1>8
  <2>2. m[Account(q, k)] >= 0 /\ m[y] >= 0 /\ Account(q, k) \in Words
    BY <1>1, <2>1, Addresses DEF GoodBank, NoDebts
  <2> QED
    BY <1>2, <2>2
<1>11. MoneyOf(w, T) = init_balance * AccountsOf(w, T)
  <2>1. MoneyOf(m, T) \in Int
    BY <1>1, MoneySummand
  <2>2. MoneyOf(w, T) = MoneyOf(m, T)
    BY <1>2, <1>4, <1>5, <1>7, <2>1
  <2> QED
    BY <1>4, <1>7, <2>2 DEF GoodBank
<1> QED
  BY <1>9, <1>10, <1>11 DEF GoodBank

\* What a closure that has returned does to a bank M that looks to it like m.
LEMMA ReturnedEffect ==
  ASSUME NEW m \in Memories, NEW M \in Memories, NEW w \in Memories,
         NEW S, NEW T, GoodBank(m, S), GoodBank(M, T),
         NEW K, NEW R, NEW mi, NEW wi, Returned(K, R, m, S, mi, wi),
         \A a \in R : M[a] = m[a],
         \A s \in S : Walked(R, S, s) => s \in T,
         \A s \in mi : s \in Segment /\ M[NextOf(s)] = nullptr /\ M[ParityOf(s)] = 0
                         /\ \A r \in S : r < s,
         \A a \in Words : w[a] = View(K, M, a)
  PROVE  GoodBank(w, (T \cup mi) \ wi)
<1>1. /\ \A a \in Words : a \in DOMAIN K => w[a] = K[a]
      /\ \A a \in Words : a \notin DOMAIN K => w[a] = M[a]
  BY DEF View
<1>2. /\ GoodList(M, T) /\ GoodList(m, S)
      /\ \A s \in T : s \in Segment /\ M[CountOf(s)] \in 1..nbaccounts
      /\ \A s \in S : s \in Segment /\ m[CountOf(s)] \in 1..nbaccounts
      /\ \A s \in T : M[NextOf(s)] = nullptr => IsLast(M, T, s)
      /\ nbaccounts \in Nat /\ nbaccounts >= 2
  BY GoodCounts DEF GoodBank
<1>3. CASE Untouched(K, mi, wi)
  <2>1. \A a \in Words : w[a] = M[a]
    BY <1>1, <1>3 DEF Untouched
  <2>2. w = M
    BY <2>1 DEF Memories
  <2>3. (T \cup mi) \ wi = T
    BY <1>3 DEF Untouched
  <2> QED
    BY <2>2, <2>3
<1>4. ASSUME NEW s \in S, Filled(s, K, R, m, S, mi, wi)
      PROVE  GoodBank(w, (T \cup mi) \ wi)
  <2> DEFINE n == m[CountOf(s)]
  <2>1. /\ s \in T /\ M[CountOf(s)] = n /\ M[NextOf(s)] = nullptr /\ n < nbaccounts
        /\ (T \cup mi) \ wi = T
    BY <1>4 DEF Filled, AtEnd
  <2>2. Account(s, n) \in Words /\ CountOf(s) \in Words
    BY <1>2, <2>1, Addresses
  <2>3. DOMAIN K = {Account(s, n), CountOf(s)} /\ K[Account(s, n)] = init_balance /\ K[CountOf(s)] = n + 1
    BY <1>4 DEF Filled
  <2>4. /\ w[Account(s, n)] = init_balance /\ w[CountOf(s)] = n + 1
        /\ \A a \in Words \ {Account(s, n), CountOf(s)} : w[a] = M[a]
    BY <1>1, <2>2, <2>3
  <2> HIDE DEF n
  <2> QED
    BY <2>1, <2>4, FillEffect
<1>5. ASSUME NEW s \in S, Lowered(s, K, R, m, S, mi, wi)
      PROVE  GoodBank(w, (T \cup mi) \ wi)
  <2> DEFINE n == m[CountOf(s)] - 1
  <2>1. /\ s \in T /\ M[CountOf(s)] = m[CountOf(s)] /\ M[NextOf(s)] = nullptr
        /\ n > 0 /\ (s = 1 => n >= 2)
        /\ M[ParityOf(s)] = m[ParityOf(s)] /\ M[Account(s, n)] = m[Account(s, n)]
        /\ (T \cup mi) \ wi = T
    BY <1>5 DEF Lowered, AtEnd
  <2>2. ParityOf(s) \in Words /\ CountOf(s) \in Words
    BY <1>2, Addresses
  <2>3. /\ DOMAIN K = {CountOf(s), ParityOf(s)} /\ K[CountOf(s)] = n
        /\ K[ParityOf(s)] = m[ParityOf(s)] + m[Account(s, n)] - init_balance
    BY <1>5 DEF Lowered
  <2>4. /\ w[CountOf(s)] = n
        /\ w[ParityOf(s)] = M[ParityOf(s)] + M[Account(s, n)] - init_balance
        /\ \A a \in Words \ {CountOf(s), ParityOf(s)} : w[a] = M[a]
    BY <1>1, <2>1, <2>2, <2>3
  <2>5. n = M[CountOf(s)] - 1
    BY <2>1
  <2> HIDE DEF n
  <2> QED
    BY <2>1, <2>4, <2>5, LowerEffect
<1>6. ASSUME NEW p \in S, NEW s \in S, Shortened(p, s, K, R, m, S, mi, wi)
      PROVE  GoodBank(w, (T \cup mi) \ wi)
  <2>1. /\ AtEnd(R, m, S, s) /\ p < s /\ m[NextOf(p)] = s /\ m[CountOf(s)] = 1
        /\ Account(s, 0) \in R /\ ParityOf(s) \in R /\ ParityOf(p) \in R
        /\ (T \cup mi) \ wi = T \ {s}
    BY <1>6 DEF Shortened
  <2>2. \A q \in S : q \in Nat
    BY <1>2, Addresses
  <2>3. Walked(R, S, p) /\ NextOf(p) \in R
    BY <2>1, <2>2 DEF AtEnd, Walked
  <2>4. /\ s \in T /\ p \in T /\ M[CountOf(s)] = 1 /\ M[NextOf(s)] = nullptr
        /\ M[NextOf(p)] = s
        /\ M[ParityOf(s)] = m[ParityOf(s)] /\ M[Account(s, 0)] = m[Account(s, 0)]
        /\ M[ParityOf(p)] = m[ParityOf(p)]
    BY <2>1, <2>3 DEF AtEnd
  <2>5. ParityOf(p) \in Words /\ NextOf(p) \in Words
    BY <1>2, Addresses
  <2>6. /\ DOMAIN K = {NextOf(p), ParityOf(p)} /\ K[NextOf(p)] = nullptr
        /\ K[ParityOf(p)] = m[ParityOf(p)] + m[ParityOf(s)] + m[Account(s, 0)] - init_balance
    BY <1>6 DEF Shortened
  <2>7. /\ w[NextOf(p)] = nullptr
        /\ w[ParityOf(p)] = M[ParityOf(p)] + M[ParityOf(s)] + M[Account(s, 0)] - init_balance
        /\ \A a \in Words \ {NextOf(p), ParityOf(p)} : w[a] = M[a]
    BY <1>1, <2>4, <2>5, <2>6
  <2> QED
    BY <2>1, <2>4, <2>7, UnlinkEffect
<1>7. ASSUME NEW p \in S, NEW s \in mi, Extended(p, s, K, R, m, S, mi, wi)
      PROVE  GoodBank(w, (T \cup mi) \ wi)
  <2>1. /\ AtEnd(R, m, S, p) /\ m[CountOf(p)] = nbaccounts /\ K[NextOf(p)] = s
        /\ DOMAIN K = {NextOf(p), CountOf(s), Account(s, 0)}
        /\ K[CountOf(s)] = 1 /\ K[Account(s, 0)] = init_balance
        /\ (T \cup mi) \ wi = T \cup {s} /\ s \in Segment
    BY <1>7 DEF Extended, Adding
  <2>2. p \in T /\ M[CountOf(p)] = nbaccounts /\ M[NextOf(p)] = nullptr
    BY <2>1 DEF AtEnd
  <2>3. \A r \in T : r < s
    <3>1. \A r \in T : r <= p /\ r \in Nat
      BY <1>2, <2>2, Addresses DEF IsLast
    <3>2. p < s /\ s \in Nat
      BY <2>1, Addresses
    <3> QED
      BY <2>2, <3>1, <3>2
  <2>4. NextOf(p) \in Words /\ CountOf(s) \in Words /\ Account(s, 0) \in Words
    <3>1. 0 \in 0..(nbaccounts - 1)
      BY <1>2
    <3> QED
      BY <1>2, <2>1, <3>1, Addresses
  <2>5. /\ w[NextOf(p)] = s /\ w[CountOf(s)] = 1 /\ w[Account(s, 0)] = init_balance
        /\ \A a \in Words \ {NextOf(p), CountOf(s), Account(s, 0)} : w[a] = M[a]
    BY <1>1, <2>1, <2>4
  <2> QED
    BY <2>1, <2>2, <2>3, <2>5, AddEffect
<1>8. ASSUME NEW a \in Words, NEW b \in Words, Transferred(a, b, K, R, m, S, mi, wi)
      PROVE  GoodBank(w, (T \cup mi) \ wi)
  <2>1. /\ Found(a, R, m, S) /\ Found(b, R, m, S) /\ M[a] = m[a] /\ M[b] = m[b]
        /\ m[a] > 0 /\ DOMAIN K = {a, b} /\ (T \cup mi) \ wi = T
        /\ K[b] = IF a = b THEN m[a] ELSE m[b] + 1
        /\ a # b => K[a] = m[a] - 1
    BY <1>8 DEF Transferred
  <2>2. CASE a = b
    <3>1. \A x \in Words : w[x] = M[x]
      BY <1>1, <2>1, <2>2
    <3>2. w = M
      BY <3>1 DEF Memories
    <3> QED
      BY <2>1, <3>2
  <2>3. CASE a # b
    <3>r. PICK r \in S : /\ Walked(R, S, r) /\ CountOf(r) \in R
                         /\ \E i \in 0..(m[CountOf(r)] - 1) : a = Account(r, i)
      BY <2>1 DEF Found
    <3>1. PICK i \in 0..(m[CountOf(r)] - 1) : a = Account(r, i)
      BY <3>r
    <3>s. PICK s \in S : /\ Walked(R, S, s) /\ CountOf(s) \in R
                         /\ \E j \in 0..(m[CountOf(s)] - 1) : b = Account(s, j)
      BY <2>1 DEF Found
    <3>2. PICK j \in 0..(m[CountOf(s)] - 1) : b = Account(s, j)
      BY <3>s
    <3>3. /\ r \in T /\ i \in 0..(M[CountOf(r)] - 1)
          /\ s \in T /\ j \in 0..(M[CountOf(s)] - 1)
      BY <1>1, <1>2, <3>r, <3>1, <3>s, <3>2
    <3>4. /\ w[a] = M[a] - 1 /\ w[b] = M[b] + 1 /\ M[a] > 0
          /\ \A x \in Words \ {a, b} : w[x] = M[x]
      BY <1>1, <2>1, <2>3
    <3>5. Account(r, i) = a /\ Account(s, j) = b /\ (T \cup mi) \ wi = T
      BY <2>1, <3>1, <3>2
    <3>6. GoodBank(w, T)
      BY <2>3, <3>3, <3>4, <3>5, TransferEffect
    <3> QED
      BY <3>5, <3>6
  <2> QED
    BY <2>2, <2>3
<1> QED
  BY <1>3, <1>4, <1>5, <1>6, <1>7, <1>8 DEF Returned

-----------------------------------------------------------------------------
(***************************************************************************)
(* What a closure knows after its next call.  Nothing here is about steps: *)
(* f is a frame, K a log, R the reads, g the target, in a good bank m, S.  *)
(***************************************************************************)

Closure(f, K, R, g, m, S, mi, wi, ro) ==
  /\ m \in Memories /\ GoodBank(m, S)
  /\ f \in Frames /\ g \in Int /\ ro \in BOOLEAN
  /\ \A s \in mi : s \in Segment /\ \A r \in S : r < s
  /\ Knows(f, K, R, g, m, S, mi, wi, ro)

\* The closure may read, or write, word w with the frame f.
ReadOK(f, w, K, R, m, S, mi, wi, ro) ==
  /\ f \in Frames
  /\ w \in WordsOf(S \cup mi)
  /\ Knows(f, K, ReadsWith(K, R, w, ro), View(K, m, w), m, S, mi, wi, ro)

WriteOK(f, w, K, R, g, m, S, mi, wi, ro) ==
  /\ f \in Frames
  /\ w \in WordsOf(S \cup mi)
  /\ ~ro
  /\ Knows(f, LogWith(K, w, f.arg), R, g, m, S, mi, wi, ro)

AllocPlaces ==
  {"allocCount", "allocNext", "parity", "destroyed", "lowered", "unlink", "unlinked",
   "previousParity", "filled", "linked", "counted"}

LEMMA LongKnows ==
  ASSUME NEW f, NEW K, NEW R, NEW g, NEW m, NEW S, NEW mi, NEW wi, NEW ro,
         Extent(K, R, m, S, mi, wi), Untouched(K, mi, wi), ro,
         f.at \in LongPlaces, LongAt(f, g, m, S)
  PROVE  Knows(f, K, R, g, m, S, mi, wi, ro)
BY DEF Knows, LongPlaces, ShortPlaces, AllocAt, ShortAt

LEMMA AllocKnows ==
  ASSUME NEW f, NEW K, NEW R, NEW g, NEW m, NEW S, NEW mi, NEW wi, NEW ro,
         Extent(K, R, m, S, mi, wi), ~ro,
         f.at \in AllocPlaces, AllocAt(f, K, R, g, m, S, mi, wi)
  PROVE  Knows(f, K, R, g, m, S, mi, wi, ro)
BY DEF Knows, LongPlaces, ShortPlaces, AllocPlaces, ShortAt

LEMMA ShortKnows ==
  ASSUME NEW f, NEW K, NEW R, NEW g, NEW m, NEW S, NEW mi, NEW wi, NEW ro,
         Extent(K, R, m, S, mi, wi), mi = {}, wi = {}, ~ro,
         f.at \in ShortPlaces, ShortAt(f, K, R, g, m, S)
  PROVE  Knows(f, K, R, g, m, S, mi, wi, ro)
BY DEF Knows, LongPlaces, ShortPlaces, AllocAt

ReturnFrame == [NewFrame EXCEPT !.at = "returned"]

LEMMA FirstFrames ==
  /\ NewFrame \in Frames /\ ReturnFrame \in Frames
  /\ ReturnFrame.at = "returned"
  /\ 1 \in Segment /\ 1 \in Nat
<1>1. 1 \in Segment
  BY BankAssumption DEF Segment
<1> QED
  BY <1>1 DEF NewFrame, ReturnFrame, Frames, Places, nullptr

LEMMA ReturnKnows ==
  ASSUME NEW K, NEW R, NEW g, NEW m, NEW S, NEW mi, NEW wi, NEW ro, NEW f,
         f.at = "returned",
         Extent(K, R, m, S, mi, wi), Returned(K, R, m, S, mi, wi)
  PROVE  Knows(f, K, R, g, m, S, mi, wi, ro)
BY DEF Knows, LongPlaces, ShortPlaces, AllocAt, ShortAt

\* The words of a segment, and those of the bank.
LEMMA WordsOfSegment ==
  ASSUME NEW T, NEW s \in T, s \in Segment
  PROVE  /\ CountOf(s) \in WordsOf(T) /\ NextOf(s) \in WordsOf(T) /\ ParityOf(s) \in WordsOf(T)
         /\ \A i \in 0..(nbaccounts - 1) : Account(s, i) \in WordsOf(T)
BY Addresses DEF WordsOf

LEMMA ProperWords ==
  ASSUME NEW m \in Memories, NEW S, GoodList(m, S)
  PROVE  /\ Proper(m, S) \subseteq WordsOf(S)
         /\ \A s \in S : /\ CountOf(s) \in Proper(m, S) /\ NextOf(s) \in Proper(m, S)
                         /\ ParityOf(s) \in Proper(m, S)
                         /\ \A i \in 0..(m[CountOf(s)] - 1) : Account(s, i) \in Proper(m, S)
<1>1. /\ \A s \in S : s \in Segment /\ m[CountOf(s)] \in 1..nbaccounts
      /\ nbaccounts \in Nat
  BY GoodCounts
<1>2. \A s \in S : \A i \in 0..(m[CountOf(s)] - 1) : i \in 0..(nbaccounts - 1)
  BY <1>1
<1>3. ASSUME NEW w \in Proper(m, S)
      PROVE  w \in WordsOf(S)
  <2>1. PICK s \in S : \/ w \in {CountOf(s), NextOf(s), ParityOf(s)}
                       \/ \E i \in 0..(m[CountOf(s)] - 1) : w = Account(s, i)
    BY DEF Proper
  <2> QED
    BY <1>1, <1>2, <2>1, WordsOfSegment
<1>4. ASSUME NEW s \in S
      PROVE  /\ CountOf(s) \in Words /\ NextOf(s) \in Words /\ ParityOf(s) \in Words
             /\ \A i \in 0..(m[CountOf(s)] - 1) : Account(s, i) \in Words
  BY <1>1, <1>2, Addresses
<1> QED
  BY <1>3, <1>4 DEF Proper

\* What does not belong to the bank: the account after the last one.
LEMMA NextAccount ==
  ASSUME NEW m \in Memories, NEW S, GoodList(m, S), NEW s \in S, m[CountOf(s)] < nbaccounts
  PROVE  /\ Account(s, m[CountOf(s)]) \in WordsOf(S)
         /\ Account(s, m[CountOf(s)]) \notin Proper(m, S)
<1> DEFINE n == m[CountOf(s)]
<1>1. /\ \A r \in S : r \in Segment /\ m[CountOf(r)] \in 1..nbaccounts
      /\ nbaccounts \in Nat
  BY GoodCounts
<1>2. n \in 0..(nbaccounts - 1)
  BY <1>1
<1> HIDE DEF n
<1>3. SegmentOfWord(Account(s, n)) = s /\ OffsetOf(Account(s, n)) = 3 + n
  BY <1>1, <1>2, Addresses
<1>4. ASSUME NEW r \in S, Account(s, n) \in {CountOf(r), NextOf(r), ParityOf(r)}
      PROVE  FALSE
  <2>1. OffsetOf(Account(s, n)) \in 0..2
    BY <1>1, <1>4, Addresses
  <2> QED
    BY <1>2, <1>3, <2>1
<1>5. ASSUME NEW r \in S, NEW i \in 0..(m[CountOf(r)] - 1), Account(s, n) = Account(r, i)
      PROVE  FALSE
  <2>1. i \in 0..(nbaccounts - 1)
    BY <1>1
  <2>2. SegmentOfWord(Account(r, i)) = r /\ OffsetOf(Account(r, i)) = 3 + i
    BY <1>1, <2>1, Addresses
  <2>3. r = s /\ i = n
    BY <1>2, <1>3, <1>5, <2>1, <2>2
  <2> QED
    BY <1>1, <2>1, <2>3 DEF n
<1>6. Account(s, n) \notin Proper(m, S)
  BY <1>4, <1>5 DEF Proper
<1>7. Account(s, n) \in WordsOf(S)
  BY <1>1, <1>2, WordsOfSegment
<1> QED
  BY <1>6, <1>7 DEF n

\* Nor does anything of a segment that is not in the list.
LEMMA OtherSegment ==
  ASSUME NEW m \in Memories, NEW S, GoodList(m, S), NEW w, SegmentOfWord(w) \notin S
  PROVE  w \notin Proper(m, S)
BY ProperWords DEF WordsOf

LEMMA ReadExtent ==
  ASSUME NEW K, NEW R, NEW m, NEW S, NEW mi, NEW wi, NEW w, NEW ro,
         Extent(K, R, m, S, mi, wi), w \in Proper(m, S)
  PROVE  Extent(K, ReadsWith(K, R, w, ro), m, S, mi, wi)
BY DEF Extent, ReadsWith

LEMMA WriteExtent ==
  ASSUME NEW K, NEW R, NEW m, NEW S, NEW mi, NEW wi, NEW w, NEW v,
         Extent(K, R, m, S, mi, wi), w \in WordsOf(S \cup mi),
         w \in Proper(m, S) => w \in R
  PROVE  Extent(LogWith(K, w, v), R, m, S, mi, wi)
BY DEF Extent, LogWith

-----------------------------------------------------------------------------
\* long_tx

LEMMA LongRead ==
  ASSUME NEW f, NEW K, NEW R, NEW m, NEW S, NEW mi, NEW wi, NEW ro, NEW w,
         m \in Memories, GoodList(m, S), f \in Frames, ro,
         Extent(K, R, m, S, mi, wi), Untouched(K, mi, wi),
         f.at \in LongPlaces, w \in Proper(m, S), LongAt(f, m[w], m, S)
  PROVE  ReadOK(f, w, K, R, m, S, mi, wi, ro)
<1>1. ReadsWith(K, R, w, ro) = R /\ View(K, m, w) = m[w]
  BY DEF ReadsWith, View, Untouched
<1>2. w \in WordsOf(S \cup mi)
  BY ProperWords DEF Untouched
<1> QED
  BY <1>1, <1>2, LongKnows DEF ReadOK

\* The segments up to s, and those before it.
LEMMA ListPrefix ==
  ASSUME NEW m \in Memories, NEW S, GoodList(m, S), NEW s \in S
  PROVE  /\ s \notin Before(S, s) /\ UpTo(S, s) = Before(S, s) \cup {s}
         /\ UpTo(S, s) \subseteq S /\ CountsFit(m, UpTo(S, s)) /\ CountsFit(m, Before(S, s))
         /\ MoneyOf(m, UpTo(S, s)) = MoneyOf(m, Before(S, s)) + SegmentMoney(m, s)
         /\ AccountsOf(m, UpTo(S, s)) = AccountsOf(m, Before(S, s)) + m[CountOf(s)]
         /\ MoneyOf(m, Before(S, s)) \in Int /\ AccountsOf(m, Before(S, s)) \in Int
<1>1. CountsFit(m, S) /\ \A r \in S : r \in Segment
  BY GoodCounts
<1>2. \A r \in S : r \in Nat
  BY <1>1, Addresses
<1>3. /\ s \notin Before(S, s) /\ UpTo(S, s) = Before(S, s) \cup {s}
      /\ UpTo(S, s) \subseteq S /\ Before(S, s) \subseteq S
  BY <1>2 DEF Before, UpTo
<1>4. CountsFit(m, UpTo(S, s)) /\ CountsFit(m, Before(S, s))
  BY <1>1, <1>3 DEF CountsFit
<1>5. CountsFit(m, Before(S, s) \cup {s})
  BY <1>3, <1>4
<1>6. /\ MoneyOf(m, Before(S, s) \cup {s}) = MoneyOf(m, Before(S, s)) + SegmentMoney(m, s)
      /\ AccountsOf(m, Before(S, s) \cup {s}) = AccountsOf(m, Before(S, s)) + m[CountOf(s)]
  BY <1>3, <1>5, MoneyMore
<1>7. MoneyOf(m, Before(S, s)) \in Int /\ AccountsOf(m, Before(S, s)) \in Int
  BY <1>4, MoneySummand
<1> QED
  BY <1>3, <1>4, <1>6, <1>7

LEMMA NextPrefix ==
  ASSUME NEW m \in Memories, NEW S, GoodList(m, S), NEW s \in S
  PROVE  /\ m[NextOf(s)] = nullptr => UpTo(S, s) = S
         /\ m[NextOf(s)] # nullptr =>
              /\ m[NextOf(s)] \in S /\ s < m[NextOf(s)]
              /\ Before(S, m[NextOf(s)]) = UpTo(S, s)
<1>1. /\ \A r \in S : r \in Segment
      /\ \A r \in S : m[NextOf(r)] = nullptr => IsLast(m, S, r)
  BY GoodCounts
<1>2. \A r \in S : r \in Nat
  BY <1>1, Addresses
<1>3. CASE m[NextOf(s)] = nullptr
  BY <1>1, <1>2, <1>3 DEF IsLast, UpTo
<1>4. CASE m[NextOf(s)] # nullptr
  <2>1. IsInner(m, S, s)
    BY <1>4 DEF GoodList, IsLast
  <2> DEFINE r == m[NextOf(s)]
  <2>2. r \in S /\ s < r /\ \A x \in S : x <= s \/ x >= r
    BY <1>2, <2>1 DEF IsInner
  <2> HIDE DEF r
  <2>3. \A x \in S : x < r <=> x <= s
    BY <1>2, <2>2
  <2>4. Before(S, r) = UpTo(S, s)
    BY <2>3 DEF Before, UpTo
  <2> QED
    BY <1>4, <2>2, <2>4 DEF r
<1> QED
  BY <1>3, <1>4

LEMMA FirstPrefix ==
  ASSUME NEW m \in Memories, NEW S, GoodList(m, S)
  PROVE  1 \in S /\ Before(S, 1) = {}
<1>1. \A r \in S : r \in Segment
  BY GoodCounts
<1>2. \A r \in S : r \in Nat /\ r >= 1
  BY <1>1, Addresses
<1> QED
  BY <1>2 DEF Before, GoodList

LEMMA LongBeginsKnows ==
  ASSUME NEW f, NEW K, NEW R, NEW g, NEW m, NEW S, NEW mi, NEW wi, NEW ro,
         Closure(f, K, R, g, m, S, mi, wi, ro), f.at = "begin", ro
  PROVE  ReadOK([f EXCEPT !.at = "longCount"], CountOf(1), K, R, m, S, mi, wi, ro)
<1> DEFINE h == [f EXCEPT !.at = "longCount"]
<1>1. GoodList(m, S) /\ m \in Memories
  BY DEF Closure, GoodBank
<1>2. f = NewFrame /\ Untouched(K, mi, wi) /\ Extent(K, R, m, S, mi, wi)
  BY DEF Closure, Knows
<1>3. /\ h \in Frames /\ h.at = "longCount" /\ h.seg = 1 /\ h.count = 0 /\ h.sum = 0
  BY <1>2, FirstFrames DEF NewFrame, Frames, Places
<1> HIDE DEF h
<1>4. 1 \in S /\ MoneyOf(m, Before(S, 1)) = 0 /\ AccountsOf(m, Before(S, 1)) = 0
  BY <1>1, FirstPrefix, MoneyNone
<1>5. LongAt(h, m[CountOf(1)], m, S)
  BY <1>3, <1>4 DEF LongAt
<1>6. CountOf(1) \in Proper(m, S)
  BY <1>1, <1>4, ProperWords
<1>7. ReadOK(h, CountOf(1), K, R, m, S, mi, wi, ro)
  BY <1>1, <1>2, <1>3, <1>5, <1>6, LongRead DEF LongPlaces
<1> QED
  BY <1>7 DEF h

\* What holds at all places of long_tx.
LEMMA LongFacts ==
  ASSUME NEW f, NEW K, NEW R, NEW g, NEW m, NEW S, NEW mi, NEW wi, NEW ro,
         Closure(f, K, R, g, m, S, mi, wi, ro), f.at \in LongPlaces
  PROVE  /\ GoodBank(m, S) /\ GoodList(m, S) /\ m \in Memories
         /\ Untouched(K, mi, wi) /\ Extent(K, R, m, S, mi, wi) /\ ro
         /\ LongAt(f, g, m, S)
         /\ f.seg \in S /\ f.seg \in Segment
         /\ f \in Frames /\ f.i \in Int /\ f.n \in Int /\ f.sum \in Int /\ f.count \in Int /\ g \in Int
         /\ m[CountOf(f.seg)] \in 1..nbaccounts /\ nbaccounts \in Nat
         /\ m[ParityOf(f.seg)] \in Int
<1>1. GoodBank(m, S) /\ GoodList(m, S) /\ m \in Memories
  BY DEF Closure, GoodBank
<1>2. /\ Untouched(K, mi, wi) /\ Extent(K, R, m, S, mi, wi) /\ ro
      /\ LongAt(f, g, m, S)
  BY DEF Closure, Knows
<1>3. f \in Frames /\ f.i \in Int /\ f.n \in Int /\ f.sum \in Int /\ f.count \in Int /\ g \in Int
  BY DEF Closure, Frames
<1>4. f.seg \in S
  BY <1>2 DEF LongAt
<1>5. f.seg \in Segment /\ m[CountOf(f.seg)] \in 1..nbaccounts /\ nbaccounts \in Nat
  BY <1>1, <1>4, GoodCounts
<1>6. m[ParityOf(f.seg)] \in Int
  BY <1>1, <1>5, Addresses DEF Memories
<1> QED
  BY <1>1, <1>2, <1>3, <1>4, <1>5, <1>6

LEMMA LongCountKnows ==
  ASSUME NEW f, NEW K, NEW R, NEW g, NEW m, NEW S, NEW mi, NEW wi, NEW ro,
         Closure(f, K, R, g, m, S, mi, wi, ro), f.at = "longCount"
  PROVE  ReadOK([f EXCEPT !.at = "longSum", !.n = g, !.count = @ + g, !.i = 0],
                ParityOf(f.seg), K, R, m, S, mi, wi, ro)
<1> DEFINE h == [f EXCEPT !.at = "longSum", !.n = g, !.count = @ + g, !.i = 0]
<1>1. f.at \in LongPlaces
  BY DEF LongPlaces
<1>2. /\ GoodList(m, S) /\ m \in Memories
      /\ Untouched(K, mi, wi) /\ Extent(K, R, m, S, mi, wi) /\ ro
      /\ LongAt(f, g, m, S)
      /\ f.seg \in S /\ f.seg \in Segment
      /\ f \in Frames /\ f.count \in Int /\ g \in Int
  BY <1>1, LongFacts
<1>3. /\ h \in Frames /\ h.at = "longSum" /\ h.seg = f.seg /\ h.n = g
      /\ h.count = f.count + g /\ h.sum = f.sum /\ h.i = 0
  <2>1. f.count + g \in Int /\ 0 \in Int
    BY <1>2
  <2>2. "longSum" \in Places \ {"violated"}
    BY DEF Places
  <2> QED
    BY <1>2, <2>1, <2>2 DEF Frames
<1> HIDE DEF h
<1>4. /\ g = m[CountOf(f.seg)] /\ f.count = AccountsOf(m, Before(S, f.seg))
      /\ f.sum = MoneyOf(m, Before(S, f.seg))
  BY <1>2 DEF LongAt
<1>5. AccountsOf(m, UpTo(S, f.seg)) = AccountsOf(m, Before(S, f.seg)) + m[CountOf(f.seg)]
  BY <1>2, ListPrefix
<1>6. LongAt(h, m[ParityOf(f.seg)], m, S)
  BY <1>2, <1>3, <1>4, <1>5 DEF LongAt
<1>7. ParityOf(f.seg) \in Proper(m, S)
  BY <1>2, ProperWords
<1>8. ReadOK(h, ParityOf(f.seg), K, R, m, S, mi, wi, ro)
  BY <1>2, <1>3, <1>6, <1>7, LongRead DEF LongPlaces
<1> QED
  BY <1>8 DEF h

LEMMA LongSumKnows ==
  ASSUME NEW f0, NEW K, NEW R, NEW g, NEW m, NEW S, NEW mi, NEW wi, NEW ro,
         Closure(f0, K, R, g, m, S, mi, wi, ro), f0.at = "longSum"
  PROVE  LET f == [f0 EXCEPT !.sum = @ + g]
         IN  /\ f.i < f.n
             /\ ReadOK([f EXCEPT !.at = "longAccount", !.i = @ + 1], Account(f.seg, f.i),
                       K, R, m, S, mi, wi, ro)
<1> DEFINE f == [f0 EXCEPT !.sum = @ + g]
           h == [f EXCEPT !.at = "longAccount", !.i = @ + 1]
           s == f0.seg
<1>1. f0.at \in LongPlaces
  BY DEF LongPlaces
<1>2. /\ GoodList(m, S) /\ m \in Memories
      /\ Untouched(K, mi, wi) /\ Extent(K, R, m, S, mi, wi) /\ ro
      /\ LongAt(f0, g, m, S)
      /\ s \in S /\ s \in Segment
      /\ f0 \in Frames /\ f0.i \in Int /\ f0.n \in Int /\ f0.sum \in Int /\ g \in Int
      /\ m[CountOf(s)] \in 1..nbaccounts /\ nbaccounts \in Nat
  BY <1>1, LongFacts
<1>3. /\ g = m[ParityOf(s)] /\ f0.n = m[CountOf(s)] /\ f0.i = 0
      /\ f0.sum = MoneyOf(m, Before(S, s)) /\ f0.count = AccountsOf(m, UpTo(S, s))
  BY <1>2 DEF LongAt
<1>4. /\ h \in Frames /\ h.at = "longAccount" /\ h.seg = s /\ h.n = f0.n
      /\ h.count = f0.count /\ h.sum = f0.sum + g /\ h.i = 1
      /\ f.i = 0 /\ f.n = f0.n /\ f.seg = s
  <2>1. f0.sum + g \in Int /\ f0.i + 1 \in Int
    BY <1>2
  <2>2. "longAccount" \in Places \ {"violated"}
    BY DEF Places
  <2>3. f \in Frames /\ f.i = 0 /\ f.n = f0.n /\ f.seg = s /\ f.count = f0.count /\ f.sum = f0.sum + g
    BY <1>2, <1>3, <2>1 DEF Frames
  <2> HIDE DEF f
  <2>4. f.i + 1 = 1 /\ 1 \in Int
    BY <2>3
  <2>5. h = [f EXCEPT !.at = "longAccount", !.i = 1]
    BY <2>4
  <2>6. /\ h \in Frames /\ h.at = "longAccount" /\ h.seg = f.seg /\ h.n = f.n
        /\ h.count = f.count /\ h.sum = f.sum /\ h.i = 1
    BY <2>2, <2>3, <2>4, <2>5 DEF Frames
  <2> QED
    BY <2>3, <2>6
<1> HIDE DEF h, f, s
<1>5. SumFunction(Part(m, s, 0)) = 0
  BY PartEmpty
<1>6. LongAt(h, m[Account(s, 0)], m, S)
  <2>1. h.i - 1 = 0 /\ h.i \in 1..h.n
    BY <1>2, <1>3, <1>4
  <2>2. h.sum = MoneyOf(m, Before(S, s)) + m[ParityOf(s)] + SumFunction(Part(m, s, 0))
    BY <1>2, <1>3, <1>4, <1>5, ListPrefix
  <2> QED
    BY <1>2, <1>3, <1>4, <2>1, <2>2 DEF LongAt
<1>7. Account(s, 0) \in Proper(m, S)
  <2>1. 0 \in 0..(m[CountOf(s)] - 1)
    BY <1>2
  <2> QED
    BY <1>2, <2>1, ProperWords
<1>8. ReadOK(h, Account(s, 0), K, R, m, S, mi, wi, ro)
  BY <1>2, <1>4, <1>6, <1>7, LongRead DEF LongPlaces
<1>9. f.i < f.n
  BY <1>2, <1>3, <1>4
<1> QED
  BY <1>4, <1>8, <1>9 DEF h, f

LEMMA LongAccountKnows ==
  ASSUME NEW f0, NEW K, NEW R, NEW g, NEW m, NEW S, NEW mi, NEW wi, NEW ro,
         Closure(f0, K, R, g, m, S, mi, wi, ro), f0.at = "longAccount"
  PROVE  LET f == [f0 EXCEPT !.sum = @ + g]
         IN  /\ g >= 0
             /\ f.i < f.n =>
                  ReadOK([f EXCEPT !.i = @ + 1], Account(f.seg, f.i), K, R, m, S, mi, wi, ro)
             /\ f.i >= f.n =>
                  ReadOK([f EXCEPT !.at = "longNext"], NextOf(f.seg), K, R, m, S, mi, wi, ro)
<1> DEFINE f == [f0 EXCEPT !.sum = @ + g]
           h == [f EXCEPT !.i = @ + 1]
           k == [f EXCEPT !.at = "longNext"]
           s == f0.seg
           i == f0.i
<1>1. f0.at \in LongPlaces
  BY DEF LongPlaces
<1>2. /\ GoodBank(m, S) /\ GoodList(m, S) /\ m \in Memories
      /\ Untouched(K, mi, wi) /\ Extent(K, R, m, S, mi, wi) /\ ro
      /\ LongAt(f0, g, m, S)
      /\ s \in S /\ s \in Segment
      /\ f0 \in Frames /\ f0.i \in Int /\ f0.n \in Int /\ f0.sum \in Int /\ g \in Int
      /\ m[CountOf(s)] \in 1..nbaccounts /\ nbaccounts \in Nat
      /\ m[ParityOf(s)] \in Int
  BY <1>1, LongFacts
<1>3. /\ f0.n = m[CountOf(s)] /\ i \in 1..f0.n /\ g = m[Account(s, i - 1)]
      /\ f0.sum = MoneyOf(m, Before(S, s)) + m[ParityOf(s)] + SumFunction(Part(m, s, i - 1))
      /\ f0.count = AccountsOf(m, UpTo(S, s))
  BY <1>2 DEF LongAt
<1>4. /\ h \in Frames /\ h.at = "longAccount" /\ h.seg = s /\ h.n = f0.n
      /\ h.count = f0.count /\ h.sum = f0.sum + g /\ h.i = i + 1
      /\ k \in Frames /\ k.at = "longNext" /\ k.seg = s /\ k.count = f0.count
      /\ k.sum = f0.sum + g
      /\ f.i = i /\ f.n = f0.n /\ f.seg = s
  <2>1. f0.sum + g \in Int /\ f0.i + 1 \in Int
    BY <1>2
  <2>2. "longNext" \in Places \ {"violated"}
    BY DEF Places
  <2> QED
    BY <1>2, <2>1, <2>2 DEF Frames
<1> HIDE DEF h, k, f, s, i
<1>5. /\ i - 1 \in 0..(nbaccounts - 1) /\ i - 1 \in 0..(m[CountOf(s)] - 1) /\ i \in 0..nbaccounts
      /\ i - 1 + 1 = i /\ i - 1 \in 0..nbaccounts /\ i + 1 - 1 = i
  BY <1>2, <1>3
<1>6. /\ SumFunction(Part(m, s, i)) = SumFunction(Part(m, s, i - 1)) + m[Account(s, i - 1)]
      /\ SumFunction(Part(m, s, i - 1)) \in Int /\ SumFunction(Part(m, s, i)) \in Int
      /\ MoneyOf(m, Before(S, s)) \in Int
  <2>1. SumFunction(Part(m, s, i - 1 + 1)) = SumFunction(Part(m, s, i - 1)) + m[Account(s, i - 1)]
    BY <1>2, <1>5, PartMore
  <2>2. SumFunction(Part(m, s, i - 1)) \in Int /\ SumFunction(Part(m, s, i)) \in Int
    BY <1>2, <1>5, PartSummand
  <2> QED
    BY <1>2, <1>5, <2>1, <2>2, ListPrefix
<1>7. h.sum = MoneyOf(m, Before(S, s)) + m[ParityOf(s)] + SumFunction(Part(m, s, i))
  BY <1>2, <1>3, <1>4, <1>6
<1>8. g >= 0
  BY <1>2, <1>3, <1>5 DEF GoodBank, NoDebts
<1>9. ASSUME f.i < f.n
      PROVE  ReadOK(h, Account(s, i), K, R, m, S, mi, wi, ro)
  <2>1. i \in 0..(m[CountOf(s)] - 1) /\ i + 1 \in 1..f0.n
    BY <1>2, <1>3, <1>4, <1>9
  <2>2. LongAt(h, m[Account(s, i)], m, S)
    BY <1>2, <1>3, <1>4, <1>5, <1>7, <2>1 DEF LongAt
  <2>3. Account(s, i) \in Proper(m, S)
    BY <1>2, <2>1, ProperWords
  <2> QED
    BY <1>2, <1>4, <2>2, <2>3, LongRead DEF LongPlaces
<1>10. ASSUME f.i >= f.n
       PROVE  ReadOK(k, NextOf(s), K, R, m, S, mi, wi, ro)
  <2>1. i = m[CountOf(s)]
    BY <1>2, <1>3, <1>4, <1>10
  <2>2. k.sum = MoneyOf(m, UpTo(S, s))
    BY <1>2, <1>4, <1>6, <1>7, <2>1, ListPrefix DEF SegmentMoney
  <2>3. LongAt(k, m[NextOf(s)], m, S)
    BY <1>2, <1>3, <1>4, <2>2 DEF LongAt
  <2>4. NextOf(s) \in Proper(m, S)
    BY <1>2, ProperWords
  <2> QED
    BY <1>2, <1>4, <2>3, <2>4, LongRead DEF LongPlaces
<1> QED
  BY <1>4, <1>8, <1>9, <1>10 DEF h, k, f

LEMMA LongNextKnows ==
  ASSUME NEW f, NEW K, NEW R, NEW g, NEW m, NEW S, NEW mi, NEW wi, NEW ro,
         Closure(f, K, R, g, m, S, mi, wi, ro), f.at = "longNext"
  PROVE  /\ g # nullptr =>
              ReadOK([f EXCEPT !.at = "longCount", !.seg = g], CountOf(g),
                     K, R, m, S, mi, wi, ro)
         /\ g = nullptr =>
              /\ f.sum = init_balance * f.count
              /\ Knows(ReturnFrame, K, R, g, m, S, mi, wi, ro)
<1> DEFINE h == [f EXCEPT !.at = "longCount", !.seg = g]
           s == f.seg
<1>1. f.at \in LongPlaces
  BY DEF LongPlaces
<1>2. /\ GoodBank(m, S) /\ GoodList(m, S) /\ m \in Memories
      /\ Untouched(K, mi, wi) /\ Extent(K, R, m, S, mi, wi) /\ ro
      /\ LongAt(f, g, m, S)
      /\ s \in S /\ s \in Segment /\ f \in Frames
  BY <1>1, LongFacts
<1>3. /\ g = m[NextOf(s)] /\ f.sum = MoneyOf(m, UpTo(S, s))
      /\ f.count = AccountsOf(m, UpTo(S, s))
  BY <1>2 DEF LongAt
<1>4. ASSUME g # nullptr
      PROVE  ReadOK(h, CountOf(g), K, R, m, S, mi, wi, ro)
  <2>1. g \in S /\ Before(S, g) = UpTo(S, s)
    BY <1>2, <1>3, <1>4, NextPrefix
  <2>2. g \in Segment
    BY <1>2, <2>1, GoodCounts
  <2>3. h \in Frames /\ h.at = "longCount" /\ h.seg = g /\ h.count = f.count /\ h.sum = f.sum
    BY <1>2, <2>2 DEF Frames, Places
  <2> HIDE DEF h
  <2>4. LongAt(h, m[CountOf(g)], m, S)
    BY <1>3, <2>1, <2>3 DEF LongAt
  <2>5. CountOf(g) \in Proper(m, S)
    BY <1>2, <2>1, ProperWords
  <2> QED
    BY <1>2, <2>3, <2>4, <2>5, LongRead DEF LongPlaces
<1>5. ASSUME g = nullptr
      PROVE  f.sum = init_balance * f.count
  BY <1>2, <1>3, <1>5, NextPrefix DEF GoodBank
<1>6. Knows(ReturnFrame, K, R, g, m, S, mi, wi, ro)
  BY <1>2, ReturnKnows, FirstFrames DEF Returned
<1> QED
  BY <1>4, <1>5, <1>6

-----------------------------------------------------------------------------
\* alloc_tx

LEMMA WalkedMore ==
  ASSUME NEW R, NEW Q, NEW S, NEW s, R \subseteq Q, Walked(R, S, s)
  PROVE  Walked(Q, S, s)
BY DEF Walked

LEMMA AtEndMore ==
  ASSUME NEW R, NEW Q, NEW S, NEW m, NEW s, R \subseteq Q, AtEnd(R, m, S, s)
  PROVE  AtEnd(Q, m, S, s)
BY WalkedMore DEF AtEnd

\* The list was followed one segment further.
LEMMA WalkedNext ==
  ASSUME NEW m \in Memories, NEW S, GoodList(m, S), NEW s \in S, NEW R, Walked(R, S, s),
         CountOf(s) \in R, NextOf(s) \in R, m[NextOf(s)] # nullptr
  PROVE  /\ m[NextOf(s)] \in S /\ m[NextOf(s)] \in Segment
         /\ s < m[NextOf(s)] /\ m[NextOf(s)] # 1
         /\ Walked(R, S, m[NextOf(s)])
<1> DEFINE r == m[NextOf(s)]
<1>1. r \in S /\ s < r /\ Before(S, r) = UpTo(S, s)
  BY NextPrefix
<1>2. \A x \in S : x \in Segment /\ x \in Nat /\ x >= 1
  BY GoodCounts, Addresses
<1> HIDE DEF r
<1>3. \A x \in S : x < r => x <= s
  BY <1>1 DEF Before, UpTo
<1>4. \A x \in S : x <= s => x < s \/ x = s
  BY <1>2
<1>5. Walked(R, S, r)
  BY <1>1, <1>3, <1>4 DEF Walked
<1>6. r # 1
  BY <1>1, <1>2
<1> QED
  BY <1>1, <1>2, <1>5, <1>6 DEF r

LEMMA AllocRead ==
  ASSUME NEW f, NEW K, NEW R, NEW m, NEW S, NEW mi, NEW wi, NEW ro, NEW w,
         m \in Memories, GoodList(m, S), f \in Frames, ~ro,
         Extent(K, R, m, S, mi, wi), f.at \in AllocPlaces, w \in Proper(m, S), w \notin DOMAIN K,
         AllocAt(f, K, R \cup {w}, m[w], m, S, mi, wi)
  PROVE  ReadOK(f, w, K, R, m, S, mi, wi, ro)
<1>1. ReadsWith(K, R, w, ro) = R \cup {w} /\ View(K, m, w) = m[w]
  BY DEF ReadsWith, View
<1>2. w \in WordsOf(S \cup mi)
  BY ProperWords DEF WordsOf
<1>3. Extent(K, R \cup {w}, m, S, mi, wi)
  BY DEF Extent
<1> QED
  BY <1>1, <1>2, <1>3, AllocKnows DEF ReadOK

LEMMA AllocBeginsKnows ==
  ASSUME NEW f, NEW K, NEW R, NEW g, NEW m, NEW S, NEW mi, NEW wi, NEW ro,
         Closure(f, K, R, g, m, S, mi, wi, ro), f.at = "begin", ~ro
  PROVE  ReadOK([f EXCEPT !.at = "allocCount"], CountOf(1), K, R, m, S, mi, wi, ro)
<1> DEFINE h == [f EXCEPT !.at = "allocCount"]
           Q == R \cup {CountOf(1)}
<1>1. GoodList(m, S) /\ m \in Memories
  BY DEF Closure, GoodBank
<1>2. f = NewFrame /\ Untouched(K, mi, wi) /\ Extent(K, R, m, S, mi, wi)
  BY DEF Closure, Knows
<1>3. h \in Frames /\ h.at = "allocCount" /\ h.seg = 1 /\ h.count = 0 /\ h.prev = nullptr
  BY <1>2, FirstFrames DEF NewFrame, Frames, Places
<1> HIDE DEF h
<1>4. 1 \in S /\ Before(S, 1) = {}
  BY <1>1, FirstPrefix
<1>5. Walked(Q, S, 1)
  BY <1>4 DEF Walked, Before
<1>6. AllocSearch(h, Q, m[CountOf(1)], m, S)
  BY <1>3, <1>5 DEF AllocSearch, PrevKnown
<1>7. AllocAt(h, K, Q, m[CountOf(1)], m, S, mi, wi)
  BY <1>2, <1>3, <1>6 DEF AllocAt
<1>8. CountOf(1) \in Proper(m, S)
  BY <1>1, <1>4, ProperWords
<1>9. ReadOK(h, CountOf(1), K, R, m, S, mi, wi, ro)
  <2>1. CountOf(1) \notin DOMAIN K /\ h.at \in AllocPlaces
    BY <1>2, <1>3 DEF Untouched, AllocPlaces
  <2> QED
    BY <1>1, <1>2, <1>3, <1>7, <1>8, <2>1, AllocRead
<1> QED
  BY <1>9 DEF h

\* What holds at all places of alloc_tx.
LEMMA AllocFacts ==
  ASSUME NEW f, NEW K, NEW R, NEW g, NEW m, NEW S, NEW mi, NEW wi, NEW ro,
         Closure(f, K, R, g, m, S, mi, wi, ro), f.at \in AllocPlaces
  PROVE  /\ GoodBank(m, S) /\ GoodList(m, S) /\ m \in Memories
         /\ Extent(K, R, m, S, mi, wi) /\ ~ro
         /\ AllocAt(f, K, R, g, m, S, mi, wi)
         /\ f \in Frames /\ f.seg \in Segment
         /\ f.n \in Int /\ f.sum \in Int /\ f.count \in Int /\ g \in Int
         /\ nbaccounts \in Nat /\ nbaccounts >= 2 /\ init_balance \in Nat
<1>1. GoodBank(m, S) /\ GoodList(m, S) /\ m \in Memories
  BY DEF Closure, GoodBank
<1>2. Extent(K, R, m, S, mi, wi) /\ ~ro /\ AllocAt(f, K, R, g, m, S, mi, wi)
  BY DEF Closure, Knows, AllocPlaces, LongPlaces
<1>3. /\ f \in Frames /\ f.seg \in Segment
      /\ f.n \in Int /\ f.sum \in Int /\ f.count \in Int /\ g \in Int
  BY DEF Closure, Frames
<1>4. nbaccounts \in Nat /\ nbaccounts >= 2 /\ init_balance \in Nat
  BY BankAssumption
<1> QED
  BY <1>1, <1>2, <1>3, <1>4

LEMMA AllocCountKnows ==
  ASSUME NEW f, NEW K, NEW R, NEW g, NEW m, NEW S, NEW mi, NEW wi, NEW ro,
         Closure(f, K, R, g, m, S, mi, wi, ro), f.at = "allocCount"
  PROVE  ReadOK([f EXCEPT !.at = "allocNext", !.n = g, !.count = @ + g], NextOf(f.seg),
                K, R, m, S, mi, wi, ro)
<1> DEFINE h == [f EXCEPT !.at = "allocNext", !.n = g, !.count = @ + g]
           s == f.seg
           Q == R \cup {NextOf(s)}
<1>1. f.at \in AllocPlaces
  BY DEF AllocPlaces
<1>2. /\ GoodList(m, S) /\ m \in Memories
      /\ Extent(K, R, m, S, mi, wi) /\ ~ro
      /\ AllocAt(f, K, R, g, m, S, mi, wi)
      /\ f \in Frames /\ f.count \in Int /\ g \in Int
  BY <1>1, AllocFacts
<1>3. /\ h \in Frames /\ h.at = "allocNext" /\ h.seg = s /\ h.prev = f.prev
      /\ h.n = g /\ h.count = f.count + g
  <2>1. f.count + g \in Int
    BY <1>2
  <2>2. "allocNext" \in Places \ {"violated"}
    BY DEF Places
  <2> QED
    BY <1>2, <2>1, <2>2 DEF Frames
<1> HIDE DEF h
<1>4. AllocSearch(f, R, g, m, S) /\ Untouched(K, mi, wi)
  BY <1>2 DEF AllocAt
<1>5. /\ Walked(Q, S, s) /\ PrevKnown(h, m, S) /\ CountOf(s) \in Q
      /\ g = m[CountOf(s)] /\ (s = 1 => f.count = 0)
  BY <1>3, <1>4, WalkedMore DEF AllocSearch, PrevKnown
<1>6. AllocSearch(h, Q, m[NextOf(s)], m, S)
  BY <1>2, <1>3, <1>5 DEF AllocSearch
<1>7. AllocAt(h, K, Q, m[NextOf(s)], m, S, mi, wi)
  BY <1>3, <1>4, <1>6 DEF AllocAt
<1>8. NextOf(s) \in Proper(m, S)
  BY <1>2, <1>5, ProperWords DEF Walked
<1>9. ReadOK(h, NextOf(s), K, R, m, S, mi, wi, ro)
  <2>1. NextOf(s) \notin DOMAIN K /\ h.at \in AllocPlaces
    BY <1>3, <1>4 DEF Untouched, AllocPlaces
  <2> QED
    BY <1>2, <1>3, <1>7, <1>8, <2>1, AllocRead
<1> QED
  BY <1>9 DEF h

\* At the end of a segment of the list.
LEMMA AllocNextFacts ==
  ASSUME NEW f, NEW K, NEW R, NEW g, NEW m, NEW S, NEW mi, NEW wi, NEW ro,
         Closure(f, K, R, g, m, S, mi, wi, ro), f.at = "allocNext"
  PROVE  /\ GoodList(m, S) /\ m \in Memories
         /\ Extent(K, R, m, S, mi, wi) /\ ~ro /\ Untouched(K, mi, wi)
         /\ f \in Frames /\ f.seg \in S /\ f.seg \in Segment /\ f.n \in Int /\ f.count \in Int
         /\ PrevKnown(f, m, S)
         /\ f.n = m[CountOf(f.seg)] /\ f.n \in 1..nbaccounts
         /\ f.seg = 1 => f.count = f.n
         /\ Walked(R, S, f.seg) /\ CountOf(f.seg) \in R /\ NextOf(f.seg) \in R
         /\ g = m[NextOf(f.seg)]
         /\ g = nullptr => AtEnd(R, m, S, f.seg)
         /\ nbaccounts \in Nat /\ nbaccounts >= 2 /\ init_balance \in Nat
<1>1. f.at \in AllocPlaces
  BY DEF AllocPlaces
<1>2. /\ GoodList(m, S) /\ m \in Memories
      /\ Extent(K, R, m, S, mi, wi) /\ ~ro
      /\ AllocAt(f, K, R, g, m, S, mi, wi)
      /\ f \in Frames /\ f.seg \in Segment /\ f.n \in Int /\ f.count \in Int
      /\ nbaccounts \in Nat /\ nbaccounts >= 2 /\ init_balance \in Nat
  BY <1>1, AllocFacts
<1>3. AllocSearch(f, R, g, m, S) /\ Untouched(K, mi, wi)
  BY <1>2 DEF AllocAt
<1>4. /\ Walked(R, S, f.seg) /\ PrevKnown(f, m, S) /\ CountOf(f.seg) \in R
      /\ g = m[NextOf(f.seg)] /\ NextOf(f.seg) \in R
      /\ f.n = m[CountOf(f.seg)] /\ (f.seg = 1 => f.count = f.n)
  BY <1>3 DEF AllocSearch
<1>5. f.seg \in S
  BY <1>4 DEF Walked
<1>6. f.n \in 1..nbaccounts
  BY <1>2, <1>4, <1>5, GoodCounts
<1> QED
  BY <1>2, <1>3, <1>4, <1>5, <1>6 DEF AtEnd

LEMMA AllocNextKnows ==
  ASSUME NEW f, NEW K, NEW R, NEW g, NEW m, NEW S, NEW mi, NEW wi, NEW ro,
         Closure(f, K, R, g, m, S, mi, wi, ro), f.at = "allocNext", g # nullptr
  PROVE  ReadOK([f EXCEPT !.at = "allocCount", !.prev = f.seg, !.seg = g], CountOf(g),
                K, R, m, S, mi, wi, ro)
<1> DEFINE h == [f EXCEPT !.at = "allocCount", !.prev = f.seg, !.seg = g]
           s == f.seg
           Q == R \cup {CountOf(g)}
<1>2. /\ GoodList(m, S) /\ m \in Memories
      /\ Extent(K, R, m, S, mi, wi) /\ ~ro /\ Untouched(K, mi, wi)
      /\ f \in Frames /\ s \in S /\ s \in Segment
      /\ Walked(R, S, s) /\ CountOf(s) \in R /\ NextOf(s) \in R /\ g = m[NextOf(s)]
  BY AllocNextFacts
<1>3. g \in S /\ g \in Segment /\ s < g /\ g # 1 /\ Walked(R, S, g)
  BY <1>2, WalkedNext
<1>4. h \in Frames /\ h.at = "allocCount" /\ h.seg = g /\ h.prev = s
  <2>1. "allocCount" \in Places \ {"violated"}
    BY DEF Places
  <2> QED
    BY <1>2, <1>3, <2>1 DEF Frames
<1> HIDE DEF h
<1>5. Walked(Q, S, g)
  BY <1>3, WalkedMore
<1>6. AllocSearch(h, Q, m[CountOf(g)], m, S)
  BY <1>2, <1>3, <1>4, <1>5 DEF AllocSearch, PrevKnown
<1>7. AllocAt(h, K, Q, m[CountOf(g)], m, S, mi, wi)
  BY <1>2, <1>4, <1>6 DEF AllocAt
<1>8. CountOf(g) \in Proper(m, S)
  BY <1>2, <1>3, ProperWords
<1>9. ReadOK(h, CountOf(g), K, R, m, S, mi, wi, ro)
  <2>1. CountOf(g) \notin DOMAIN K /\ h.at \in AllocPlaces
    BY <1>2, <1>4 DEF Untouched, AllocPlaces
  <2> QED
    BY <1>2, <1>4, <1>7, <1>8, <2>1, AllocRead
<1> QED
  BY <1>9 DEF h

LEMMA DestroyAccountKnows ==
  ASSUME NEW f, NEW K, NEW R, NEW g, NEW m, NEW S, NEW mi, NEW wi, NEW ro,
         Closure(f, K, R, g, m, S, mi, wi, ro), f.at = "allocNext", g = nullptr, f.count > 2
  PROVE  ReadOK([f EXCEPT !.at = "parity", !.n = @ - 1], ParityOf(f.seg),
                K, R, m, S, mi, wi, ro)
<1> DEFINE h == [f EXCEPT !.at = "parity", !.n = @ - 1]
           s == f.seg
           Q == R \cup {ParityOf(s)}
<1>2. /\ GoodList(m, S) /\ m \in Memories
      /\ Extent(K, R, m, S, mi, wi) /\ ~ro /\ Untouched(K, mi, wi)
      /\ f \in Frames /\ s \in S /\ f.n \in Int /\ f.count \in Int
      /\ PrevKnown(f, m, S) /\ f.n = m[CountOf(s)] /\ (s = 1 => f.count = f.n)
      /\ AtEnd(R, m, S, s)
  BY AllocNextFacts
<1>3. /\ h \in Frames /\ h.at = "parity" /\ h.seg = s /\ h.prev = f.prev /\ h.n = f.n - 1
  <2>1. f.n - 1 \in Int
    BY <1>2
  <2>2. "parity" \in Places \ {"violated"}
    BY DEF Places
  <2> QED
    BY <1>2, <2>1, <2>2 DEF Frames
<1> HIDE DEF h
<1>4. AtEnd(Q, m, S, s)
  BY <1>2, AtEndMore
<1>5. Destroying(h, Q, m, S)
  BY <1>2, <1>3, <1>4 DEF Destroying, PrevKnown
<1>6. AllocAt(h, K, Q, m[ParityOf(s)], m, S, mi, wi)
  BY <1>2, <1>3, <1>5 DEF AllocAt
<1>7. ParityOf(s) \in Proper(m, S)
  BY <1>2, ProperWords
<1>8. ReadOK(h, ParityOf(s), K, R, m, S, mi, wi, ro)
  <2>1. ParityOf(s) \notin DOMAIN K /\ h.at \in AllocPlaces
    BY <1>2, <1>3 DEF Untouched, AllocPlaces
  <2> QED
    BY <1>2, <1>3, <1>6, <1>7, <2>1, AllocRead
<1> QED
  BY <1>8 DEF h

\* Where an account is being destroyed.
LEMMA DestroyingFacts ==
  ASSUME NEW m \in Memories, NEW S, GoodList(m, S), NEW f \in Frames, NEW R, Destroying(f, R, m, S)
  PROVE  /\ f.seg \in S /\ f.seg \in Segment
         /\ f.n \in 0..(m[CountOf(f.seg)] - 1) /\ f.n \in 0..(nbaccounts - 1)
         /\ m[CountOf(f.seg)] = f.n + 1
         /\ CountOf(f.seg) \in R /\ NextOf(f.seg) \in R
         /\ m[ParityOf(f.seg)] \in Int /\ m[Account(f.seg, f.n)] \in Int
         /\ f.seg # 1 =>
              /\ f.prev \in S /\ f.prev \in Segment /\ f.prev < f.seg
              /\ m[NextOf(f.prev)] = f.seg /\ NextOf(f.prev) \in R
<1> DEFINE s == f.seg
<1>1. s \in S /\ f.n = m[CountOf(s)] - 1 /\ PrevKnown(f, m, S) /\ AtEnd(R, m, S, s)
  BY DEF Destroying, AtEnd, Walked
<1>2. /\ s \in Segment /\ m[CountOf(s)] \in 1..nbaccounts
      /\ \A r \in S : r \in Segment
      /\ nbaccounts \in Nat
  BY <1>1, GoodCounts
<1>3. f.n \in 0..(m[CountOf(s)] - 1) /\ f.n \in 0..(nbaccounts - 1) /\ m[CountOf(s)] = f.n + 1
  BY <1>1, <1>2
<1>4. m[ParityOf(s)] \in Int /\ m[Account(s, f.n)] \in Int
  BY <1>2, <1>3, Addresses DEF Memories
<1>5. CountOf(s) \in R /\ NextOf(s) \in R
  BY <1>1 DEF AtEnd
<1>6. s # 1 =>
        /\ f.prev \in S /\ f.prev \in Segment /\ f.prev < s
        /\ m[NextOf(f.prev)] = s /\ NextOf(f.prev) \in R
  BY <1>1, <1>2 DEF PrevKnown, AtEnd, Walked
<1> QED
  BY <1>1, <1>2, <1>3, <1>4, <1>5, <1>6

LEMMA DestroyReadsAccountKnows ==
  ASSUME NEW f, NEW K, NEW R, NEW g, NEW m, NEW S, NEW mi, NEW wi, NEW ro,
         Closure(f, K, R, g, m, S, mi, wi, ro), f.at = "parity"
  PROVE  ReadOK([f EXCEPT !.at = "destroyed", !.sum = g - init_balance], Account(f.seg, f.n),
                K, R, m, S, mi, wi, ro)
<1> DEFINE h == [f EXCEPT !.at = "destroyed", !.sum = g - init_balance]
           s == f.seg
           Q == R \cup {Account(s, f.n)}
<1>1. f.at \in AllocPlaces
  BY DEF AllocPlaces
<1>2. /\ GoodList(m, S) /\ m \in Memories
      /\ Extent(K, R, m, S, mi, wi) /\ ~ro
      /\ AllocAt(f, K, R, g, m, S, mi, wi)
      /\ f \in Frames /\ g \in Int /\ init_balance \in Nat
  BY <1>1, AllocFacts
<1>3. Destroying(f, R, m, S) /\ g = m[ParityOf(s)] /\ Untouched(K, mi, wi)
  BY <1>2 DEF AllocAt
<1>4. /\ h \in Frames /\ h.at = "destroyed" /\ h.seg = s /\ h.prev = f.prev /\ h.n = f.n
      /\ h.sum = g - init_balance
  <2>1. g - init_balance \in Int
    BY <1>2
  <2>2. "destroyed" \in Places \ {"violated"}
    BY DEF Places
  <2> QED
    BY <1>2, <2>1, <2>2 DEF Frames
<1> HIDE DEF h
<1>5. Destroying(h, Q, m, S)
  BY <1>3, <1>4, AtEndMore DEF Destroying, PrevKnown
<1>6. AllocAt(h, K, Q, m[Account(s, f.n)], m, S, mi, wi)
  BY <1>3, <1>4, <1>5 DEF AllocAt
<1>7. Account(s, f.n) \in Proper(m, S)
  BY <1>2, <1>3, DestroyingFacts, ProperWords
<1>8. ReadOK(h, Account(s, f.n), K, R, m, S, mi, wi, ro)
  <2>1. Account(s, f.n) \notin DOMAIN K /\ h.at \in AllocPlaces
    BY <1>3, <1>4 DEF Untouched, AllocPlaces
  <2> QED
    BY <1>2, <1>4, <1>6, <1>7, <2>1, AllocRead
<1> QED
  BY <1>8 DEF h

\* What the place "destroyed" leads to.
LEMMA DestroyLowersCountKnows ==
  ASSUME NEW f0, NEW K, NEW R, NEW g, NEW m, NEW S, NEW mi, NEW wi, NEW ro,
         Closure(f0, K, R, g, m, S, mi, wi, ro), f0.at = "destroyed"
  PROVE  LET f == [f0 EXCEPT !.sum = @ + g]
         IN  /\ f.n > 0 =>
                  WriteOK([[f EXCEPT !.at = "lowered"] EXCEPT !.arg = f.n], CountOf(f.seg),
                          K, R, g, m, S, mi, wi, ro)
             /\ f.n = 0 =>
                  ReadOK([f EXCEPT !.at = "unlink"], NextOf(f.prev), K, R, m, S, mi, wi, ro)
<1> DEFINE f == [f0 EXCEPT !.sum = @ + g]
           h == [[f EXCEPT !.at = "lowered"] EXCEPT !.arg = f.n]
           k == [f EXCEPT !.at = "unlink"]
           s == f0.seg
<1>1. f0.at \in AllocPlaces
  BY DEF AllocPlaces
<1>2. /\ GoodList(m, S) /\ m \in Memories
      /\ Extent(K, R, m, S, mi, wi) /\ ~ro
      /\ AllocAt(f0, K, R, g, m, S, mi, wi)
      /\ f0 \in Frames /\ f0.n \in Int /\ f0.sum \in Int /\ g \in Int /\ init_balance \in Nat
  BY <1>1, AllocFacts
<1>3. /\ Destroying(f0, R, m, S) /\ Account(s, f0.n) \in R /\ Untouched(K, mi, wi)
      /\ f0.sum = m[ParityOf(s)] - init_balance
      /\ g = m[Account(s, f0.n)]
  BY <1>2 DEF AllocAt
<1>4. /\ s \in S /\ CountOf(s) \in R /\ NextOf(s) \in R
      /\ m[ParityOf(s)] \in Int
      /\ s # 1 =>
           /\ f0.prev \in S /\ f0.prev < s
           /\ m[NextOf(f0.prev)] = s /\ NextOf(f0.prev) \in R
  BY <1>2, <1>3, DestroyingFacts
<1>5. /\ f \in Frames /\ f.seg = s /\ f.prev = f0.prev /\ f.n = f0.n /\ f.sum = f0.sum + g
  <2>1. f0.sum + g \in Int
    BY <1>2
  <2> QED
    BY <1>2, <2>1 DEF Frames
<1> HIDE DEF f
<1>6. /\ h \in Frames /\ h.at = "lowered" /\ h.seg = s /\ h.prev = f.prev /\ h.n = f.n
      /\ h.sum = f.sum /\ h.arg = f.n
      /\ k \in Frames /\ k.at = "unlink" /\ k.seg = s /\ k.prev = f.prev /\ k.n = f.n
      /\ k.sum = f.sum
  <2>1. "lowered" \in Places \ {"violated"} /\ "unlink" \in Places \ {"violated"} /\ f.n \in Int
    BY <1>2, <1>5 DEF Places
  <2> QED
    BY <1>5, <2>1 DEF Frames
<1> HIDE DEF h, k
<1>7. f.sum = m[ParityOf(s)] + m[Account(s, f.n)] - init_balance
  BY <1>2, <1>3, <1>4, <1>5
<1>8. ASSUME f.n > 0
      PROVE  WriteOK(h, CountOf(s), K, R, g, m, S, mi, wi, ro)
  <2> DEFINE L == LogWith(K, CountOf(s), h.arg)
  <2>1. DOMAIN L = {CountOf(s)} /\ L[CountOf(s)] = f.n
    BY <1>3, <1>6 DEF LogWith, Untouched
  <2>2. CountOf(s) \in WordsOf(S \cup mi)
    BY <1>2, <1>4, ProperWords DEF WordsOf
  <2>3. Extent(L, R, m, S, mi, wi)
    BY <1>2, <1>4, <2>2, WriteExtent
  <2> HIDE DEF L
  <2>4. Lowering(h, L, R, m, S)
    BY <1>3, <1>5, <1>6, <1>7, <1>8, <2>1 DEF Lowering, Destroyed, Destroying, PrevKnown
  <2>5. AllocAt(h, L, R, g, m, S, mi, wi)
    BY <1>3, <1>6, <2>4 DEF AllocAt, Untouched
  <2>6. Knows(h, L, R, g, m, S, mi, wi, ro)
    BY <1>2, <1>6, <2>3, <2>5, AllocKnows DEF AllocPlaces
  <2> QED
    BY <1>2, <1>6, <2>2, <2>6 DEF WriteOK, L
<1>9. ASSUME f.n = 0
      PROVE  ReadOK(k, NextOf(f.prev), K, R, m, S, mi, wi, ro)
  <2> DEFINE Q == R \cup {NextOf(f.prev)}
  <2>1. s # 1
    BY <1>3, <1>5, <1>9 DEF Destroying
  <2>2. NextOf(f.prev) \in R /\ m[NextOf(f.prev)] = s /\ NextOf(f.prev) \in Proper(m, S)
    BY <1>2, <1>4, <1>5, <2>1, ProperWords
  <2>3. Q = R
    BY <2>2
  <2>4. Unlinking(k, Q, m, S)
    BY <1>3, <1>5, <1>6, <1>7, <1>9, <2>1, <2>3 DEF Unlinking, Destroyed, Destroying, PrevKnown
  <2>5. AllocAt(k, K, Q, m[NextOf(f.prev)], m, S, mi, wi)
    BY <1>3, <1>6, <2>2, <2>4 DEF AllocAt
  <2>6. NextOf(f.prev) \notin DOMAIN K /\ k.at \in AllocPlaces
    BY <1>3, <1>6 DEF Untouched, AllocPlaces
  <2> QED
    BY <1>2, <1>6, <2>2, <2>5, <2>6, AllocRead
<1> QED
  BY <1>5, <1>8, <1>9 DEF f, h, k

LEMMA ArgFrame ==
  ASSUME NEW v \in Int
  PROVE  /\ [ReturnFrame EXCEPT !.arg = v] \in Frames
         /\ [ReturnFrame EXCEPT !.arg = v].at = "returned"
         /\ [ReturnFrame EXCEPT !.arg = v].arg = v
BY FirstFrames DEF Frames

\* The last write of a closure.
LEMMA LastWrite ==
  ASSUME NEW K, NEW R, NEW g, NEW m, NEW S, NEW mi, NEW wi, NEW ro, NEW w, NEW v \in Int,
         Extent(K, R, m, S, mi, wi), ~ro, w \in WordsOf(S \cup mi),
         w \in Proper(m, S) => w \in R,
         Returned(LogWith(K, w, v), R, m, S, mi, wi)
  PROVE  WriteOK([ReturnFrame EXCEPT !.arg = v], w, K, R, g, m, S, mi, wi, ro)
<1> DEFINE h == [ReturnFrame EXCEPT !.arg = v]
<1>1. h \in Frames /\ h.at = "returned" /\ h.arg = v
  BY ArgFrame
<1> HIDE DEF h
<1>2. Extent(LogWith(K, w, v), R, m, S, mi, wi)
  BY WriteExtent
<1>3. Knows(h, LogWith(K, w, v), R, g, m, S, mi, wi, ro)
  BY <1>1, <1>2, ReturnKnows
<1> QED
  BY <1>1, <1>3 DEF WriteOK, h

LEMMA DestroyCorrectsParityKnows ==
  ASSUME NEW f, NEW K, NEW R, NEW g, NEW m, NEW S, NEW mi, NEW wi, NEW ro,
         Closure(f, K, R, g, m, S, mi, wi, ro), f.at = "lowered"
  PROVE  WriteOK([ReturnFrame EXCEPT !.arg = f.sum], ParityOf(f.seg),
                 K, R, g, m, S, mi, wi, ro)
<1> DEFINE s == f.seg
           L == LogWith(K, ParityOf(s), f.sum)
<1>1. f.at \in AllocPlaces
  BY DEF AllocPlaces
<1>2. /\ GoodList(m, S) /\ m \in Memories
      /\ Extent(K, R, m, S, mi, wi) /\ ~ro
      /\ AllocAt(f, K, R, g, m, S, mi, wi)
      /\ f \in Frames /\ f.sum \in Int
  BY <1>1, AllocFacts
<1>3. Lowering(f, K, R, m, S) /\ mi = {} /\ wi = {}
  BY <1>2 DEF AllocAt
<1>4. /\ Destroying(f, R, m, S) /\ Account(s, f.n) \in R /\ ParityOf(s) \in R
      /\ f.sum = m[ParityOf(s)] + m[Account(s, f.n)] - init_balance
      /\ AtEnd(R, m, S, s) /\ f.n = m[CountOf(s)] - 1 /\ (s = 1 => f.n >= 2) /\ f.n > 0
      /\ DOMAIN K = {CountOf(s)} /\ K[CountOf(s)] = f.n
  BY <1>3 DEF Lowering, Destroyed, Destroying
<1>5. s \in S /\ s \in Segment
  BY <1>2, <1>4, DestroyingFacts
<1>6. ParityOf(s) # CountOf(s)
  BY <1>5, Addresses
<1>7. /\ DOMAIN L = {CountOf(s), ParityOf(s)} /\ L[CountOf(s)] = f.n
      /\ L[ParityOf(s)] = m[ParityOf(s)] + m[Account(s, f.n)] - init_balance
  BY <1>4, <1>6 DEF LogWith
<1> HIDE DEF L
<1>8. Lowered(s, L, R, m, S, mi, wi)
  BY <1>3, <1>4, <1>7 DEF Lowered
<1>9. Returned(L, R, m, S, mi, wi)
  BY <1>5, <1>8 DEF Returned
<1>10. ParityOf(s) \in WordsOf(S \cup mi)
  BY <1>5, WordsOfSegment
<1> QED
  BY <1>2, <1>4, <1>9, <1>10, LastWrite DEF L

LEMMA DestroyUnlinksKnows ==
  ASSUME NEW f, NEW K, NEW R, NEW g, NEW m, NEW S, NEW mi, NEW wi, NEW ro,
         Closure(f, K, R, g, m, S, mi, wi, ro), f.at = "unlink"
  PROVE  /\ g \in S /\ g # 1 /\ g \in Segment
         /\ WriteOK([[f EXCEPT !.at = "unlinked"] EXCEPT !.arg = nullptr], NextOf(f.prev),
                    K, R, g, m, S, mi, wi \cup {g}, ro)
<1> DEFINE s == f.seg
           p == f.prev
           h == [[f EXCEPT !.at = "unlinked"] EXCEPT !.arg = nullptr]
           L == LogWith(K, NextOf(p), nullptr)
<1>1. f.at \in AllocPlaces
  BY DEF AllocPlaces
<1>2. /\ GoodList(m, S) /\ m \in Memories
      /\ Extent(K, R, m, S, mi, wi) /\ ~ro
      /\ AllocAt(f, K, R, g, m, S, mi, wi)
      /\ f \in Frames
  BY <1>1, AllocFacts
<1>3. Unlinking(f, R, m, S) /\ g = s /\ Untouched(K, mi, wi)
  BY <1>2 DEF AllocAt
<1>4. Destroying(f, R, m, S) /\ s # 1
  BY <1>3 DEF Unlinking, Destroyed
<1>5. /\ s \in S /\ s \in Segment
      /\ p \in S /\ p \in Segment /\ p < s /\ m[NextOf(p)] = s /\ NextOf(p) \in R
  BY <1>2, <1>4, DestroyingFacts
<1>6. /\ h \in Frames /\ h.at = "unlinked" /\ h.seg = s /\ h.prev = p /\ h.n = f.n
      /\ h.sum = f.sum /\ h.arg = nullptr
  <2>1. "unlinked" \in Places \ {"violated"} /\ nullptr \in Int
    BY DEF Places, nullptr
  <2> QED
    BY <1>2, <2>1 DEF Frames
<1> HIDE DEF h
<1>7. DOMAIN L = {NextOf(p)} /\ L[NextOf(p)] = nullptr
  BY <1>3 DEF LogWith, Untouched
<1>8. NextOf(p) \in WordsOf(S \cup mi)
  BY <1>5, WordsOfSegment
<1>9. Extent(L, R, m, S, mi, wi)
  BY <1>2, <1>5, <1>8, WriteExtent
<1> HIDE DEF L
<1>10. wi \cup {g} = {s}
  BY <1>3 DEF Untouched
<1>11. Extent(L, R, m, S, mi, wi \cup {g})
  BY <1>5, <1>7, <1>9, <1>10 DEF Extent
<1>12. Unlinked(h, L, R, m, S)
  BY <1>3, <1>6, <1>7 DEF Unlinked, Unlinking, Destroyed, Destroying, PrevKnown
<1>13. AllocAt(h, L, R, g, m, S, mi, wi \cup {g})
  BY <1>3, <1>6, <1>10, <1>12 DEF AllocAt, Untouched
<1>14. Knows(h, L, R, g, m, S, mi, wi \cup {g}, ro)
  BY <1>2, <1>6, <1>11, <1>13, AllocKnows DEF AllocPlaces
<1> QED
  BY <1>2, <1>3, <1>4, <1>5, <1>6, <1>8, <1>14 DEF WriteOK, h, L

LEMMA DestroyReadsParityKnows ==
  ASSUME NEW f, NEW K, NEW R, NEW g, NEW m, NEW S, NEW mi, NEW wi, NEW ro,
         Closure(f, K, R, g, m, S, mi, wi, ro), f.at = "unlinked"
  PROVE  ReadOK([f EXCEPT !.at = "previousParity"], ParityOf(f.prev),
                K, R, m, S, mi, wi, ro)
<1> DEFINE h == [f EXCEPT !.at = "previousParity"]
           s == f.seg
           p == f.prev
           Q == R \cup {ParityOf(p)}
<1>1. f.at \in AllocPlaces
  BY DEF AllocPlaces
<1>2. /\ GoodList(m, S) /\ m \in Memories
      /\ Extent(K, R, m, S, mi, wi) /\ ~ro
      /\ AllocAt(f, K, R, g, m, S, mi, wi)
      /\ f \in Frames
  BY <1>1, AllocFacts
<1>3. Unlinked(f, K, R, m, S) /\ mi = {} /\ wi = {s}
  BY <1>2 DEF AllocAt
<1>4. Destroying(f, R, m, S) /\ s # 1 /\ DOMAIN K = {NextOf(p)}
  BY <1>3 DEF Unlinked, Unlinking, Destroyed
<1>5. s \in S /\ p \in S /\ p \in Segment
  BY <1>2, <1>4, DestroyingFacts
<1>6. /\ h \in Frames /\ h.at = "previousParity" /\ h.seg = s /\ h.prev = p /\ h.n = f.n
      /\ h.sum = f.sum
  <2>1. "previousParity" \in Places \ {"violated"}
    BY DEF Places
  <2> QED
    BY <1>2, <2>1 DEF Frames
<1> HIDE DEF h
<1>7. Unlinked(h, K, Q, m, S)
  <2>1. AtEnd(Q, m, S, s)
    BY <1>4, AtEndMore DEF Destroying
  <2> QED
    BY <1>3, <1>6, <2>1 DEF Unlinked, Unlinking, Destroyed, Destroying, PrevKnown
<1>8. AllocAt(h, K, Q, m[ParityOf(p)], m, S, mi, wi)
  BY <1>3, <1>6, <1>7 DEF AllocAt
<1>9. ParityOf(p) \in Proper(m, S) /\ ParityOf(p) \notin DOMAIN K
  BY <1>2, <1>4, <1>5, ProperWords, Addresses
<1>10. ReadOK(h, ParityOf(p), K, R, m, S, mi, wi, ro)
  BY <1>2, <1>6, <1>8, <1>9, AllocRead DEF AllocPlaces
<1> QED
  BY <1>10 DEF h

LEMMA DestroyMovesParityKnows ==
  ASSUME NEW f, NEW K, NEW R, NEW g, NEW m, NEW S, NEW mi, NEW wi, NEW ro,
         Closure(f, K, R, g, m, S, mi, wi, ro), f.at = "previousParity"
  PROVE  WriteOK([ReturnFrame EXCEPT !.arg = g + f.sum], ParityOf(f.prev),
                 K, R, g, m, S, mi, wi, ro)
<1> DEFINE s == f.seg
           p == f.prev
           v == g + f.sum
           L == LogWith(K, ParityOf(p), v)
<1>1. f.at \in AllocPlaces
  BY DEF AllocPlaces
<1>2. /\ GoodList(m, S) /\ m \in Memories
      /\ Extent(K, R, m, S, mi, wi) /\ ~ro
      /\ AllocAt(f, K, R, g, m, S, mi, wi)
      /\ f \in Frames /\ f.sum \in Int /\ g \in Int /\ init_balance \in Nat
  BY <1>1, AllocFacts
<1>3. /\ Unlinked(f, K, R, m, S) /\ mi = {} /\ wi = {s}
      /\ ParityOf(p) \in R /\ g = m[ParityOf(p)]
  BY <1>2 DEF AllocAt
<1>4. /\ Destroying(f, R, m, S) /\ Account(s, f.n) \in R /\ ParityOf(s) \in R
      /\ f.sum = m[ParityOf(s)] + m[Account(s, f.n)] - init_balance
      /\ AtEnd(R, m, S, s) /\ f.n = 0 /\ s # 1
      /\ DOMAIN K = {NextOf(p)} /\ K[NextOf(p)] = nullptr
  BY <1>3 DEF Unlinked, Unlinking, Destroyed, Destroying
<1>5. /\ s \in S /\ s \in Segment /\ m[CountOf(s)] = 1
      /\ p \in S /\ p \in Segment /\ p < s /\ m[NextOf(p)] = s
      /\ m[ParityOf(s)] \in Int /\ m[Account(s, 0)] \in Int
  BY <1>2, <1>4, DestroyingFacts
<1>6. ParityOf(p) # NextOf(p)
  BY <1>5, Addresses
<1>7. /\ v \in Int
      /\ v = m[ParityOf(p)] + m[ParityOf(s)] + m[Account(s, 0)] - init_balance
  BY <1>2, <1>3, <1>4, <1>5
<1> HIDE DEF v
<1>8. /\ DOMAIN L = {NextOf(p), ParityOf(p)} /\ L[NextOf(p)] = nullptr
      /\ L[ParityOf(p)] = v
  BY <1>4, <1>6 DEF LogWith
<1> HIDE DEF L
<1>9. Shortened(p, s, L, R, m, S, mi, wi)
  BY <1>3, <1>4, <1>5, <1>7, <1>8 DEF Shortened
<1>10. Returned(L, R, m, S, mi, wi)
  BY <1>5, <1>9 DEF Returned
<1>11. ParityOf(p) \in WordsOf(S \cup mi)
  BY <1>5, WordsOfSegment
<1>12. WriteOK([ReturnFrame EXCEPT !.arg = v], ParityOf(p), K, R, g, m, S, mi, wi, ro)
  BY <1>2, <1>3, <1>7, <1>10, <1>11, LastWrite DEF L
<1> QED
  BY <1>12 DEF v

LEMMA FillAccountKnows ==
  ASSUME NEW f, NEW K, NEW R, NEW g, NEW m, NEW S, NEW mi, NEW wi, NEW ro,
         Closure(f, K, R, g, m, S, mi, wi, ro), f.at = "allocNext", g = nullptr,
         f.n < nbaccounts
  PROVE  WriteOK([[f EXCEPT !.at = "filled"] EXCEPT !.arg = init_balance],
                 Account(f.seg, f.n), K, R, g, m, S, mi, wi, ro)
<1> DEFINE s == f.seg
           w == Account(s, f.n)
           h == [[f EXCEPT !.at = "filled"] EXCEPT !.arg = init_balance]
           L == LogWith(K, w, init_balance)
<1>1. /\ GoodList(m, S) /\ m \in Memories
      /\ Extent(K, R, m, S, mi, wi) /\ ~ro /\ Untouched(K, mi, wi)
      /\ f \in Frames /\ s \in S /\ s \in Segment
      /\ f.n = m[CountOf(s)] /\ f.n \in 1..nbaccounts
      /\ AtEnd(R, m, S, s)
      /\ nbaccounts \in Nat /\ init_balance \in Nat
  BY AllocNextFacts
<1>2. h \in Frames /\ h.at = "filled" /\ h.seg = s /\ h.n = f.n /\ h.arg = init_balance
  <2>1. "filled" \in Places \ {"violated"} /\ init_balance \in Int
    BY <1>1 DEF Places
  <2> QED
    BY <1>1, <2>1 DEF Frames
<1> HIDE DEF h
<1>3. w \in WordsOf(S) /\ w \notin Proper(m, S)
  BY <1>1, NextAccount
<1>4. DOMAIN L = {w} /\ L[w] = init_balance
  BY <1>1 DEF LogWith, Untouched
<1>5. w \in WordsOf(S \cup mi)
  BY <1>3 DEF WordsOf
<1>6. Extent(L, R, m, S, mi, wi)
  BY <1>1, <1>3, <1>5, WriteExtent
<1> HIDE DEF L
<1>7. Filling(h, L, R, m, S)
  BY <1>1, <1>2, <1>4 DEF Filling
<1>8. AllocAt(h, L, R, g, m, S, mi, wi)
  BY <1>1, <1>2, <1>7 DEF AllocAt, Untouched
<1>9. Knows(h, L, R, g, m, S, mi, wi, ro)
  BY <1>1, <1>2, <1>6, <1>8, AllocKnows DEF AllocPlaces
<1> QED
  BY <1>1, <1>2, <1>5, <1>9 DEF WriteOK, h, L

LEMMA FillRaisesCountKnows ==
  ASSUME NEW f, NEW K, NEW R, NEW g, NEW m, NEW S, NEW mi, NEW wi, NEW ro,
         Closure(f, K, R, g, m, S, mi, wi, ro), f.at = "filled"
  PROVE  WriteOK([ReturnFrame EXCEPT !.arg = f.n + 1], CountOf(f.seg),
                 K, R, g, m, S, mi, wi, ro)
<1> DEFINE s == f.seg
           v == f.n + 1
           w == Account(s, f.n)
           L == LogWith(K, CountOf(s), v)
<1>1. f.at \in AllocPlaces
  BY DEF AllocPlaces
<1>2. /\ GoodList(m, S) /\ m \in Memories
      /\ Extent(K, R, m, S, mi, wi) /\ ~ro
      /\ AllocAt(f, K, R, g, m, S, mi, wi)
      /\ f \in Frames /\ s \in Segment /\ f.n \in Int /\ nbaccounts \in Nat
  BY <1>1, AllocFacts
<1>3. Filling(f, K, R, m, S) /\ mi = {} /\ wi = {}
  BY <1>2 DEF AllocAt
<1>4. /\ AtEnd(R, m, S, s) /\ f.n = m[CountOf(s)] /\ f.n < nbaccounts
      /\ DOMAIN K = {w} /\ K[w] = init_balance
      /\ s \in S /\ CountOf(s) \in R
  BY <1>3 DEF Filling, AtEnd, Walked
<1>5. f.n \in 0..(nbaccounts - 1)
  BY <1>2, <1>4, GoodCounts
<1>6. CountOf(s) # w
  <2>1. OffsetOf(CountOf(s)) = 0 /\ OffsetOf(w) = 3 + f.n
    BY <1>2, <1>5, Addresses
  <2>2. 3 + f.n # 0
    BY <1>2, <1>5
  <2> QED
    BY <2>1, <2>2
<1>7. v \in Int
  BY <1>2
<1>8. DOMAIN L = {w, CountOf(s)} /\ L[w] = init_balance /\ L[CountOf(s)] = f.n + 1
  BY <1>4, <1>6 DEF LogWith
<1> HIDE DEF L
<1>9. Filled(s, L, R, m, S, mi, wi)
  BY <1>3, <1>4, <1>8 DEF Filled
<1>10. Returned(L, R, m, S, mi, wi)
  BY <1>4, <1>9 DEF Returned
<1>11. CountOf(s) \in WordsOf(S \cup mi)
  BY <1>2, <1>4, WordsOfSegment
<1> QED
  BY <1>2, <1>4, <1>7, <1>10, <1>11, LastWrite DEF L

\* n is the new segment.
LEMMA AddSegmentKnows ==
  ASSUME NEW f, NEW K, NEW R, NEW g, NEW m, NEW S, NEW mi, NEW wi, NEW ro, NEW n \in Segment,
         Closure(f, K, R, g, m, S, mi, wi, ro), f.at = "allocNext", g = nullptr,
         f.n >= nbaccounts
  PROVE  WriteOK([[f EXCEPT !.at = "linked", !.prev = f.seg, !.seg = n] EXCEPT !.arg = n],
                 NextOf(f.seg), K, R, g, m, S, mi \cup {n}, wi, ro)
<1> DEFINE p == f.seg
           h == [[f EXCEPT !.at = "linked", !.prev = f.seg, !.seg = n] EXCEPT !.arg = n]
           L == LogWith(K, NextOf(p), n)
<1>1. /\ GoodList(m, S) /\ m \in Memories
      /\ Extent(K, R, m, S, mi, wi) /\ ~ro /\ Untouched(K, mi, wi)
      /\ f \in Frames /\ p \in S /\ p \in Segment
      /\ f.n = m[CountOf(p)] /\ f.n \in 1..nbaccounts
      /\ AtEnd(R, m, S, p) /\ NextOf(p) \in R
      /\ nbaccounts \in Nat /\ init_balance \in Nat
  BY AllocNextFacts
<1>2. h \in Frames /\ h.at = "linked" /\ h.seg = n /\ h.prev = p /\ h.arg = n
  <2>1. "linked" \in Places \ {"violated"} /\ n \in Int
    BY Addresses DEF Places
  <2> QED
    BY <1>1, <2>1 DEF Frames
<1> HIDE DEF h
<1>3. NextOf(p) \in WordsOf(S \cup (mi \cup {n}))
  BY <1>1, WordsOfSegment
<1>4. DOMAIN L = {NextOf(p)} /\ L[NextOf(p)] = n
  BY <1>1 DEF LogWith, Untouched
<1> HIDE DEF L
<1>5. mi \cup {n} = {n} /\ wi = {}
  BY <1>1 DEF Untouched
<1>6. Extent(L, R, m, S, mi \cup {n}, wi)
  BY <1>1, <1>3, <1>4, <1>5 DEF Extent
<1>7. m[CountOf(p)] = nbaccounts
  BY <1>1
<1>8. Adding(p, n, L, R, m, S)
  BY <1>1, <1>4, <1>7 DEF Adding
<1>9. AllocAt(h, L, R, g, m, S, mi \cup {n}, wi)
  BY <1>2, <1>4, <1>5, <1>8 DEF AllocAt
<1>10. Knows(h, L, R, g, m, S, mi \cup {n}, wi, ro)
  BY <1>1, <1>2, <1>6, <1>9, AllocKnows DEF AllocPlaces
<1> QED
  BY <1>1, <1>2, <1>3, <1>10 DEF WriteOK, h, L

LEMMA AddCountKnows ==
  ASSUME NEW f, NEW K, NEW R, NEW g, NEW m, NEW S, NEW mi, NEW wi, NEW ro,
         Closure(f, K, R, g, m, S, mi, wi, ro), f.at = "linked"
  PROVE  WriteOK([[f EXCEPT !.at = "counted"] EXCEPT !.arg = 1], CountOf(f.seg),
                 K, R, g, m, S, mi, wi, ro)
<1> DEFINE s == f.seg
           p == f.prev
           h == [[f EXCEPT !.at = "counted"] EXCEPT !.arg = 1]
           L == LogWith(K, CountOf(s), 1)
<1>1. f.at \in AllocPlaces
  BY DEF AllocPlaces
<1>2. /\ GoodList(m, S) /\ m \in Memories
      /\ Extent(K, R, m, S, mi, wi) /\ ~ro
      /\ AllocAt(f, K, R, g, m, S, mi, wi)
      /\ f \in Frames
  BY <1>1, AllocFacts
<1>3. Adding(p, s, K, R, m, S) /\ DOMAIN K = {NextOf(p)} /\ mi = {s} /\ wi = {}
  BY <1>2 DEF AllocAt
<1>4. s \in Segment /\ p \in S /\ p \in Segment
  BY <1>2, <1>3, GoodCounts DEF Adding, AtEnd, Walked, Closure
<1>5. \A r \in S : r < s /\ r \in Nat
  BY <1>2, <1>3, GoodCounts, Addresses DEF Closure
<1>6. s \notin S /\ s \in Nat
  BY <1>4, <1>5, Addresses
<1>7. CountOf(s) # NextOf(p)
  BY <1>4, Addresses
<1>8. CountOf(s) \notin Proper(m, S) /\ CountOf(s) \in WordsOf(S \cup mi)
  <2>1. SegmentOfWord(CountOf(s)) = s
    BY <1>4, Addresses
  <2> QED
    BY <1>2, <1>3, <1>4, <1>6, <2>1, OtherSegment, WordsOfSegment
<1>9. h \in Frames /\ h.at = "counted" /\ h.seg = s /\ h.prev = p /\ h.arg = 1
  <2>1. "counted" \in Places \ {"violated"} /\ 1 \in Int
    BY DEF Places
  <2> QED
    BY <1>2, <2>1 DEF Frames
<1> HIDE DEF h
<1>10. /\ DOMAIN L = {NextOf(p), CountOf(s)} /\ L[CountOf(s)] = 1
       /\ L[NextOf(p)] = K[NextOf(p)]
  BY <1>3, <1>7 DEF LogWith
<1>11. Extent(L, R, m, S, mi, wi)
  BY <1>2, <1>8, WriteExtent
<1> HIDE DEF L
<1>12. Adding(p, s, L, R, m, S)
  BY <1>3, <1>10 DEF Adding
<1>13. AllocAt(h, L, R, g, m, S, mi, wi)
  BY <1>3, <1>9, <1>10, <1>12 DEF AllocAt
<1>14. Knows(h, L, R, g, m, S, mi, wi, ro)
  BY <1>2, <1>9, <1>11, <1>13, AllocKnows DEF AllocPlaces
<1> QED
  BY <1>2, <1>8, <1>9, <1>14 DEF WriteOK, h, L

LEMMA AddAccountKnows ==
  ASSUME NEW f, NEW K, NEW R, NEW g, NEW m, NEW S, NEW mi, NEW wi, NEW ro,
         Closure(f, K, R, g, m, S, mi, wi, ro), f.at = "counted"
  PROVE  WriteOK([ReturnFrame EXCEPT !.arg = init_balance], Account(f.seg, 0),
                 K, R, g, m, S, mi, wi, ro)
<1> DEFINE s == f.seg
           p == f.prev
           w == Account(s, 0)
           L == LogWith(K, w, init_balance)
<1>1. f.at \in AllocPlaces
  BY DEF AllocPlaces
<1>2. /\ GoodList(m, S) /\ m \in Memories
      /\ Extent(K, R, m, S, mi, wi) /\ ~ro
      /\ AllocAt(f, K, R, g, m, S, mi, wi)
      /\ f \in Frames /\ nbaccounts \in Nat /\ nbaccounts >= 2 /\ init_balance \in Nat
  BY <1>1, AllocFacts
<1>3. /\ Adding(p, s, K, R, m, S) /\ mi = {s} /\ wi = {}
      /\ DOMAIN K = {NextOf(p), CountOf(s)} /\ K[CountOf(s)] = 1
  BY <1>2 DEF AllocAt
<1>4. s \in Segment /\ p \in S /\ p \in Segment
  BY <1>2, <1>3, GoodCounts DEF Adding, AtEnd, Walked, Closure
<1>5. \A r \in S : r < s /\ r \in Nat
  BY <1>2, <1>3, GoodCounts, Addresses DEF Closure
<1>6. s \notin S /\ s \in Nat
  BY <1>4, <1>5, Addresses
<1>7. 0 \in 0..(nbaccounts - 1)
  BY <1>2
<1>8. /\ SegmentOfWord(w) = s /\ w # NextOf(p) /\ w # CountOf(s)
  <2>1. /\ SegmentOfWord(w) = s /\ OffsetOf(w) = 3 /\ OffsetOf(NextOf(p)) = 1
        /\ OffsetOf(CountOf(s)) = 0
    BY <1>4, <1>7, Addresses
  <2> QED
    BY <2>1
<1>9. w \notin Proper(m, S) /\ w \in WordsOf(S \cup mi)
  BY <1>2, <1>3, <1>4, <1>6, <1>7, <1>8, OtherSegment, WordsOfSegment
<1>10. /\ DOMAIN L = {NextOf(p), CountOf(s), w} /\ L[CountOf(s)] = 1
       /\ L[NextOf(p)] = K[NextOf(p)] /\ L[w] = init_balance
  BY <1>3, <1>8 DEF LogWith
<1> HIDE DEF L
<1>11. Extended(p, s, L, R, m, S, mi, wi)
  BY <1>3, <1>10 DEF Extended, Adding
<1>12. Returned(L, R, m, S, mi, wi)
  BY <1>3, <1>4, <1>11 DEF Returned
<1> QED
  BY <1>2, <1>9, <1>12, LastWrite DEF L

-----------------------------------------------------------------------------
\* short_tx

LEMMA FoundMore ==
  ASSUME NEW a, NEW R, NEW Q, NEW m, NEW S, R \subseteq Q, Found(a, R, m, S)
  PROVE  Found(a, Q, m, S)
BY WalkedMore DEF Found

LEMMA FoundProper ==
  ASSUME NEW m \in Memories, NEW S, GoodList(m, S), NEW a, NEW R, Found(a, R, m, S)
  PROVE  a \in Proper(m, S) /\ a \in Words /\ a \in WordsOf(S)
<1>1. PICK s \in S : \E i \in 0..(m[CountOf(s)] - 1) : a = Account(s, i)
  BY DEF Found
<1>2. a \in Proper(m, S)
  BY <1>1, ProperWords
<1> QED
  BY <1>2, ProperWords DEF WordsOf

LEMMA ShortRead ==
  ASSUME NEW f, NEW K, NEW R, NEW m, NEW S, NEW mi, NEW wi, NEW ro, NEW w,
         m \in Memories, GoodList(m, S), f \in Frames, ~ro, mi = {}, wi = {},
         Extent(K, R, m, S, mi, wi), f.at \in ShortPlaces, w \in Proper(m, S),
         w \in DOMAIN K => w \in R,
         ShortAt(f, K, R \cup {w}, View(K, m, w), m, S)
  PROVE  ReadOK(f, w, K, R, m, S, mi, wi, ro)
<1>1. ReadsWith(K, R, w, ro) = R \cup {w}
  BY DEF ReadsWith
<1>2. w \in WordsOf(S \cup mi)
  BY ProperWords DEF WordsOf
<1>3. Extent(K, R \cup {w}, m, S, mi, wi)
  BY DEF Extent
<1> QED
  BY <1>1, <1>2, <1>3, ShortKnows DEF ReadOK

LEMMA ShortBeginsKnows ==
  ASSUME NEW f, NEW K, NEW R, NEW g, NEW m, NEW S, NEW mi, NEW wi, NEW ro,
         NEW id \in [Party -> Nat],
         Closure(f, K, R, g, m, S, mi, wi, ro), f.at = "begin", ~ro
  PROVE  ReadOK([f EXCEPT !.at = "shortCount", !.id = id], CountOf(1), K, R, m, S, mi, wi, ro)
<1> DEFINE h == [f EXCEPT !.at = "shortCount", !.id = id]
           Q == R \cup {CountOf(1)}
           w == CountOf(1)
<1>1. GoodList(m, S) /\ m \in Memories
  BY DEF Closure, GoodBank
<1>2. f = NewFrame /\ Untouched(K, mi, wi) /\ Extent(K, R, m, S, mi, wi)
  BY DEF Closure, Knows
<1>3. /\ h \in Frames /\ h.at = "shortCount" /\ h.seg = 1 /\ h.id = id
      /\ \A p \in Party : h.ptr[p] = nullptr
  <2>1. "shortCount" \in Places \ {"violated"} /\ id \in [Party -> Int]
    BY DEF Places
  <2>2. f \in Frames /\ f.seg = 1 /\ \A p \in Party : f.ptr[p] = nullptr
    BY <1>2, FirstFrames DEF NewFrame
  <2> QED
    BY <2>1, <2>2 DEF Frames
<1> HIDE DEF h
<1>4. 1 \in S /\ Before(S, 1) = {}
  BY <1>1, FirstPrefix
<1>5. Walked(Q, S, 1)
  BY <1>4 DEF Walked, Before
<1>6. View(K, m, w) = m[w] /\ DOMAIN K = {}
  BY <1>2 DEF View, Untouched
<1>7. ShortAt(h, K, Q, View(K, m, w), m, S)
  BY <1>3, <1>5, <1>6 DEF ShortAt
<1>8. w \in Proper(m, S)
  BY <1>1, <1>4, ProperWords
<1>9. ReadOK(h, w, K, R, m, S, mi, wi, ro)
  BY <1>1, <1>2, <1>3, <1>6, <1>7, <1>8, ShortRead DEF Untouched, ShortPlaces
<1> QED
  BY <1>9 DEF h

\* What holds at all places of short_tx.
LEMMA ShortFacts ==
  ASSUME NEW f, NEW K, NEW R, NEW g, NEW m, NEW S, NEW mi, NEW wi, NEW ro,
         Closure(f, K, R, g, m, S, mi, wi, ro), f.at \in ShortPlaces
  PROVE  /\ GoodList(m, S) /\ m \in Memories
         /\ Extent(K, R, m, S, mi, wi) /\ ~ro /\ mi = {} /\ wi = {}
         /\ ShortAt(f, K, R, g, m, S)
         /\ f \in Frames /\ f.seg \in Segment /\ f.ptr \in [Party -> Words \cup {nullptr}]
         /\ f.id \in [Party -> Int] /\ g \in Int
         /\ nbaccounts \in Nat
<1>1. GoodList(m, S) /\ m \in Memories
  BY DEF Closure, GoodBank
<1>2. Extent(K, R, m, S, mi, wi) /\ ~ro /\ mi = {} /\ wi = {} /\ ShortAt(f, K, R, g, m, S)
  BY DEF Closure, Knows, LongPlaces, ShortPlaces
<1>3. /\ f \in Frames /\ f.seg \in Segment /\ f.ptr \in [Party -> Words \cup {nullptr}]
      /\ f.id \in [Party -> Int] /\ g \in Int
  BY DEF Closure, Frames
<1>4. nbaccounts \in Nat
  BY BankAssumption
<1> QED
  BY <1>1, <1>2, <1>3, <1>4

LEMMA ShortCountKnows ==
  ASSUME NEW f0, NEW K, NEW R, NEW g, NEW m, NEW S, NEW mi, NEW wi, NEW ro,
         Closure(f0, K, R, g, m, S, mi, wi, ro), f0.at = "shortCount"
  PROVE  LET f == Searched(f0, g)
         IN  /\ (\A p \in Party : f.ptr[p] # nullptr) =>
                  ReadOK([f EXCEPT !.at = "sender"], f.ptr["send"], K, R, m, S, mi, wi, ro)
             /\ (\E p \in Party : f.ptr[p] = nullptr) =>
                  ReadOK([f EXCEPT !.at = "shortNext"], NextOf(f.seg), K, R, m, S, mi, wi, ro)
<1> DEFINE here(p) == f0.ptr[p] = nullptr /\ f0.id[p] < g
           ptr == [p \in Party |-> IF here(p) THEN Account(f0.seg, f0.id[p]) ELSE f0.ptr[p]]
           id == [p \in Party |-> IF here(p) THEN 0
                                  ELSE IF f0.ptr[p] = nullptr THEN f0.id[p] - g ELSE 0]
           f == Searched(f0, g)
           s == f0.seg
<1>1. f0.at \in ShortPlaces
  BY DEF ShortPlaces
<1>2. /\ GoodList(m, S) /\ m \in Memories
      /\ Extent(K, R, m, S, mi, wi) /\ ~ro /\ mi = {} /\ wi = {}
      /\ ShortAt(f0, K, R, g, m, S)
      /\ f0 \in Frames /\ s \in Segment /\ g \in Int
      /\ f0.ptr \in [Party -> Words \cup {nullptr}]
  BY <1>1, ShortFacts
<1>3. /\ Walked(R, S, s) /\ CountOf(s) \in R /\ s \in S
      /\ \A p \in Party : f0.ptr[p] = nullptr \/ Found(f0.ptr[p], R, m, S)
      /\ \A p \in Party : f0.id[p] \in Nat
      /\ DOMAIN K = {} /\ g = m[CountOf(s)]
  BY <1>2 DEF ShortAt, Walked
<1>4. ASSUME NEW p \in Party
      PROVE  /\ ptr[p] = nullptr \/ Found(ptr[p], R, m, S)
             /\ id[p] \in Nat
             /\ ptr[p] \in Words \cup {nullptr}
  <2>1. CASE here(p)
    <3>1. f0.id[p] \in 0..(m[CountOf(s)] - 1)
      BY <1>2, <1>3, <2>1
    <3>2. Found(Account(s, f0.id[p]), R, m, S)
      BY <1>3, <3>1 DEF Found
    <3>3. ptr[p] = Account(s, f0.id[p]) /\ id[p] = 0
      BY <2>1
    <3> HIDE DEF ptr, id
    <3> QED
      BY <1>2, <3>2, <3>3, FoundProper
  <2>2. CASE ~here(p)
    <3>1. ptr[p] = f0.ptr[p] /\ f0.ptr[p] \in Words \cup {nullptr}
      BY <1>2, <2>2
    <3>2. id[p] \in Nat
      BY <1>2, <1>3, <2>2
    <3> HIDE DEF ptr, id
    <3> QED
      BY <1>3, <3>1, <3>2
  <2> QED
    BY <2>1, <2>2
<1>5. ptr \in [Party -> Words \cup {nullptr}] /\ id \in [Party -> Int] /\ id \in [Party -> Nat]
  <2>1. ptr \in [Party -> Words \cup {nullptr}]
    BY <1>4
  <2>2. id \in [Party -> Nat]
    BY <1>4
  <2> HIDE DEF ptr, id
  <2> QED
    BY <2>1, <2>2
<1>6. f = [f0 EXCEPT !.ptr = ptr, !.id = id]
  BY DEF Searched
<1> HIDE DEF ptr, id, f
<1>7. f \in Frames /\ f.seg = s /\ f.ptr = ptr /\ f.id = id
  BY <1>2, <1>5, <1>6 DEF Frames
<1> DEFINE h == [f EXCEPT !.at = "sender"]
           k == [f EXCEPT !.at = "shortNext"]
<1>8. /\ h \in Frames /\ h.at = "sender" /\ h.ptr = ptr
      /\ k \in Frames /\ k.at = "shortNext" /\ k.ptr = ptr /\ k.id = id /\ k.seg = s
  <2>1. "sender" \in Places \ {"violated"} /\ "shortNext" \in Places \ {"violated"}
    BY DEF Places
  <2> QED
    BY <1>7, <2>1 DEF Frames
<1> HIDE DEF h, k
<1>9. \A w : View(K, m, w) = m[w]
  BY <1>3 DEF View
<1>10. ASSUME \A p \in Party : ptr[p] # nullptr
       PROVE  ReadOK(h, ptr["send"], K, R, m, S, mi, wi, ro)
  <2> DEFINE a == ptr["send"]
             Q == R \cup {a}
  <2>1. Found(ptr["send"], R, m, S) /\ Found(ptr["recv"], R, m, S)
    BY <1>4, <1>10 DEF Party
  <2>2. Found(a, Q, m, S) /\ Found(ptr["recv"], Q, m, S)
    BY <2>1, FoundMore
  <2>3. ShortAt(h, K, Q, View(K, m, a), m, S)
    BY <1>3, <1>8, <1>9, <2>2 DEF ShortAt
  <2>4. a \in Proper(m, S)
    BY <1>2, <2>1, FoundProper
  <2> QED
    BY <1>2, <1>3, <1>8, <2>3, <2>4, ShortRead DEF ShortPlaces
<1>11. ReadOK(k, NextOf(s), K, R, m, S, mi, wi, ro)
  <2> DEFINE Q == R \cup {NextOf(s)}
  <2>1. \A p \in Party : ptr[p] = nullptr \/ Found(ptr[p], Q, m, S)
    BY <1>4, FoundMore
  <2>2. Walked(Q, S, s) /\ CountOf(s) \in Q /\ NextOf(s) \in Q
    BY <1>3, WalkedMore
  <2>3. ShortAt(k, K, Q, View(K, m, NextOf(s)), m, S)
    BY <1>3, <1>5, <1>8, <1>9, <2>1, <2>2 DEF ShortAt
  <2>4. NextOf(s) \in Proper(m, S)
    BY <1>2, <1>3, ProperWords
  <2> QED
    BY <1>2, <1>3, <1>8, <2>3, <2>4, ShortRead DEF ShortPlaces
<1> QED
  BY <1>7, <1>10, <1>11 DEF f, h, k

LEMMA ShortNextKnows ==
  ASSUME NEW f, NEW K, NEW R, NEW g, NEW m, NEW S, NEW mi, NEW wi, NEW ro,
         Closure(f, K, R, g, m, S, mi, wi, ro), f.at = "shortNext"
  PROVE  /\ g # nullptr =>
              ReadOK([f EXCEPT !.at = "shortCount", !.seg = g], CountOf(g),
                     K, R, m, S, mi, wi, ro)
         /\ Knows(ReturnFrame, K, R, g, m, S, mi, wi, ro)
<1> DEFINE h == [f EXCEPT !.at = "shortCount", !.seg = g]
           s == f.seg
<1>1. f.at \in ShortPlaces
  BY DEF ShortPlaces
<1>2. /\ GoodList(m, S) /\ m \in Memories
      /\ Extent(K, R, m, S, mi, wi) /\ ~ro /\ mi = {} /\ wi = {}
      /\ ShortAt(f, K, R, g, m, S)
      /\ f \in Frames
  BY <1>1, ShortFacts
<1>3. /\ Walked(R, S, s) /\ CountOf(s) \in R /\ s \in S /\ NextOf(s) \in R
      /\ \A p \in Party : f.ptr[p] = nullptr \/ Found(f.ptr[p], R, m, S)
      /\ \A p \in Party : f.id[p] \in Nat
      /\ DOMAIN K = {} /\ g = m[NextOf(s)]
  BY <1>2 DEF ShortAt, Walked
<1>4. ASSUME g # nullptr
      PROVE  ReadOK(h, CountOf(g), K, R, m, S, mi, wi, ro)
  <2> DEFINE Q == R \cup {CountOf(g)}
  <2>1. g \in S /\ g \in Segment /\ Walked(R, S, g)
    BY <1>2, <1>3, <1>4, WalkedNext
  <2>2. h \in Frames /\ h.at = "shortCount" /\ h.seg = g /\ h.ptr = f.ptr /\ h.id = f.id
    <3>1. "shortCount" \in Places \ {"violated"}
      BY DEF Places
    <3> QED
      BY <1>2, <2>1, <3>1 DEF Frames
  <2> HIDE DEF h
  <2>3. \A p \in Party : f.ptr[p] = nullptr \/ Found(f.ptr[p], Q, m, S)
    BY <1>3, FoundMore
  <2>4. Walked(Q, S, g)
    BY <2>1, WalkedMore
  <2>5. View(K, m, CountOf(g)) = m[CountOf(g)]
    BY <1>3 DEF View
  <2>6. ShortAt(h, K, Q, View(K, m, CountOf(g)), m, S)
    BY <1>3, <2>2, <2>3, <2>4, <2>5 DEF ShortAt
  <2>7. CountOf(g) \in Proper(m, S)
    BY <1>2, <2>1, ProperWords
  <2> QED
    BY <1>2, <1>3, <2>2, <2>6, <2>7, ShortRead DEF ShortPlaces
<1>5. Knows(ReturnFrame, K, R, g, m, S, mi, wi, ro)
  BY <1>2, <1>3, ReturnKnows, FirstFrames DEF Returned, Untouched
<1> QED
  BY <1>4, <1>5

LEMMA ShortDebitsKnows ==
  ASSUME NEW f, NEW K, NEW R, NEW g, NEW m, NEW S, NEW mi, NEW wi, NEW ro,
         Closure(f, K, R, g, m, S, mi, wi, ro), f.at = "sender"
  PROVE  /\ g > 0 =>
              WriteOK([[f EXCEPT !.at = "debited"] EXCEPT !.arg = g - 1], f.ptr["send"],
                      K, R, g, m, S, mi, wi, ro)
         /\ Knows(ReturnFrame, K, R, g, m, S, mi, wi, ro)
<1> DEFINE a == f.ptr["send"]
           h == [[f EXCEPT !.at = "debited"] EXCEPT !.arg = g - 1]
           L == LogWith(K, a, g - 1)
<1>1. f.at \in ShortPlaces
  BY DEF ShortPlaces
<1>2. /\ GoodList(m, S) /\ m \in Memories
      /\ Extent(K, R, m, S, mi, wi) /\ ~ro /\ mi = {} /\ wi = {}
      /\ ShortAt(f, K, R, g, m, S)
      /\ f \in Frames /\ g \in Int
  BY <1>1, ShortFacts
<1>3. /\ Found(a, R, m, S) /\ Found(f.ptr["recv"], R, m, S) /\ a \in R
      /\ g = m[a] /\ DOMAIN K = {}
  BY <1>2 DEF ShortAt
<1>4. ASSUME g > 0
      PROVE  WriteOK(h, a, K, R, g, m, S, mi, wi, ro)
  <2>1. h \in Frames /\ h.at = "debited" /\ h.ptr = f.ptr /\ h.arg = g - 1
    <3>1. "debited" \in Places \ {"violated"} /\ g - 1 \in Int
      BY <1>2 DEF Places
    <3> QED
      BY <1>2, <3>1 DEF Frames
  <2> HIDE DEF h
  <2>2. DOMAIN L = {a} /\ L[a] = g - 1
    BY <1>3 DEF LogWith
  <2>3. a \in WordsOf(S \cup mi)
    BY <1>2, <1>3, FoundProper DEF WordsOf
  <2>4. Extent(L, R, m, S, mi, wi)
    BY <1>2, <1>3, <2>3, WriteExtent
  <2> HIDE DEF L
  <2>5. ShortAt(h, L, R, g, m, S)
    BY <1>3, <1>4, <2>1, <2>2 DEF ShortAt
  <2>6. Knows(h, L, R, g, m, S, mi, wi, ro)
    BY <1>2, <2>1, <2>4, <2>5, ShortKnows DEF ShortPlaces
  <2> QED
    BY <1>2, <2>1, <2>3, <2>6 DEF WriteOK, L
<1>5. Knows(ReturnFrame, K, R, g, m, S, mi, wi, ro)
  BY <1>2, <1>3, ReturnKnows, FirstFrames DEF Returned, Untouched
<1> QED
  BY <1>4, <1>5

LEMMA ShortReadsRecverKnows ==
  ASSUME NEW f, NEW K, NEW R, NEW g, NEW m, NEW S, NEW mi, NEW wi, NEW ro,
         Closure(f, K, R, g, m, S, mi, wi, ro), f.at = "debited"
  PROVE  ReadOK([f EXCEPT !.at = "recver"], f.ptr["recv"], K, R, m, S, mi, wi, ro)
<1> DEFINE a == f.ptr["send"]
           b == f.ptr["recv"]
           h == [f EXCEPT !.at = "recver"]
           Q == R \cup {b}
<1>1. f.at \in ShortPlaces
  BY DEF ShortPlaces
<1>2. /\ GoodList(m, S) /\ m \in Memories
      /\ Extent(K, R, m, S, mi, wi) /\ ~ro /\ mi = {} /\ wi = {}
      /\ ShortAt(f, K, R, g, m, S)
      /\ f \in Frames
  BY <1>1, ShortFacts
<1>3. /\ Found(a, R, m, S) /\ Found(b, R, m, S) /\ a \in R
      /\ m[a] > 0 /\ DOMAIN K = {a} /\ K[a] = m[a] - 1
  BY <1>2 DEF ShortAt
<1>4. h \in Frames /\ h.at = "recver" /\ h.ptr = f.ptr
  <2>1. "recver" \in Places \ {"violated"}
    BY DEF Places
  <2> QED
    BY <1>2, <2>1 DEF Frames
<1> HIDE DEF h
<1>5. Found(a, Q, m, S) /\ Found(b, Q, m, S) /\ a \in Q /\ b \in Q
  BY <1>3, FoundMore
<1>6. ShortAt(h, K, Q, View(K, m, b), m, S)
  BY <1>3, <1>4, <1>5 DEF ShortAt
<1>7. b \in Proper(m, S) /\ (b \in DOMAIN K => b \in R)
  BY <1>2, <1>3, FoundProper
<1>8. ReadOK(h, b, K, R, m, S, mi, wi, ro)
  BY <1>2, <1>4, <1>6, <1>7, ShortRead DEF ShortPlaces
<1> QED
  BY <1>8 DEF h

LEMMA ShortCreditsKnows ==
  ASSUME NEW f, NEW K, NEW R, NEW g, NEW m, NEW S, NEW mi, NEW wi, NEW ro,
         Closure(f, K, R, g, m, S, mi, wi, ro), f.at = "recver"
  PROVE  WriteOK([ReturnFrame EXCEPT !.arg = g + 1], f.ptr["recv"],
                 K, R, g, m, S, mi, wi, ro)
<1> DEFINE a == f.ptr["send"]
           b == f.ptr["recv"]
           v == g + 1
           L == LogWith(K, b, v)
<1>1. f.at \in ShortPlaces
  BY DEF ShortPlaces
<1>2. /\ GoodList(m, S) /\ m \in Memories
      /\ Extent(K, R, m, S, mi, wi) /\ ~ro /\ mi = {} /\ wi = {}
      /\ ShortAt(f, K, R, g, m, S)
      /\ g \in Int
  BY <1>1, ShortFacts
<1>3. /\ Found(a, R, m, S) /\ Found(b, R, m, S) /\ a \in R /\ b \in R
      /\ m[a] > 0 /\ DOMAIN K = {a} /\ K[a] = m[a] - 1
      /\ g = View(K, m, b)
  BY <1>2 DEF ShortAt
<1>4. a \in Words /\ b \in Words /\ b \in WordsOf(S \cup mi)
  BY <1>2, <1>3, FoundProper DEF WordsOf
<1>5. m[a] \in Int
  BY <1>2, <1>4 DEF Memories
<1>6. v = IF a = b THEN m[a] ELSE m[b] + 1
  BY <1>3, <1>5 DEF View
<1>7. v \in Int
  BY <1>2
<1> HIDE DEF v
<1>8. DOMAIN L = {a, b} /\ L[b] = v /\ (a # b => L[a] = m[a] - 1)
  BY <1>3 DEF LogWith
<1> HIDE DEF L
<1>9. Transferred(a, b, L, R, m, S, mi, wi)
  BY <1>2, <1>3, <1>6, <1>8 DEF Transferred
<1>10. Returned(L, R, m, S, mi, wi)
  BY <1>4, <1>9 DEF Returned
<1>11. WriteOK([ReturnFrame EXCEPT !.arg = v], b, K, R, g, m, S, mi, wi, ro)
  BY <1>2, <1>3, <1>4, <1>7, <1>10, LastWrite DEF L
<1> QED
  BY <1>11 DEF v

-----------------------------------------------------------------------------
(***************************************************************************)
(* Steps of closures.  A call of a transaction leaves memory, logs and the *)
(* knowledge of all others as they are.                                    *)
(***************************************************************************)

LEMMA MemTyped ==
  ASSUME StmInv
  PROVE  Mem \in Memories /\ target \in [Tx -> Int] /\ is_read_only \in [Tx -> BOOLEAN]
<1>1. Value = Int
  BY BankAssumption
<1>2. \A w \in Words : Readable(word[w]) \in Int
  BY <1>1 DEF StmInv, TypeOK, WordRecord, Readable
<1> QED
  BY <1>1, <1>2 DEF StmInv, TypeOK, Mem, MemoryOf, Memories

LEMMA ClosureOf ==
  ASSUME BankInv, NEW t \in Tx, Ready(t)
  PROVE  Closure(frame[t], Log(t), readSet[t], target[t], Mem, store, mine[t], wishes[t],
                 is_read_only[t])
<1>1. Mem \in Memories /\ GoodBank(Mem, store) /\ target[t] \in Int /\ is_read_only[t] \in BOOLEAN
  BY MemTyped DEF BankInv
<1>2. frame[t] \in Frames
  BY DEF BankInv, FramesOK
<1>3. \A s \in mine[t] : s \in Segment /\ \A r \in store : r < s
  <2>1. mine[t] \subseteq 1..top /\ top \in 1..MaxSegments /\ MaxSegments \in Nat
    BY BankAssumption DEF BankInv, FramesOK, Segment
  <2>2. mine[t] \subseteq Segment
    BY <2>1 DEF Segment
  <2> QED
    BY <2>2 DEF BankInv, FreshSegments
<1>4. TxKnows(t)
  BY DEF BankInv, ClosuresOK, Ready
<1>5. /\ LogAfter(Log(t), call[t], frame[t].arg) = Log(t)
      /\ ReadsAfter(Log(t), readSet[t], call[t], is_read_only[t]) = readSet[t]
      /\ TargetAfter(Log(t), Mem, call[t], target[t]) = target[t]
  <2>1. call[t].op = "none"
    BY DEF Ready, NoCall
  <2> QED
    BY <2>1 DEF LogAfter, ReadsAfter, TargetAfter
<1>6. Knows(frame[t], Log(t), readSet[t], target[t], Mem, store, mine[t], wishes[t], is_read_only[t])
  BY <1>4, <1>5 DEF TxKnows, KnowsAfter
<1> QED
  BY <1>1, <1>2, <1>3, <1>6 DEF Closure

LEMMA TxFrame ==
  ASSUME NEW u \in Tx, TxKnows(u),
         UNCHANGED <<frame[u], Log(u), readSet[u], call[u], target[u], Mem, store, mine[u],
                     wishes[u], is_read_only[u]>>
  PROVE  TxKnows(u)'
BY DEF TxKnows

LEMMA OutlookFrame ==
  ASSUME UNCHANGED <<word, writtenSet, committed, store>>,
         \A u \in committed : mine'[u] = mine[u] /\ wishes'[u] = wishes[u]
  PROVE  OutlookMem' = OutlookMem /\ OutlookStore' = OutlookStore /\ Mem' = Mem
         /\ \A u \in Tx : Log(u)' = Log(u)
<1>1. UNION {mine'[u] : u \in committed} = UNION {mine[u] : u \in committed}
  OBVIOUS
<1>2. UNION {wishes'[u] : u \in committed} = UNION {wishes[u] : u \in committed}
  OBVIOUS
<1> QED
  BY <1>1, <1>2 DEF OutlookMem, MemAfter, OutlookStore, StoreAfter, Mem, MemoryOf, Log

LEMMA BatcherFrame ==
  ASSUME BatcherInv, UNCHANGED batcherVars
  PROVE  BatcherInv'
BY BatcherStepInv

\* The call of a closure that knows what it is doing keeps the invariant.
LEMMA CallStep ==
  ASSUME BankInv, NEW t \in Tx, NEW op \in {"read", "write"}, NEW w \in Words,
         NEW f \in Frames, NEW mi, NEW wi,
         StartCall(t, op, w, w), frame' = [frame EXCEPT ![t] = f],
         mine' = [mine EXCEPT ![t] = mi], wishes' = [wishes EXCEPT ![t] = wi], store' = store,
         top' \in Segment, top' >= top, mi \subseteq 1..top', wi \subseteq Segment,
         \A s \in mi : s \in mine[t] \/ s > top,
         w \in WordsOf(store \cup mi),
         KnowsAfter(f, Log(t), readSet[t], [op |-> op, next |-> w, last |-> w], target[t],
                    Mem, store, mi, wi, is_read_only[t])
  PROVE  BankInv'
<1>1. /\ StmInv /\ BatcherInv /\ ConflictFree /\ FramesOK /\ FreshSegments /\ CallsOK /\ ClosuresOK
      /\ GoodBank(Mem, store) /\ GoodBank(OutlookMem, OutlookStore)
  BY DEF BankInv
<1>2. /\ UNCHANGED <<batcherVars, word, is_read_only, readSet, writtenSet, doomed, target>>
      /\ call' = [call EXCEPT ![t] = [op |-> op, next |-> w, last |-> w]]
      /\ pc[t] = "running" /\ ~doomed[t]
  BY DEF StartCall, Ready
<1>3. StmInv' /\ BatcherInv'
  BY <1>1, <1>2, StartCallInv, BatcherFrame
<1>4. /\ call \in [Tx -> Calls] /\ frame \in [Tx -> Frames] /\ store \subseteq 1..top
      /\ mine \in [Tx -> SUBSET (1..top)] /\ wishes \in [Tx -> SUBSET Segment]
      /\ committed \subseteq Tx /\ top \in Nat /\ top' \in Nat
      /\ top \in Segment
  <2>1. top \in Nat /\ top' \in Nat
    BY <1>1 DEF FramesOK, Segment
  <2> QED
    BY <1>1, <2>1 DEF StmInv, TypeOK, FramesOK, BatcherTypeOK
<1>5. /\ frame'[t] = f /\ mine'[t] = mi /\ wishes'[t] = wi
      /\ call'[t] = [op |-> op, next |-> w, last |-> w]
      /\ \A u \in Tx \ {t} : /\ frame'[u] = frame[u] /\ mine'[u] = mine[u]
                             /\ wishes'[u] = wishes[u] /\ call'[u] = call[u]
  BY <1>2, <1>4
<1>6. t \notin committed
  BY <1>1, <1>2 DEF BatcherInv, VectorsAreThisEpoch
<1>7. /\ OutlookMem' = OutlookMem /\ OutlookStore' = OutlookStore /\ Mem' = Mem
      /\ \A u \in Tx : Log(u)' = Log(u)
  <2>1. UNCHANGED <<word, writtenSet, committed, store>>
    BY <1>2 DEF batcherVars
  <2>2. \A u \in committed : mine'[u] = mine[u] /\ wishes'[u] = wishes[u]
    BY <1>4, <1>5, <1>6
  <2> QED
    BY <2>1, <2>2, OutlookFrame
<1>8. ConflictFree'
  BY <1>1, <1>2 DEF ConflictFree, MustPrecede
<1>9. FramesOK'
  <2>1. \A n \in 1..top : n \in 1..top'
    BY <1>4
  <2>2. \A u \in Tx : mine'[u] \in SUBSET (1..top')
    BY <1>4, <1>5, <2>1
  <2>3. mine' \in [Tx -> SUBSET (1..top')]
    BY <1>4, <2>2
  <2>4. frame' \in [Tx -> Frames] /\ wishes' \in [Tx -> SUBSET Segment]
    BY <1>4
  <2> QED
    BY <1>4, <2>1, <2>3, <2>4 DEF FramesOK
<1>10. FreshSegments'
  <2>1. \A s \in Segment : s > top' => s > top
    BY <1>4 DEF Segment
  <2>2. \A s \in Segment : s > top' => Mem'[NextOf(s)] = nullptr /\ Mem'[ParityOf(s)] = 0
    BY <1>1, <1>7, <2>1 DEF FreshSegments
  <2>3. ASSUME NEW s \in mi
        PROVE  /\ Mem[NextOf(s)] = nullptr /\ Mem[ParityOf(s)] = 0
               /\ \A r \in store : r < s
               /\ \A u \in Tx \ {t} : s \notin mine[u]
    <3>1. CASE s \in mine[t]
      BY <1>1, <3>1 DEF FreshSegments
    <3>2. CASE s > top
      <4>1. s \in Segment /\ s \in Nat
        BY <1>4, BankAssumption DEF Segment
      <4>2. \A r \in 1..top : r < s
        BY <1>4, <3>2, <4>1
      <4>3. s \notin 1..top
        BY <1>4, <3>2, <4>1
      <4> QED
        BY <1>1, <1>4, <3>2, <4>1, <4>2, <4>3 DEF FreshSegments
    <3> QED
      BY <3>1, <3>2
  <2>4. ASSUME NEW u \in Tx, NEW s \in mine'[u]
        PROVE  /\ Mem[NextOf(s)] = nullptr /\ Mem[ParityOf(s)] = 0
               /\ \A r \in store : r < s
               /\ \A v \in Tx \ {u} : s \notin mine'[v]
    <3>1. CASE u = t
      BY <1>5, <2>3, <2>4, <3>1
    <3>2. CASE u # t
      <4>1. s \in mine[u]
        BY <1>5, <2>4, <3>2
      <4>2. /\ Mem[NextOf(s)] = nullptr /\ Mem[ParityOf(s)] = 0
            /\ \A r \in store : r < s
            /\ \A v \in Tx \ {u} : s \notin mine[v]
        BY <1>1, <4>1 DEF FreshSegments
      <4>3. s \notin mi
        BY <2>3, <3>2, <4>1
      <4> QED
        BY <1>5, <4>2, <4>3
    <3> QED
      BY <3>1, <3>2
  <2> QED
    BY <1>7, <2>2, <2>4 DEF FreshSegments
<1>11. CallsOK'
  <2>1. ASSUME NEW u \in Tx
        PROVE  /\ pc[u] # "running" => frame'[u] = NewFrame
               /\ pc[u] \notin {"running", "left"} => mine'[u] = {} /\ wishes'[u] = {} /\ ~doomed[u]
               /\ call'[u] # NoCall =>
                    /\ call'[u].next = call'[u].last
                    /\ call'[u].next \in WordsOf(store \cup mine'[u])
               /\ readSet[u] \subseteq Proper(Mem, store)
    <3>1. CASE u = t
      <4>1. call'[t].next = w /\ call'[t].last = w /\ mine'[t] = mi
        BY <1>5
      <4>2. readSet[t] \subseteq Proper(Mem, store)
        BY <1>1 DEF CallsOK
      <4> QED
        BY <1>2, <3>1, <4>1, <4>2
    <3>2. CASE u # t
      BY <1>1, <1>5, <3>2 DEF CallsOK
    <3> QED
      BY <3>1, <3>2
  <2> QED
    BY <1>2, <1>7, <2>1 DEF CallsOK, batcherVars
<1>12. ClosuresOK'
  <2>1. ASSUME NEW u \in Tx, ~doomed[u] /\ pc[u] # "left"
        PROVE  TxKnows(u)'
    <3>1. CASE u = t
      BY <1>2, <1>5, <1>7, <3>1 DEF TxKnows
    <3>2. CASE u # t
      BY <1>1, <1>2, <1>5, <1>7, <2>1, <3>2, TxFrame DEF ClosuresOK
    <3> QED
      BY <3>1, <3>2
  <2>2. ASSUME NEW u \in committed
        PROVE  Extent(Log(u)', readSet[u], Mem, store, mine'[u], wishes'[u])
    <3>1. u \in Tx \ {t}
      BY <1>4, <1>6
    <3>2. Extent(Log(u), readSet[u], Mem, store, mine[u], wishes[u])
      BY <1>1 DEF ClosuresOK
    <3> QED
      BY <1>5, <1>7, <3>1, <3>2
  <2> QED
    BY <1>2, <1>7, <2>1, <2>2 DEF ClosuresOK, batcherVars
<1> QED
  BY <1>1, <1>3, <1>7, <1>8, <1>9, <1>10, <1>11, <1>12 DEF BankInv

LEMMA TopTyped ==
  ASSUME BankInv
  PROVE  top \in Segment /\ top \in Nat /\ mine \in [Tx -> SUBSET (1..top)]
         /\ wishes \in [Tx -> SUBSET Segment] /\ frame \in [Tx -> Frames]
BY DEF BankInv, FramesOK, Segment

LEMMA ReadStep ==
  ASSUME BankInv, NEW t \in Tx, NEW w, NEW f, PlainRead(t, w, f),
         ReadOK(f, w, Log(t), readSet[t], Mem, store, mine[t], wishes[t], is_read_only[t])
  PROVE  BankInv'
<1> DEFINE c == [op |-> "read", next |-> w, last |-> w]
<1>1. /\ StartCall(t, "read", w, w) /\ frame' = [frame EXCEPT ![t] = f]
      /\ UNCHANGED <<store, mine, wishes, top>>
  BY DEF PlainRead, Read, Called
<1>2. /\ f \in Frames /\ w \in WordsOf(store \cup mine[t]) /\ w \in Words
      /\ Knows(f, Log(t), ReadsWith(Log(t), readSet[t], w, is_read_only[t]), View(Log(t), Mem, w),
               Mem, store, mine[t], wishes[t], is_read_only[t])
  BY DEF ReadOK, WordsOf
<1>3. KnowsAfter(f, Log(t), readSet[t], c, target[t], Mem, store, mine[t], wishes[t],
                 is_read_only[t])
  BY <1>2 DEF KnowsAfter, LogAfter, ReadsAfter, TargetAfter
<1>4. mine' = [mine EXCEPT ![t] = mine[t]] /\ wishes' = [wishes EXCEPT ![t] = wishes[t]]
  BY <1>1, TopTyped
<1>5. top' \in Segment /\ top' >= top /\ mine[t] \subseteq 1..top' /\ wishes[t] \subseteq Segment
  BY <1>1, TopTyped
<1> QED
  BY <1>1, <1>2, <1>3, <1>4, <1>5, CallStep

LEMMA WriteStepOf ==
  ASSUME BankInv, NEW t \in Tx, NEW w, NEW v, NEW f, NEW mi, NEW wi, Write(t, w, v, f),
         mine' = [mine EXCEPT ![t] = mi], wishes' = [wishes EXCEPT ![t] = wi], store' = store,
         top' \in Segment, top' >= top, mi \subseteq 1..top', wi \subseteq Segment,
         \A s \in mi : s \in mine[t] \/ s > top,
         [f EXCEPT !.arg = v].arg = v,
         WriteOK([f EXCEPT !.arg = v], w, Log(t), readSet[t], target[t], Mem, store, mi, wi,
                 is_read_only[t])
  PROVE  BankInv'
<1> DEFINE c == [op |-> "write", next |-> w, last |-> w]
           h == [f EXCEPT !.arg = v]
<1>1. StartCall(t, "write", w, w) /\ frame' = [frame EXCEPT ![t] = h]
  BY DEF Write, Called
<1> HIDE DEF h
<1>2. /\ h \in Frames /\ w \in WordsOf(store \cup mi) /\ w \in Words
      /\ Knows(h, LogWith(Log(t), w, h.arg), readSet[t], target[t],
               Mem, store, mi, wi, is_read_only[t])
  BY DEF WriteOK, WordsOf, h
<1>3. KnowsAfter(h, Log(t), readSet[t], c, target[t], Mem, store, mi, wi, is_read_only[t])
  BY <1>2 DEF KnowsAfter, LogAfter, ReadsAfter, TargetAfter
<1> QED
  BY <1>1, <1>2, <1>3, CallStep

LEMMA WriteStep ==
  ASSUME BankInv, NEW t \in Tx, NEW w, NEW v, NEW f, PlainWrite(t, w, v, f),
         [f EXCEPT !.arg = v].arg = v,
         WriteOK([f EXCEPT !.arg = v], w, Log(t), readSet[t], target[t], Mem, store, mine[t],
                 wishes[t], is_read_only[t])
  PROVE  BankInv'
<1>1. Write(t, w, v, f) /\ UNCHANGED <<store, mine, wishes, top>>
  BY DEF PlainWrite
<1>2. mine' = [mine EXCEPT ![t] = mine[t]] /\ wishes' = [wishes EXCEPT ![t] = wishes[t]]
  BY <1>1, TopTyped
<1>3. top' \in Segment /\ top' >= top /\ mine[t] \subseteq 1..top' /\ wishes[t] \subseteq Segment
  BY <1>1, TopTyped
<1> QED
  BY <1>1, <1>2, <1>3, WriteStepOf

\* Steps that only move frames, and flags of transactions that do not run.
LEMMA FrameStep ==
  ASSUME BankInv, StmInv', BatcherInv',
         UNCHANGED <<word, readSet, writtenSet, doomed, call, target, committed, store, mine,
                     wishes, top>>,
         frame' \in [Tx -> Frames],
         \A u \in Tx : /\ pc'[u] # "running" => frame'[u] = NewFrame
                       /\ pc'[u] \notin {"running", "left"} => pc[u] \notin {"running", "left"}
                       /\ ~doomed[u] /\ pc'[u] # "left" => TxKnows(u)'
  PROVE  BankInv'
<1>1. /\ StmInv /\ BatcherInv /\ ConflictFree /\ FramesOK /\ FreshSegments /\ CallsOK /\ ClosuresOK
      /\ GoodBank(Mem, store) /\ GoodBank(OutlookMem, OutlookStore)
  BY DEF BankInv
<1>2. /\ OutlookMem' = OutlookMem /\ OutlookStore' = OutlookStore /\ Mem' = Mem
      /\ \A u \in Tx : Log(u)' = Log(u)
  BY OutlookFrame
<1>3. ConflictFree'
  BY <1>1 DEF ConflictFree, MustPrecede
<1>4. FramesOK'
  BY <1>1 DEF FramesOK
<1>5. FreshSegments'
  BY <1>1, <1>2 DEF FreshSegments
<1>6. CallsOK'
  BY <1>1, <1>2 DEF CallsOK
<1>7. ClosuresOK'
  <2>1. committed \subseteq Tx
    BY <1>1 DEF BatcherInv, BatcherTypeOK
  <2>2. ASSUME NEW u \in committed
        PROVE  Extent(Log(u)', readSet[u], Mem, store, mine[u], wishes[u])
    BY <1>1, <1>2, <2>1, <2>2 DEF ClosuresOK
  <2> QED
    BY <1>2, <2>2 DEF ClosuresOK
<1> QED
  BY <1>1, <1>2, <1>3, <1>4, <1>5, <1>6, <1>7 DEF BankInv

LEMMA ReturnStep ==
  ASSUME BankInv, NEW t \in Tx, Return(t, "returned"),
         Knows(ReturnFrame, Log(t), readSet[t], target[t], Mem, store, mine[t], wishes[t],
               is_read_only[t])
  PROVE  BankInv'
<1>1. /\ StmInv /\ BatcherInv /\ CallsOK /\ ClosuresOK
  BY DEF BankInv
<1>2. /\ pc[t] = "running" /\ call[t] = NoCall /\ frame' = [frame EXCEPT ![t] = ReturnFrame]
      /\ UNCHANGED <<batcherVars, word, is_read_only, readSet, writtenSet, doomed, call, target,
                     store, mine, wishes, top>>
  BY DEF Return, Called, Ready, ReturnFrame, vars, stmVars
<1>3. /\ frame' \in [Tx -> Frames] /\ frame'[t] = ReturnFrame
      /\ \A u \in Tx \ {t} : frame'[u] = frame[u]
  BY <1>2, TopTyped, FirstFrames
<1>4. BatcherInv'
  BY <1>1, <1>2, BatcherFrame
<1>5. StmInv'
  <2>1. UNCHANGED vars
    BY <1>2 DEF vars, stmVars
  <2> QED
    BY <1>1, <1>4, <2>1, StmStepInv
<1>6. Mem' = Mem /\ \A u \in Tx : Log(u)' = Log(u)
  <2>1. UNCHANGED <<word, writtenSet, committed, store>>
    BY <1>2 DEF batcherVars
  <2> QED
    BY <1>2, <2>1, OutlookFrame
<1>7. TxKnows(t)'
  <2>1. call[t].op = "none"
    BY <1>2 DEF NoCall
  <2>2. KnowsAfter(ReturnFrame, Log(t), readSet[t], call[t], target[t], Mem, store, mine[t],
                   wishes[t], is_read_only[t])
    BY <2>1 DEF KnowsAfter, LogAfter, ReadsAfter, TargetAfter
  <2> QED
    BY <1>2, <1>3, <1>6, <2>2 DEF TxKnows
<1>8. ASSUME NEW u \in Tx
      PROVE  /\ pc'[u] # "running" => frame'[u] = NewFrame
             /\ pc'[u] \notin {"running", "left"} => pc[u] \notin {"running", "left"}
             /\ ~doomed[u] /\ pc'[u] # "left" => TxKnows(u)'
  <2>1. pc' = pc
    BY <1>2 DEF batcherVars
  <2>2. CASE u = t
    BY <1>2, <1>7, <2>1, <2>2
  <2>3. CASE u # t
    <3>1. frame'[u] = frame[u]
      BY <1>3, <2>3
    <3>2. ~doomed[u] /\ pc'[u] # "left" => TxKnows(u)'
      BY <1>1, <1>2, <1>6, <2>1, <3>1, TxFrame DEF ClosuresOK
    <3> QED
      BY <1>1, <2>1, <3>1, <3>2 DEF CallsOK
  <2> QED
    BY <2>2, <2>3
<1> QED
  BY <1>2, <1>3, <1>4, <1>5, <1>8, FrameStep DEF batcherVars

LEMMA BeginFacts ==
  ASSUME BatcherInv, NEW t \in Tx, Wait(t) \/ \E ro \in BOOLEAN : Begin(t, ro)
  PROVE  /\ pc[t] \in {"idle", "asleep", "woken"} /\ pc'[t] # "left"
         /\ committed' = committed /\ UNCHANGED <<word, readSet, writtenSet, doomed, call, target>>
         /\ \A u \in Tx \ {t} : pc'[u] = pc[u]
<1>1. pc \in [Tx -> PC]
  BY DEF BatcherInv, BatcherTypeOK
<1>2. CASE Wait(t)
  BY <1>1, <1>2 DEF Wait, SpuriousWake, TestAwake, stmVars
<1>3. CASE \E ro \in BOOLEAN : Begin(t, ro)
  BY <1>1, <1>3 DEF Begin, Enter, EnterFirst, EnterBlocked
<1> QED
  BY <1>2, <1>3

LEMMA BeginStep ==
  ASSUME BankInv, NEW t \in Tx, BankBegin(t)
  PROVE  BankInv'
<1>1. /\ StmInv /\ BatcherInv /\ FramesOK /\ CallsOK /\ ClosuresOK
  BY DEF BankInv
<1>2. /\ Wait(t) \/ \E ro \in BOOLEAN : Begin(t, ro)
      /\ UNCHANGED <<store, mine, wishes, top, frame>>
  BY DEF BankBegin
<1>3. /\ pc[t] \in {"idle", "asleep", "woken"} /\ pc'[t] # "left"
      /\ committed' = committed /\ UNCHANGED <<word, readSet, writtenSet, doomed, call, target>>
      /\ \A u \in Tx \ {t} : pc'[u] = pc[u]
  BY <1>1, <1>2, BeginFacts
<1>4. Next
  BY <1>2 DEF Next
<1>5. BatcherInv' /\ StmInv'
  BY <1>1, <1>4, StmBatcherStep, BatcherStepInv, StmStepInv
<1>6. Mem' = Mem /\ \A u \in Tx : Log(u)' = Log(u)
  BY <1>2, <1>3, OutlookFrame
<1>7. \A u \in Tx \ {t} : is_read_only'[u] = is_read_only[u]
  BY <1>1, <1>2 DEF Wait, Begin, stmVars, StmInv, TypeOK
<1>8. TxKnows(t)'
  <2>1. /\ frame[t] = NewFrame /\ mine[t] = {} /\ wishes[t] = {}
        /\ call[t].op = "none"
        /\ readSet[t] = {} /\ writtenSet[t] = {}
    <3>1. frame[t] = NewFrame /\ mine[t] = {} /\ wishes[t] = {}
      BY <1>1, <1>3 DEF CallsOK
    <3>2. call[t] = NoCall /\ readSet[t] \cup writtenSet[t] = {}
      BY <1>1, <1>3 DEF StmInv, AccessDiscipline
    <3>3. NoCall.op = "none"
      BY DEF NoCall
    <3> QED
      BY <3>1, <3>2, <3>3
  <2>2. DOMAIN Log(t) = {}
    BY <2>1 DEF Log
  <2>3. NewFrame.at = "begin"
    BY DEF NewFrame
  <2>4. \A ro, g : Knows(NewFrame, Log(t), {}, g, Mem, store, {}, {}, ro)
    <3>1. Extent(Log(t), {}, Mem, store, {}, {})
      BY <2>2 DEF Extent
    <3> QED
      BY <2>2, <2>3, <3>1
      DEF Knows, Untouched, LongPlaces, ShortPlaces, AllocAt, ShortAt
  <2>5. \A ro : KnowsAfter(NewFrame, Log(t), {}, call[t], target[t], Mem, store, {}, {}, ro)
    BY <2>1, <2>4 DEF KnowsAfter, LogAfter, ReadsAfter
  <2> QED
    BY <1>2, <1>3, <1>6, <2>1, <2>5 DEF TxKnows
<1>9. ASSUME NEW u \in Tx
      PROVE  /\ pc'[u] # "running" => frame'[u] = NewFrame
             /\ pc'[u] \notin {"running", "left"} => pc[u] \notin {"running", "left"}
             /\ ~doomed[u] /\ pc'[u] # "left" => TxKnows(u)'
  <2>1. CASE u = t
    BY <1>1, <1>2, <1>3, <1>8, <2>1 DEF CallsOK
  <2>2. CASE u # t
    <3>1. pc'[u] = pc[u] /\ is_read_only'[u] = is_read_only[u]
      BY <1>3, <1>7, <2>2
    <3>2. ~doomed[u] /\ pc'[u] # "left" => TxKnows(u)'
      BY <1>1, <1>2, <1>3, <1>6, <3>1, TxFrame DEF ClosuresOK
    <3> QED
      BY <1>1, <1>2, <3>1, <3>2 DEF CallsOK
  <2> QED
    BY <2>1, <2>2
<1> QED
  BY <1>1, <1>2, <1>3, <1>5, <1>9, FrameStep DEF FramesOK

LEMMA LongStep ==
  ASSUME BankInv, NEW t \in Tx, LongTx(t)
  PROVE  BankInv'
<1> DEFINE f == frame[t]
           g == target[t]
           K == Log(t)
           R == readSet[t]
           mi == mine[t]
           wi == wishes[t]
           ro == is_read_only[t]
<1>1. Ready(t)
  BY DEF LongTx, LongBegins, LongCount, LongSum, LongAccount, LongNext, After
<1>2. Closure(f, K, R, g, Mem, store, mi, wi, ro)
  BY <1>1, ClosureOf
<1>3. f \in Frames /\ g \in Int
  BY <1>2 DEF Closure
<1>4. f.i \in Int /\ f.n \in Int
  BY <1>3 DEF Frames
<1>5. CASE LongBegins(t)
  BY <1>2, <1>5, LongBeginsKnows, ReadStep DEF LongBegins, After
<1>6. CASE LongCount(t)
  BY <1>2, <1>6, LongCountKnows, ReadStep DEF LongCount, After
<1>7. CASE LongSum(t)
  <2> DEFINE h == [f EXCEPT !.sum = @ + g]
  <2>1. /\ h.i < h.n
        /\ ReadOK([h EXCEPT !.at = "longAccount", !.i = @ + 1], Account(h.seg, h.i),
                  K, R, Mem, store, mi, wi, ro)
    BY <1>2, <1>7, LongSumKnows DEF LongSum, After
  <2>2. h.i = f.i /\ h.n = f.n
    BY <1>3 DEF Frames
  <2>3. ~(h.i >= h.n)
    BY <1>4, <2>1, <2>2
  <2>4. PlainRead(t, Account(h.seg, h.i), [h EXCEPT !.at = "longAccount", !.i = @ + 1])
    BY <1>7, <2>3 DEF LongSum
  <2> QED
    BY <2>1, <2>4, ReadStep
<1>8. CASE LongAccount(t)
  <2> DEFINE h == [f EXCEPT !.sum = @ + g]
  <2>1. /\ g >= 0
        /\ h.i < h.n => ReadOK([h EXCEPT !.i = @ + 1], Account(h.seg, h.i),
                               K, R, Mem, store, mi, wi, ro)
        /\ h.i >= h.n => ReadOK([h EXCEPT !.at = "longNext"], NextOf(h.seg),
                                K, R, Mem, store, mi, wi, ro)
    BY <1>2, <1>8, LongAccountKnows DEF LongAccount, After
  <2>2. \/ h.i < h.n /\ PlainRead(t, Account(h.seg, h.i), [h EXCEPT !.i = @ + 1])
        \/ h.i >= h.n /\ PlainRead(t, NextOf(h.seg), [h EXCEPT !.at = "longNext"])
    <3>1. ~(g < 0)
      BY <1>3, <2>1
    <3> QED
      BY <1>8, <3>1 DEF LongAccount
  <2> QED
    BY <2>1, <2>2, ReadStep
<1>9. CASE LongNext(t)
  <2>1. /\ g # nullptr =>
             ReadOK([f EXCEPT !.at = "longCount", !.seg = g], CountOf(g),
                    K, R, Mem, store, mi, wi, ro)
        /\ g = nullptr =>
             /\ f.sum = init_balance * f.count
             /\ Knows(ReturnFrame, K, R, g, Mem, store, mi, wi, ro)
    BY <1>2, <1>9, LongNextKnows DEF LongNext, After
  <2>2. CASE g # nullptr
    BY <1>9, <2>1, <2>2, ReadStep DEF LongNext
  <2>3. CASE g = nullptr
    <3>1. Return(t, "returned")
      BY <1>9, <2>1, <2>3 DEF LongNext
    <3> QED
      BY <2>1, <2>3, <3>1, ReturnStep
  <2> QED
    BY <2>2, <2>3
<1> QED
  BY <1>5, <1>6, <1>7, <1>8, <1>9 DEF LongTx

LEMMA AllocReadStep ==
  ASSUME BankInv, NEW t \in Tx,
         \/ AllocBegins(t) \/ AllocCount(t) \/ AllocNext(t) \/ DestroyAccount(t)
         \/ DestroyReadsAccount(t) \/ DestroyReadsParity(t)
  PROVE  BankInv'
<1> DEFINE f == frame[t]
           g == target[t]
           K == Log(t)
           R == readSet[t]
           mi == mine[t]
           wi == wishes[t]
           ro == is_read_only[t]
<1>1. Ready(t)
  BY DEF AllocBegins, AllocCount, AllocNext, DestroyAccount, DestroyReadsAccount,
         DestroyReadsParity, After
<1>2. Closure(f, K, R, g, Mem, store, mi, wi, ro)
  BY <1>1, ClosureOf
<1>3. CASE AllocBegins(t)
  BY <1>2, <1>3, AllocBeginsKnows, ReadStep DEF AllocBegins, After
<1>4. CASE AllocCount(t)
  BY <1>2, <1>4, AllocCountKnows, ReadStep DEF AllocCount, After
<1>5. CASE AllocNext(t)
  BY <1>2, <1>5, AllocNextKnows, ReadStep DEF AllocNext, After
<1>6. CASE DestroyAccount(t)
  BY <1>2, <1>6, DestroyAccountKnows, ReadStep DEF DestroyAccount, After
<1>7. CASE DestroyReadsAccount(t)
  BY <1>2, <1>7, DestroyReadsAccountKnows, ReadStep DEF DestroyReadsAccount, After
<1>8. CASE DestroyReadsParity(t)
  BY <1>2, <1>8, DestroyReadsParityKnows, ReadStep DEF DestroyReadsParity, After
<1> QED
  BY <1>3, <1>4, <1>5, <1>6, <1>7, <1>8

\* Writing the last value of a frame.
LEMMA ArgSet ==
  ASSUME NEW f \in Frames, NEW v
  PROVE  [f EXCEPT !.arg = v].arg = v
BY DEF Frames

LEMMA AllocWriteStep ==
  ASSUME BankInv, NEW t \in Tx,
         \/ DestroyLowersCount(t) \/ DestroyCorrectsParity(t) \/ DestroyMovesParity(t)
         \/ FillAccount(t) \/ FillRaisesCount(t) \/ AddCount(t) \/ AddAccount(t)
  PROVE  BankInv'
<1> DEFINE f == frame[t]
           g == target[t]
           K == Log(t)
           R == readSet[t]
           mi == mine[t]
           wi == wishes[t]
           ro == is_read_only[t]
<1>1. Ready(t)
  BY DEF DestroyLowersCount, DestroyCorrectsParity, DestroyMovesParity, FillAccount,
         FillRaisesCount, AddCount, AddAccount, After
<1>2. Closure(f, K, R, g, Mem, store, mi, wi, ro)
  BY <1>1, ClosureOf
<1>3. f \in Frames /\ g \in Int
  BY <1>2 DEF Closure
<1>4. CASE DestroyLowersCount(t)
  <2> DEFINE h == [f EXCEPT !.sum = @ + g]
  <2>1. /\ h.n > 0 => WriteOK([[h EXCEPT !.at = "lowered"] EXCEPT !.arg = h.n], CountOf(h.seg),
                              K, R, g, Mem, store, mi, wi, ro)
        /\ h.n = 0 => ReadOK([h EXCEPT !.at = "unlink"], NextOf(h.prev),
                             K, R, Mem, store, mi, wi, ro)
    BY <1>2, <1>4, DestroyLowersCountKnows DEF DestroyLowersCount, After
  <2>2. [[h EXCEPT !.at = "lowered"] EXCEPT !.arg = h.n].arg = h.n
    BY <1>3 DEF Frames
  <2>3. \/ h.n > 0 /\ PlainWrite(t, CountOf(h.seg), h.n, [h EXCEPT !.at = "lowered"])
        \/ h.n = 0 /\ PlainRead(t, NextOf(h.prev), [h EXCEPT !.at = "unlink"])
    BY <1>4 DEF DestroyLowersCount
  <2>4. CASE h.n > 0 /\ PlainWrite(t, CountOf(h.seg), h.n, [h EXCEPT !.at = "lowered"])
    BY <2>1, <2>2, <2>4, WriteStep
  <2>5. CASE h.n = 0 /\ PlainRead(t, NextOf(h.prev), [h EXCEPT !.at = "unlink"])
    BY <2>1, <2>5, ReadStep
  <2> QED
    BY <2>3, <2>4, <2>5
<1>5. CASE DestroyCorrectsParity(t)
  <2>1. WriteOK([ReturnFrame EXCEPT !.arg = f.sum], ParityOf(f.seg),
                K, R, g, Mem, store, mi, wi, ro)
    BY <1>2, <1>5, DestroyCorrectsParityKnows DEF DestroyCorrectsParity, After
  <2>2. PlainWrite(t, ParityOf(f.seg), f.sum, ReturnFrame)
    BY <1>5 DEF DestroyCorrectsParity, ReturnFrame
  <2> QED
    BY <2>1, <2>2, WriteStep, ArgSet, FirstFrames
<1>6. CASE DestroyMovesParity(t)
  <2>1. WriteOK([ReturnFrame EXCEPT !.arg = g + f.sum], ParityOf(f.prev),
                K, R, g, Mem, store, mi, wi, ro)
    BY <1>2, <1>6, DestroyMovesParityKnows DEF DestroyMovesParity, After
  <2>2. PlainWrite(t, ParityOf(f.prev), g + f.sum, ReturnFrame)
    BY <1>6 DEF DestroyMovesParity, ReturnFrame
  <2> QED
    BY <2>1, <2>2, WriteStep, ArgSet, FirstFrames
<1>7. CASE FillAccount(t)
  <2>1. WriteOK([[f EXCEPT !.at = "filled"] EXCEPT !.arg = init_balance], Account(f.seg, f.n),
                K, R, g, Mem, store, mi, wi, ro)
    BY <1>2, <1>7, FillAccountKnows DEF FillAccount, After
  <2>2. PlainWrite(t, Account(f.seg, f.n), init_balance, [f EXCEPT !.at = "filled"])
    BY <1>7 DEF FillAccount
  <2>3. [[f EXCEPT !.at = "filled"] EXCEPT !.arg = init_balance].arg = init_balance
    BY <1>3 DEF Frames
  <2> QED
    BY <2>1, <2>2, <2>3, WriteStep
<1>8. CASE FillRaisesCount(t)
  <2>1. WriteOK([ReturnFrame EXCEPT !.arg = f.n + 1], CountOf(f.seg),
                K, R, g, Mem, store, mi, wi, ro)
    BY <1>2, <1>8, FillRaisesCountKnows DEF FillRaisesCount, After
  <2>2. PlainWrite(t, CountOf(f.seg), f.n + 1, ReturnFrame)
    BY <1>8 DEF FillRaisesCount, ReturnFrame
  <2> QED
    BY <2>1, <2>2, WriteStep, ArgSet, FirstFrames
<1>9. CASE AddCount(t)
  <2>1. WriteOK([[f EXCEPT !.at = "counted"] EXCEPT !.arg = 1], CountOf(f.seg),
                K, R, g, Mem, store, mi, wi, ro)
    BY <1>2, <1>9, AddCountKnows DEF AddCount, After
  <2>2. PlainWrite(t, CountOf(f.seg), 1, [f EXCEPT !.at = "counted"])
    BY <1>9 DEF AddCount
  <2>3. [[f EXCEPT !.at = "counted"] EXCEPT !.arg = 1].arg = 1
    BY <1>3 DEF Frames
  <2> QED
    BY <2>1, <2>2, <2>3, WriteStep
<1>10. CASE AddAccount(t)
  <2>1. WriteOK([ReturnFrame EXCEPT !.arg = init_balance], Account(f.seg, 0),
                K, R, g, Mem, store, mi, wi, ro)
    BY <1>2, <1>10, AddAccountKnows DEF AddAccount, After
  <2>2. PlainWrite(t, Account(f.seg, 0), init_balance, ReturnFrame)
    BY <1>10 DEF AddAccount, ReturnFrame
  <2> QED
    BY <2>1, <2>2, WriteStep, ArgSet, FirstFrames
<1> QED
  BY <1>4, <1>5, <1>6, <1>7, <1>8, <1>9, <1>10

\* tm_free before the pointer is cleared.
LEMMA UnlinkStep ==
  ASSUME BankInv, NEW t \in Tx, DestroyUnlinks(t)
  PROVE  BankInv'
<1> DEFINE f == frame[t]
           g == target[t]
           wi == wishes[t] \cup {g}
<1>1. /\ After(t, "unlink") /\ TmFree(t, g)
      /\ Write(t, NextOf(f.prev), nullptr, [f EXCEPT !.at = "unlinked"])
      /\ top' = top
  BY DEF DestroyUnlinks, PointerAfterFree
<1>2. Closure(f, Log(t), readSet[t], g, Mem, store, mine[t], wishes[t], is_read_only[t])
  BY <1>1, ClosureOf DEF After
<1>3. /\ g \in Segment
      /\ WriteOK([[f EXCEPT !.at = "unlinked"] EXCEPT !.arg = nullptr], NextOf(f.prev),
                 Log(t), readSet[t], g, Mem, store, mine[t], wi, is_read_only[t])
  BY <1>1, <1>2, DestroyUnlinksKnows DEF After
<1>4. /\ wishes' = [wishes EXCEPT ![t] = wi] /\ mine' = mine /\ store' = store
  BY <1>1 DEF TmFree, Store!Free
<1>5. [[f EXCEPT !.at = "unlinked"] EXCEPT !.arg = nullptr].arg = nullptr
  BY <1>2 DEF Closure, Frames
<1>6. /\ mine' = [mine EXCEPT ![t] = mine[t]] /\ wi \subseteq Segment
      /\ top' \in Segment /\ top' >= top /\ mine[t] \subseteq 1..top'
  BY <1>1, <1>3, <1>4, TopTyped
<1> HIDE DEF wi
<1> QED
  BY <1>1, <1>3, <1>4, <1>5, <1>6, WriteStepOf

\* tm_alloc and the pointer to the new segment.
LEMMA AddStep ==
  ASSUME BankInv, NEW t \in Tx, AddSegment(t)
  PROVE  BankInv'
<1> DEFINE f == frame[t]
           s == top + 1
           mi == mine[t] \cup {s}
           h == [f EXCEPT !.at = "linked", !.prev = f.seg, !.seg = s]
<1>1. /\ After(t, "allocNext") /\ target[t] = nullptr /\ f.n >= nbaccounts
      /\ s \in Segment /\ TmAlloc(t, s)
      /\ Write(t, NextOf(f.seg), s, h)
  BY DEF AddSegment
<1>2. Closure(f, Log(t), readSet[t], target[t], Mem, store, mine[t], wishes[t], is_read_only[t])
  BY <1>1, ClosureOf DEF After
<1>3. WriteOK([h EXCEPT !.arg = s], NextOf(f.seg), Log(t), readSet[t], target[t], Mem, store, mi,
              wishes[t], is_read_only[t])
  BY <1>1, <1>2, AddSegmentKnows DEF After
<1>4. mine' = [mine EXCEPT ![t] = mi] /\ wishes' = wishes /\ store' = store /\ top' = s
  BY <1>1 DEF TmAlloc, Store!Alloc
<1>5. [h EXCEPT !.arg = s].arg = s
  BY <1>2 DEF Closure, Frames
<1>6. /\ top \in Nat /\ s = top + 1 /\ top' = s
      /\ mine[t] \subseteq 1..top
      /\ wishes' = [wishes EXCEPT ![t] = wishes[t]] /\ wishes[t] \subseteq Segment
  BY <1>4, TopTyped
<1>7. mi \subseteq 1..top' /\ top' >= top /\ s > top
  BY <1>6
<1>8. \A x \in mi : x \in mine[t] \/ x > top
  BY <1>7
<1>9. top' \in Segment
  BY <1>1, <1>4
<1>10. /\ Write(t, NextOf(f.seg), s, h)
       /\ mine' = [mine EXCEPT ![t] = mi] /\ wishes' = [wishes EXCEPT ![t] = wishes[t]]
       /\ store' = store /\ wishes[t] \subseteq Segment /\ top' >= top /\ mi \subseteq 1..top'
  BY <1>1, <1>4, <1>6, <1>7
<1> HIDE DEF mi, s, h, f
<1> QED
  BY <1>3, <1>5, <1>8, <1>9, <1>10, WriteStepOf

LEMMA ShortStep ==
  ASSUME BankInv, NEW t \in Tx, ShortTx(t)
  PROVE  BankInv'
<1> DEFINE f == frame[t]
           g == target[t]
           K == Log(t)
           R == readSet[t]
           mi == mine[t]
           wi == wishes[t]
           ro == is_read_only[t]
<1>1. Ready(t)
  BY DEF ShortTx, ShortBegins, ShortCount, ShortNext, ShortDebits, ShortReadsRecver,
         ShortCredits, After
<1>2. Closure(f, K, R, g, Mem, store, mi, wi, ro)
  BY <1>1, ClosureOf
<1>3. f \in Frames /\ g \in Int
  BY <1>2 DEF Closure
<1>4. ASSUME NEW a \in AccountIds, NEW b \in AccountIds, ShortBegins(t, a, b)
      PROVE  BankInv'
  <2> DEFINE id == [p \in Party |-> IF p = "send" THEN a ELSE b]
  <2>1. a \in Nat /\ b \in Nat
    BY BankAssumption
  <2>2. id \in [Party -> Nat]
    BY <2>1
  <2>3. PlainRead(t, CountOf(1), [f EXCEPT !.at = "shortCount", !.id = id])
    BY <1>4 DEF ShortBegins
  <2>4. f.at = "begin" /\ ~ro
    BY <1>4 DEF ShortBegins, After
  <2> HIDE DEF id
  <2>5. ReadOK([f EXCEPT !.at = "shortCount", !.id = id], CountOf(1),
               K, R, Mem, store, mi, wi, ro)
    BY <1>2, <2>2, <2>4, ShortBeginsKnows
  <2> QED
    BY <2>3, <2>5, ReadStep
<1>5. CASE ShortCount(t)
  <2> DEFINE h == Searched(f, g)
  <2>1. /\ (\A p \in Party : h.ptr[p] # nullptr) =>
             ReadOK([h EXCEPT !.at = "sender"], h.ptr["send"], K, R, Mem, store, mi, wi, ro)
        /\ (\E p \in Party : h.ptr[p] = nullptr) =>
             ReadOK([h EXCEPT !.at = "shortNext"], NextOf(h.seg), K, R, Mem, store, mi, wi, ro)
    BY <1>2, <1>5, ShortCountKnows DEF ShortCount, After
  <2>2. \/ /\ \A p \in Party : h.ptr[p] # nullptr
           /\ PlainRead(t, h.ptr["send"], [h EXCEPT !.at = "sender"])
        \/ /\ \E p \in Party : h.ptr[p] = nullptr
           /\ PlainRead(t, NextOf(h.seg), [h EXCEPT !.at = "shortNext"])
    BY <1>5 DEF ShortCount
  <2> HIDE DEF h
  <2> QED
    BY <2>1, <2>2, ReadStep
<1>6. CASE ShortNext(t)
  <2>1. /\ g # nullptr =>
             ReadOK([f EXCEPT !.at = "shortCount", !.seg = g], CountOf(g),
                    K, R, Mem, store, mi, wi, ro)
        /\ Knows(ReturnFrame, K, R, g, Mem, store, mi, wi, ro)
    BY <1>2, <1>6, ShortNextKnows DEF ShortNext, After
  <2> QED
    BY <1>6, <2>1, ReadStep, ReturnStep DEF ShortNext
<1>7. CASE ShortDebits(t)
  <2>1. /\ g > 0 => WriteOK([[f EXCEPT !.at = "debited"] EXCEPT !.arg = g - 1], f.ptr["send"],
                            K, R, g, Mem, store, mi, wi, ro)
        /\ Knows(ReturnFrame, K, R, g, Mem, store, mi, wi, ro)
    BY <1>2, <1>7, ShortDebitsKnows DEF ShortDebits, After
  <2>2. [[f EXCEPT !.at = "debited"] EXCEPT !.arg = g - 1].arg = g - 1
    BY <1>3 DEF Frames
  <2>3. \/ g > 0 /\ PlainWrite(t, f.ptr["send"], g - 1, [f EXCEPT !.at = "debited"])
        \/ Return(t, "returned")
    BY <1>7 DEF ShortDebits
  <2>4. CASE g > 0 /\ PlainWrite(t, f.ptr["send"], g - 1, [f EXCEPT !.at = "debited"])
    BY <2>1, <2>2, <2>4, WriteStep
  <2>5. CASE Return(t, "returned")
    BY <2>1, <2>5, ReturnStep
  <2> QED
    BY <2>3, <2>4, <2>5
<1>8. CASE ShortReadsRecver(t)
  BY <1>2, <1>8, ShortReadsRecverKnows, ReadStep DEF ShortReadsRecver, After
<1>9. CASE ShortCredits(t)
  <2>1. WriteOK([ReturnFrame EXCEPT !.arg = g + 1], f.ptr["recv"],
                K, R, g, Mem, store, mi, wi, ro)
    BY <1>2, <1>9, ShortCreditsKnows DEF ShortCredits, After
  <2>2. PlainWrite(t, f.ptr["recv"], g + 1, ReturnFrame)
    BY <1>9 DEF ShortCredits, ReturnFrame
  <2> QED
    BY <2>1, <2>2, WriteStep, ArgSet, FirstFrames
<1> QED
  BY <1>4, <1>5, <1>6, <1>7, <1>8, <1>9 DEF ShortTx

-----------------------------------------------------------------------------
(***************************************************************************)
(* The accesses.  What was known of the call is now known without it.      *)
(***************************************************************************)

\* What the access of a transaction leaves of everybody else.
OthersKept(t) ==
  \A u \in Tx \ {t} :
    /\ Log(u)' = Log(u) /\ readSet'[u] = readSet[u] /\ writtenSet'[u] = writtenSet[u]
    /\ target'[u] = target[u] /\ doomed'[u] = doomed[u]

LEMMA AccessStep ==
  ASSUME BankInv, NEW t \in Tx, pc[t] = "running", StmInv', BatcherInv',
         UNCHANGED <<batcherVars, is_read_only, store, mine, wishes, top, frame>>,
         Mem' = Mem, call' = [call EXCEPT ![t] = NoCall], OthersKept(t),
         ConflictFree', readSet'[t] \subseteq Proper(Mem, store),
         ~doomed'[t] => Knows(frame[t], Log(t)', readSet'[t], target'[t], Mem, store, mine[t],
                              wishes[t], is_read_only[t])
  PROVE  BankInv'
<1>1. /\ StmInv /\ BatcherInv /\ ConflictFree /\ FramesOK /\ FreshSegments /\ CallsOK /\ ClosuresOK
      /\ GoodBank(Mem, store) /\ GoodBank(OutlookMem, OutlookStore)
  BY DEF BankInv
<1>2. /\ t \notin committed /\ committed \subseteq Tx /\ committed' = committed /\ pc' = pc
  BY <1>1 DEF BatcherInv, VectorsAreThisEpoch, BatcherTypeOK, batcherVars
<1>3. /\ call'[t] = NoCall
      /\ \A u \in Tx \ {t} : call'[u] = call[u]
  BY <1>1 DEF StmInv, TypeOK
<1>4. \A u \in committed : u \in Tx \ {t} /\ writtenSet'[u] = writtenSet[u] /\ Log(u)' = Log(u)
  BY <1>2 DEF OthersKept
<1>5. OutlookMem' = OutlookMem
  <2>1. ASSUME NEW w \in Words
        PROVE  (IF \E u \in committed : w \in writtenSet'[u]
                THEN Writable(word'[w]) ELSE Readable(word'[w])) =
               (IF \E u \in committed : w \in writtenSet[u]
                THEN Writable(word[w]) ELSE Readable(word[w]))
    <3>1. CASE \E u \in committed : w \in writtenSet[u]
      <4>1. PICK u \in committed : w \in writtenSet[u]
        BY <3>1
      <4>2. w \in writtenSet'[u] /\ Log(u)' = Log(u)
        BY <1>4, <4>1
      <4>3. Log(u)[w] = Writable(word[w]) /\ Log(u)'[w] = Writable(word'[w])
        BY <4>1, <4>2 DEF Log
      <4> QED
        BY <4>1, <4>2, <4>3
    <3>2. CASE ~\E u \in committed : w \in writtenSet[u]
      <4>1. ~\E u \in committed : w \in writtenSet'[u]
        BY <1>4, <3>2
      <4>2. Mem[w] = Readable(word[w]) /\ Mem'[w] = Readable(word'[w])
        BY DEF Mem, MemoryOf
      <4> QED
        BY <3>2, <4>1, <4>2
    <3> QED
      BY <3>1, <3>2
  <2> QED
    BY <1>2, <2>1 DEF OutlookMem, MemAfter
<1>6. OutlookStore' = OutlookStore
  BY <1>2 DEF OutlookStore, StoreAfter
<1>7. FramesOK' /\ FreshSegments'
  BY <1>1 DEF FramesOK, FreshSegments
<1>8. CallsOK'
  <2>1. ASSUME NEW u \in Tx
        PROVE  /\ pc[u] # "running" => frame[u] = NewFrame
               /\ pc[u] \notin {"running", "left"} => mine[u] = {} /\ wishes[u] = {} /\ ~doomed'[u]
               /\ call'[u] # NoCall =>
                    /\ call'[u].next = call'[u].last
                    /\ call'[u].next \in WordsOf(store \cup mine[u])
               /\ readSet'[u] \subseteq Proper(Mem, store)
    <3>1. CASE u = t
      BY <1>3, <3>1
    <3>2. CASE u # t
      BY <1>1, <1>3, <3>2 DEF CallsOK, OthersKept
    <3> QED
      BY <3>1, <3>2
  <2> QED
    BY <1>2, <2>1 DEF CallsOK
<1>9. ClosuresOK'
  <2>1. ASSUME NEW u \in Tx, ~doomed'[u] /\ pc[u] # "left"
        PROVE  TxKnows(u)'
    <3>1. CASE u = t
      <4>1. NoCall.op = "none"
        BY DEF NoCall
      <4>2. Knows(frame[t], Log(t)', readSet'[t], target'[t], Mem, store, mine[t], wishes[t],
                  is_read_only[t])
        BY <2>1, <3>1
      <4>3. KnowsAfter(frame[t], Log(t)', readSet'[t], NoCall, target'[t], Mem, store, mine[t],
                       wishes[t], is_read_only[t])
        BY <4>1, <4>2 DEF KnowsAfter, LogAfter, ReadsAfter, TargetAfter
      <4> QED
        BY <1>3, <3>1, <4>3 DEF TxKnows
    <3>2. CASE u # t
      BY <1>1, <1>3, <2>1, <3>2, TxFrame DEF ClosuresOK, OthersKept
    <3> QED
      BY <3>1, <3>2
  <2>2. ASSUME NEW u \in committed
        PROVE  Extent(Log(u)', readSet'[u], Mem, store, mine[u], wishes[u])
    <3>1. Log(u)' = Log(u) /\ readSet'[u] = readSet[u]
      BY <1>4 DEF OthersKept
    <3>2. Extent(Log(u), readSet[u], Mem, store, mine[u], wishes[u])
      BY <1>1 DEF ClosuresOK
    <3> QED
      BY <3>1, <3>2
  <2> QED
    BY <1>2, <2>1, <2>2 DEF ClosuresOK
<1> QED
  BY <1>1, <1>5, <1>6, <1>7, <1>8, <1>9 DEF BankInv

\* The call in progress is for one word, so its access ends it.
LEMMA OneWordCall ==
  ASSUME BankInv, NEW t \in Tx, call[t].op # "none"
  PROVE  /\ pc[t] = "running" /\ call[t].next = call[t].last
         /\ call[t].next \in WordsOf(store \cup mine[t])
         /\ Advance(t) => call' = [call EXCEPT ![t] = NoCall]
<1>1. call[t] # NoCall
  BY DEF NoCall
<1>2. pc[t] = "running" /\ call[t].last \in Nat
  BY <1>1 DEF BankInv, StmInv, AccessDiscipline, TypeOK, Calls
<1>3. call[t].next = call[t].last /\ call[t].next \in WordsOf(store \cup mine[t])
  BY <1>1 DEF BankInv, CallsOK
<1> QED
  BY <1>2, <1>3 DEF Advance

\* A running transaction that may still commit knows what its call will find.
LEMMA CallKnown ==
  ASSUME BankInv, NEW t \in Tx, pc[t] = "running", ~doomed[t]
  PROVE  KnowsAfter(frame[t], Log(t), readSet[t], call[t], target[t], Mem, store, mine[t],
                    wishes[t], is_read_only[t])
BY DEF BankInv, ClosuresOK, TxKnows

LEMMA StepKeeps ==
  ASSUME BankInv, NEW t \in Tx, Step(t)
  PROVE  StmInv' /\ BatcherInv'
<1>1. Next
  BY DEF Next
<1>2. BatcherInv'
  BY <1>1, StmBatcherStep, BatcherStepInv DEF BankInv
<1> QED
  BY <1>1, <1>2, StmStepInv DEF BankInv

LEMMA LogIs ==
  ASSUME NEW t \in Tx
  PROVE  Log(t) = LogOf[t] /\ DOMAIN Log(t) = writtenSet[t] /\ Mem = MemoryOf
         /\ Log(t)' = LogOf'[t]
BY DEF Log, LogOf, Mem

LEMMA AccessRead ==
  ASSUME BankInv, NEW t \in Tx, NEW w \in Words, w = call[t].next,
         ReadOnlyWord(t, w) \/ ReadWord(t, w),
         UNCHANGED <<store, mine, wishes, top, frame>>
  PROVE  BankInv'
<1>1. /\ StmInv /\ BatcherInv /\ ConflictFree /\ CallsOK
      /\ word \in [Words -> WordRecord] /\ target \in [Tx -> Value] /\ readSet \in [Tx -> SUBSET Words]
      /\ writtenSet \in [Tx -> SUBSET Words]
  BY DEF BankInv, StmInv, TypeOK
<1>2. /\ call[t].op = "read" /\ ~doomed[t] /\ Advance(t)
      /\ UNCHANGED <<batcherVars, is_read_only, writtenSet, doomed>>
  BY DEF ReadOnlyWord, ReadWord, At
<1>3. /\ pc[t] = "running" /\ call' = [call EXCEPT ![t] = NoCall]
  BY <1>2, OneWordCall
<1>4. StmInv' /\ BatcherInv'
  BY StepKeeps DEF Step
<1>5. /\ Mem' = Mem /\ \A u \in Tx : Log(u)' = Log(u)
      /\ target' = [target EXCEPT ![t] = View(Log(t), Mem, w)]
  <2>1. Memory!Read(t, w)
    BY <1>1, ReadOnlyIsRead, ReadIsRead
  <2>2. /\ MemoryOf' = MemoryOf /\ LogOf' = LogOf
        /\ target' = [target EXCEPT ![t] = IF w \in DOMAIN LogOf[t] THEN LogOf[t][w] ELSE MemoryOf[w]]
    BY <2>1 DEF Memory!Read, MemoryOf, LogOf
  <2>3. Log(t) = LogOf[t]
    BY LogIs
  <2>4. ASSUME NEW u \in Tx
        PROVE  Log(u)' = Log(u)
    BY <2>2, LogIs
  <2>5. target' = [target EXCEPT ![t] = View(Log(t), Mem, w)]
    BY <2>2, <2>3 DEF View, Mem
  <2> QED
    BY <2>2, <2>4, <2>5 DEF Mem
<1>6. /\ target'[t] = View(Log(t), Mem, w)
      /\ \A u \in Tx \ {t} : target'[u] = target[u]
  BY <1>1, <1>5
<1>7. word[w].written => w \in writtenSet[t]
      \/ is_read_only[t]
  <2>1. CASE ReadOnlyWord(t, w)
    BY <2>1 DEF ReadOnlyWord
  <2>2. CASE ReadWord(t, w)
    BY <1>1, <1>3, <2>2, WriterKnown DEF ReadWord, ReadAccepted
  <2> QED
    BY <2>1, <2>2
<1>8. ~word[w].written => \A u \in Tx : w \notin writtenSet[u]
  BY <1>1, UnwrittenHasNoLog
<1>9. /\ readSet'[t] = ReadsWith(Log(t), readSet[t], w, is_read_only[t])
      /\ \A u \in Tx \ {t} : readSet'[u] = readSet[u]
  <2>1. CASE ReadOnlyWord(t, w)
    BY <2>1 DEF ReadOnlyWord, ReadsWith
  <2>2. CASE ReadWord(t, w)
    <3>1. /\ ~is_read_only[t]
          /\ readSet' = IF word[w].written THEN readSet ELSE [readSet EXCEPT ![t] = @ \cup {w}]
      BY <2>2 DEF ReadWord
    <3>2. DOMAIN Log(t) = writtenSet[t]
      BY DEF Log
    <3> QED
      BY <1>1, <1>7, <1>8, <3>1, <3>2 DEF ReadsWith
  <2> QED
    BY <2>1, <2>2
<1>10. Knows(frame[t], Log(t), readSet'[t], target'[t], Mem, store, mine[t], wishes[t],
             is_read_only[t])
  <2>1. KnowsAfter(frame[t], Log(t), readSet[t], call[t], target[t], Mem, store, mine[t],
                   wishes[t], is_read_only[t])
    BY <1>2, <1>3, CallKnown
  <2> QED
    BY <1>2, <1>6, <1>9, <2>1 DEF KnowsAfter, LogAfter, ReadsAfter, TargetAfter
<1>11. readSet'[t] \subseteq Proper(Mem, store)
  BY <1>10 DEF Knows, Extent
<1>12. ConflictFree'
  <2>1. readSet'[t] \subseteq readSet[t]
        \/ (readSet'[t] = readSet[t] \cup {w} /\ \A u \in Tx \ {t} : w \notin writtenSet[u])
    <3>1. CASE readSet'[t] = readSet[t]
      BY <3>1
    <3>2. CASE readSet'[t] # readSet[t]
      <4>1. readSet'[t] = readSet[t] \cup {w} /\ ~is_read_only[t] /\ w \notin DOMAIN Log(t)
        BY <1>9, <3>2 DEF ReadsWith
      <4>2. ~word[w].written
        BY <1>7, <4>1 DEF Log
      <4> QED
        BY <1>8, <4>1, <4>2
    <3> QED
      BY <3>1, <3>2
  <2>2. ASSUME NEW a \in Tx, NEW b \in Tx, a # b, NEW x \in readSet'[a], x \in writtenSet[b]
        PROVE  FALSE
    <3>1. x \notin readSet[a]
      BY <1>1, <2>2 DEF ConflictFree, MustPrecede
    <3>2. a = t
      BY <1>9, <2>2, <3>1
    <3> QED
      BY <2>1, <2>2, <3>1, <3>2
  <2> QED
    BY <1>2, <2>2 DEF ConflictFree, MustPrecede
<1>13. OthersKept(t)
  BY <1>2, <1>5, <1>6, <1>9 DEF OthersKept
<1>14. Log(t)' = Log(t)
  BY <1>5
<1> QED
  BY <1>2, <1>3, <1>4, <1>5, <1>10, <1>11, <1>12, <1>13, <1>14, AccessStep

LEMMA AccessWrite ==
  ASSUME BankInv, NEW t \in Tx, NEW w \in Words, w = call[t].next,
         WriteWord(t, w, frame[t].arg),
         UNCHANGED <<store, mine, wishes, top, frame>>
  PROVE  BankInv'
<1> DEFINE v == frame[t].arg
<1>1. /\ StmInv /\ BatcherInv /\ ConflictFree /\ CallsOK
      /\ word \in [Words -> WordRecord] /\ readSet \in [Tx -> SUBSET Words]
      /\ writtenSet \in [Tx -> SUBSET Words]
  BY DEF BankInv, StmInv, TypeOK
<1>2. /\ call[t].op = "write" /\ ~doomed[t] /\ Advance(t)
      /\ UNCHANGED <<batcherVars, is_read_only, readSet, doomed, target>>
      /\ WriteAccepted(word[w], trNum[t])
      /\ writtenSet' = IF word[w].written THEN writtenSet
                       ELSE [writtenSet EXCEPT ![t] = @ \cup {w}]
  BY DEF WriteWord, At
<1>3. /\ pc[t] = "running" /\ call' = [call EXCEPT ![t] = NoCall]
  BY <1>2, OneWordCall
<1>4. v \in Value
  <2>1. frame[t] \in Frames
    BY TopTyped
  <2> QED
    BY <2>1, BankAssumption DEF Frames
<1>5. StmInv' /\ BatcherInv'
  <2>1. \E x \in Value : WriteWord(t, w, x)
    BY <1>4
  <2> QED
    BY <2>1, StepKeeps DEF Step
<1>6. /\ Mem' = Mem /\ Log(t)' = LogWith(Log(t), w, v)
      /\ \A u \in Tx \ {t} : Log(u)' = Log(u)
  <2>a. PICK y \in Value : y = v
    BY <1>4
  <2>b. WriteWord(t, w, y)
    BY <2>a
  <2>1. Memory!Write(t, w, y)
    BY <1>1, <2>b, WriteIsWrite
  <2> HIDE DEF v
  <2>2. /\ MemoryOf' = MemoryOf
        /\ LogOf' = [LogOf EXCEPT ![t] = [x \in DOMAIN @ \cup {w} |-> IF x = w THEN v ELSE @[x]]]
    BY <2>1, <2>a DEF Memory!Write, MemoryOf, LogOf
  <2>3. DOMAIN LogOf = Tx
    BY DEF LogOf
  <2>4. /\ LogOf'[t] = [x \in DOMAIN LogOf[t] \cup {w} |-> IF x = w THEN v ELSE LogOf[t][x]]
        /\ \A u \in Tx \ {t} : LogOf'[u] = LogOf[u]
    BY <2>2, <2>3
  <2>5. Log(t)' = LogWith(Log(t), w, v)
    BY <2>4, LogIs DEF LogWith
  <2>6. \A u \in Tx \ {t} : Log(u)' = Log(u)
    BY <2>4, LogIs
  <2> QED
    BY <2>2, <2>5, <2>6 DEF Mem
<1>7. Knows(frame[t], LogWith(Log(t), w, v), readSet[t], target[t], Mem, store, mine[t],
            wishes[t], is_read_only[t])
  <2>1. KnowsAfter(frame[t], Log(t), readSet[t], call[t], target[t], Mem, store, mine[t],
                   wishes[t], is_read_only[t])
    BY <1>2, <1>3, CallKnown
  <2> QED
    BY <1>2, <2>1 DEF KnowsAfter, LogAfter, ReadsAfter, TargetAfter
<1>8. \A u \in Tx \ {t} : writtenSet'[u] = writtenSet[u]
  BY <1>1, <1>2
<1>9. writtenSet'[t] = writtenSet[t]
      \/ (writtenSet'[t] = writtenSet[t] \cup {w} /\ \A u \in Tx \ {t} : w \notin readSet[u])
  <2>1. CASE word[w].written
    BY <1>2, <2>1
  <2>2. CASE ~word[w].written
    <3>1. writtenSet'[t] = writtenSet[t] \cup {w} /\ ~word[w].accessed_by_many
      BY <1>1, <1>2, <2>2 DEF WriteAccepted
    <3>2. CASE w \in readSet[t]
      <4>1. ASSUME NEW u \in Tx \ {t}, w \in readSet[u]
            PROVE  FALSE
        <5>1. t \in Accessors(w) /\ u \in Accessors(w)
          BY <3>2, <4>1 DEF Accessors
        <5>2. trNum[t] = trNum[u]
          BY <1>1, <3>1, <5>1 DEF StmInv, WordControl, WordControlOf
        <5>3. epoch[t] = epoch[u] /\ pc[t] # "idle" /\ pc[u] # "idle"
          BY <1>1, <3>2, <4>1 DEF StmInv, AccessDiscipline
        <5> QED
          BY <1>1, <4>1, <5>2, <5>3 DEF BatcherInv, TrNumIdentifies
      <4> QED
        BY <3>1, <4>1
    <3>3. CASE w \notin readSet[t]
      <4>1. w \in DOMAIN LogWith(Log(t), w, v)
        BY DEF LogWith
      <4>2. w \notin Proper(Mem, store)
        BY <1>7, <3>3, <4>1 DEF Knows, Extent
      <4>3. \A u \in Tx : readSet[u] \subseteq Proper(Mem, store)
        BY <1>1 DEF CallsOK
      <4> QED
        BY <3>1, <4>2, <4>3
    <3> QED
      BY <3>2, <3>3
  <2> QED
    BY <2>1, <2>2
<1>10. ConflictFree'
  <2>1. ASSUME NEW a \in Tx, NEW b \in Tx, a # b, NEW x \in readSet[a], x \in writtenSet'[b]
        PROVE  FALSE
    <3>1. x \notin writtenSet[b]
      BY <1>1, <2>1 DEF ConflictFree, MustPrecede
    <3>2. b = t
      BY <1>8, <2>1, <3>1
    <3> QED
      BY <1>9, <2>1, <3>1, <3>2
  <2> QED
    BY <1>2, <2>1 DEF ConflictFree, MustPrecede
<1>11. OthersKept(t)
  BY <1>2, <1>6, <1>8 DEF OthersKept
<1>12. readSet'[t] \subseteq Proper(Mem, store)
  BY <1>1, <1>2 DEF CallsOK
<1> HIDE DEF v
<1>13. ~doomed'[t] => Knows(frame[t], Log(t)', readSet'[t], target'[t], Mem, store, mine[t],
                              wishes[t], is_read_only[t])
  BY <1>2, <1>6, <1>7
<1> QED
  BY <1>2, <1>3, <1>5, <1>6, <1>10, <1>11, <1>12, <1>13, AccessStep

LEMMA AccessRefused ==
  ASSUME BankInv, NEW t \in Tx, NEW w \in Words, RefuseWord(t, w),
         UNCHANGED <<store, mine, wishes, top, frame>>
  PROVE  BankInv'
<1>1. /\ StmInv /\ BatcherInv /\ ConflictFree /\ CallsOK
      /\ doomed \in [Tx -> BOOLEAN]
  BY DEF BankInv, StmInv, TypeOK
<1>2. /\ call[t].op # "none" /\ doomed' = [doomed EXCEPT ![t] = TRUE]
      /\ call' = [call EXCEPT ![t] = NoCall]
      /\ UNCHANGED <<batcherVars, word, is_read_only, readSet, writtenSet, target>>
  BY DEF RefuseWord, At
<1>3. StmInv' /\ BatcherInv'
  BY StepKeeps DEF Step
<1>4. doomed'[t] /\ \A u \in Tx \ {t} : doomed'[u] = doomed[u]
  BY <1>1, <1>2
<1>5. Mem' = Mem /\ \A u \in Tx : Log(u)' = Log(u)
  BY <1>2 DEF Mem, MemoryOf, Log
<1>6. OthersKept(t)
  BY <1>2, <1>4, <1>5 DEF OthersKept
<1>7. ConflictFree'
  BY <1>1, <1>2 DEF ConflictFree, MustPrecede
<1>8. readSet'[t] \subseteq Proper(Mem, store)
  BY <1>1, <1>2 DEF CallsOK
<1>9. pc[t] = "running"
  BY <1>2, OneWordCall
<1> QED
  BY <1>2, <1>3, <1>4, <1>5, <1>6, <1>7, <1>8, <1>9, AccessStep

LEMMA AccessKeeps ==
  ASSUME BankInv, NEW t \in Tx, Access(t)
  PROVE  BankInv'
<1>1. PICK w \in Words :
        /\ w = call[t].next
        /\ \/ ReadOnlyWord(t, w) \/ ReadWord(t, w)
           \/ WriteWord(t, w, frame[t].arg)
           \/ RefuseWord(t, w)
  BY DEF Access
<1>2. UNCHANGED <<store, mine, wishes, top, frame>>
  BY DEF Access
<1> QED
  BY <1>1, <1>2, AccessRead, AccessWrite, AccessRefused

-----------------------------------------------------------------------------
(***************************************************************************)
(* The end of a transaction.  Nobody that has committed writes what it has *)
(* read, so that its effect on the memory of the epoch is its effect on    *)
(* what those that have committed leave.                                   *)
(***************************************************************************)

\* The memory after an epoch holds numbers.
LEMMA AfterTyped ==
  ASSUME StmInv, NEW C
  PROVE  MemAfter(C) \in Memories
<1>1. Value = Int
  BY BankAssumption
<1>2. \A w \in Words : Readable(word[w]) \in Int /\ Writable(word[w]) \in Int
  BY <1>1 DEF StmInv, TypeOK, WordRecord, Readable, Writable
<1> QED
  BY <1>2 DEF MemAfter, Memories

\* Where nobody of C has written the memory stays.
LEMMA AfterSame ==
  ASSUME NEW C, NEW a \in Words, \A u \in C : a \notin writtenSet[u]
  PROVE  MemAfter(C)[a] = Mem[a]
BY DEF MemAfter, Mem, MemoryOf

LEMMA InStoreAfter ==
  ASSUME NEW C, NEW s
  PROVE  s \in StoreAfter(C) <=> /\ s \in store \/ \E u \in C : s \in mine[u]
                                /\ ~\E u \in C : s \in wishes[u]
<1>1. s \in UNION {mine[u] : u \in C} <=> \E u \in C : s \in mine[u]
  OBVIOUS
<1>2. s \in UNION {wishes[u] : u \in C} <=> \E u \in C : s \in wishes[u]
  OBVIOUS
<1> QED
  BY <1>1, <1>2 DEF StoreAfter

\* What has committed are transactions other than one that runs.
LEMMA CommittedOthers ==
  ASSUME BankInv, NEW t \in Tx, pc[t] = "running"
  PROVE  /\ t \notin committed /\ committed \subseteq Tx
         /\ \A u \in committed :
              /\ u \in Tx /\ u # t
              /\ writtenSet[u] \subseteq WordsOf(store \cup mine[u])
              /\ \A s \in wishes[u] : s \in store /\ \E p \in store : p < s /\ NextOf(p) \in writtenSet[u]
<1>1. t \notin committed /\ committed \subseteq Tx
  BY DEF BankInv, BatcherInv, VectorsAreThisEpoch, BatcherTypeOK
<1>2. ASSUME NEW u \in committed
      PROVE  /\ u \in Tx /\ u # t
             /\ writtenSet[u] \subseteq WordsOf(store \cup mine[u])
             /\ \A s \in wishes[u] : s \in store /\ \E p \in store : p < s /\ NextOf(p) \in writtenSet[u]
  <2>1. Extent(Log(u), readSet[u], Mem, store, mine[u], wishes[u])
    BY DEF BankInv, ClosuresOK
  <2>2. DOMAIN Log(u) = writtenSet[u]
    BY DEF Log
  <2> QED
    BY <1>1, <2>1, <2>2 DEF Extent
<1> QED
  BY <1>1, <1>2

\* Words of segments that a transaction has for itself nobody else writes.
LEMMA MineUnwritten ==
  ASSUME BankInv, NEW t \in Tx, pc[t] = "running", NEW s \in mine[t], NEW a \in Words,
         SegmentOfWord(a) = s, NEW u \in committed
  PROVE  a \notin writtenSet[u] /\ s \notin wishes[u]
<1>1. /\ u \in Tx /\ u # t
      /\ writtenSet[u] \subseteq WordsOf(store \cup mine[u])
      /\ \A x \in wishes[u] : x \in store
  BY CommittedOthers
<1>2. (\A r \in store : r < s) /\ s \notin mine[u]
  BY <1>1 DEF BankInv, FreshSegments
<1>3. s \in Nat
  BY TopTyped
<1>4. s \notin store
  BY <1>2, <1>3
<1> QED
  BY <1>1, <1>2, <1>4 DEF WordsOf

\* A commit makes a good bank of a good one.
LEMMA CommitGood ==
  ASSUME BankInv, NEW t \in Tx, Ready(t), frame[t].at = "returned"
  PROVE  GoodBank(MemAfter(committed \cup {t}), StoreAfter(committed \cup {t}))
<1> DEFINE C == committed \cup {t}
           w == MemAfter(C)
           K == Log(t)
           R == readSet[t]
<1>1. /\ StmInv /\ BatcherInv /\ ConflictFree /\ FramesOK /\ FreshSegments /\ CallsOK
      /\ GoodBank(Mem, store) /\ GoodBank(OutlookMem, OutlookStore)
      /\ pc[t] = "running"
  BY DEF BankInv, Ready
<1>2. Mem \in Memories /\ OutlookMem \in Memories /\ w \in Memories
  BY <1>1, MemTyped, AfterTyped DEF OutlookMem
<1>3. /\ t \notin committed /\ committed \subseteq Tx
      /\ \A u \in committed :
           /\ u \in Tx /\ u # t
           /\ \A s \in wishes[u] : s \in store /\ \E p \in store : p < s /\ NextOf(p) \in writtenSet[u]
  BY <1>1, CommittedOthers
<1>4. Returned(K, R, Mem, store, mine[t], wishes[t])
  BY ClosureOf DEF Closure, Knows
<1>5. \A a \in R : \A u \in committed : a \notin writtenSet[u]
  BY <1>1, <1>3 DEF ConflictFree, MustPrecede
<1>6. \A a \in R : OutlookMem[a] = Mem[a]
  <2>1. R \subseteq Words
    BY <1>1 DEF StmInv, TypeOK
  <2> QED
    BY <1>5, <2>1, AfterSame DEF OutlookMem
<1>7. ASSUME NEW s \in store, Walked(R, store, s)
      PROVE  s \in OutlookStore
  <2>1. ASSUME NEW u \in committed, s \in wishes[u]
        PROVE  FALSE
    <3>1. PICK p \in store : p < s /\ NextOf(p) \in writtenSet[u]
      BY <1>3, <2>1
    <3>2. NextOf(p) \in R
      BY <1>7, <3>1 DEF Walked
    <3> QED
      BY <1>5, <3>1, <3>2
  <2> QED
    BY <2>1 DEF OutlookStore, StoreAfter
<1>8. ASSUME NEW s \in mine[t]
      PROVE  /\ s \in Segment /\ OutlookMem[NextOf(s)] = nullptr /\ OutlookMem[ParityOf(s)] = 0
             /\ \A r \in store : r < s
  <2>1. s \in Segment /\ \A r \in store : r < s
    BY ClosureOf DEF Closure
  <2>2. /\ NextOf(s) \in Words /\ SegmentOfWord(NextOf(s)) = s
        /\ ParityOf(s) \in Words /\ SegmentOfWord(ParityOf(s)) = s
    BY <2>1, Addresses
  <2>3. \A u \in committed : NextOf(s) \notin writtenSet[u] /\ ParityOf(s) \notin writtenSet[u]
    BY <1>1, <2>2, MineUnwritten
  <2>4. OutlookMem[NextOf(s)] = Mem[NextOf(s)] /\ OutlookMem[ParityOf(s)] = Mem[ParityOf(s)]
    BY <2>2, <2>3, AfterSame DEF OutlookMem
  <2>5. Mem[NextOf(s)] = nullptr /\ Mem[ParityOf(s)] = 0
    BY <1>1 DEF FreshSegments
  <2> QED
    BY <2>1, <2>4, <2>5
<1>9. ASSUME NEW a \in Words
      PROVE  w[a] = View(K, OutlookMem, a)
  <2>1. CASE a \in writtenSet[t]
    <3>1. w[a] = Writable(word[a])
      BY <2>1 DEF MemAfter
    <3>2. a \in DOMAIN K /\ K[a] = Writable(word[a])
      BY <2>1 DEF Log
    <3> QED
      BY <3>1, <3>2 DEF View
  <2>2. CASE a \notin writtenSet[t]
    <3>1. (\E u \in C : a \in writtenSet[u]) <=> (\E u \in committed : a \in writtenSet[u])
      BY <2>2
    <3>2. w[a] = OutlookMem[a]
      BY <3>1 DEF MemAfter, OutlookMem
    <3>3. a \notin DOMAIN K
      BY <2>2 DEF Log
    <3> QED
      BY <3>2, <3>3 DEF View
  <2> QED
    BY <2>1, <2>2
<1>10. StoreAfter(C) = (OutlookStore \cup mine[t]) \ wishes[t]
  <2>1. \A s \in mine[t] : \A u \in committed : s \notin wishes[u]
    <3>1. SUFFICES ASSUME NEW s \in mine[t], NEW u \in committed
                   PROVE  s \notin wishes[u]
      OBVIOUS
    <3>2. s \in Segment
      BY <1>8
    <3>3. NextOf(s) \in Words /\ SegmentOfWord(NextOf(s)) = s
      BY <3>2, Addresses
    <3> QED
      BY <1>1, <3>3, MineUnwritten
  <2>2. ASSUME NEW s
        PROVE  s \in StoreAfter(C) <=> s \in (OutlookStore \cup mine[t]) \ wishes[t]
    <3>1. /\ (\E u \in C : s \in mine[u]) <=> (\E u \in committed : s \in mine[u]) \/ s \in mine[t]
          /\ (\E u \in C : s \in wishes[u]) <=> (\E u \in committed : s \in wishes[u]) \/ s \in wishes[t]
      OBVIOUS
    <3> HIDE DEF C
    <3>2. s \in OutlookStore <=> /\ s \in store \/ \E u \in committed : s \in mine[u]
                                /\ ~\E u \in committed : s \in wishes[u]
      BY InStoreAfter DEF OutlookStore
    <3> QED
      BY <2>1, <3>1, <3>2, InStoreAfter
  <2> HIDE DEF C
  <2> QED
    BY <2>2
<1> HIDE DEF w, K, R, C
<1>11. GoodBank(w, (OutlookStore \cup mine[t]) \ wishes[t])
  BY <1>1, <1>2, <1>4, <1>6, <1>7, <1>8, <1>9, ReturnedEffect
<1> QED
  BY <1>10, <1>11 DEF w, C

\* A transaction that has not called anything yet knows nothing.
LEMMA IdleKnows ==
  ASSUME NEW K, DOMAIN K = {}, NEW g, NEW m, NEW S, NEW ro
  PROVE  KnowsAfter(NewFrame, K, {}, NoCall, g, m, S, {}, {}, ro)
<1>1. NewFrame.at = "begin" /\ NoCall.op = "none"
  BY DEF NewFrame, NoCall
<1>2. Extent(K, {}, m, S, {}, {})
  BY DEF Extent
<1>3. Knows(NewFrame, K, {}, g, m, S, {}, {}, ro)
  BY <1>1, <1>2 DEF Knows, Untouched, LongPlaces, ShortPlaces, AllocAt, ShortAt
<1> QED
  BY <1>1, <1>3 DEF KnowsAfter, LogAfter, ReadsAfter, TargetAfter

LEMMA EndFacts ==
  ASSUME BankInv, NEW t \in Tx, BankEnd(t)
  PROVE  /\ pc[t] = "running" /\ call[t] = NoCall /\ LeaveStm(t)
         /\ ~doomed[t] => Ready(t) /\ frame[t].at = "returned"
         /\ StmInv' /\ BatcherInv'
         /\ UNCHANGED <<is_read_only, doomed, call, target, top>>
         /\ frame' = [frame EXCEPT ![t] = NewFrame]
<1>1. LeaveStm(t) /\ (End(t) \/ GiveUp(t))
  BY DEF BankEnd, End, GiveUp
<1>2. pc[t] = "running"
  BY <1>1 DEF LeaveStm, LeaveEarly, LeaveLast
<1>3. call[t] = NoCall
  BY <1>1 DEF End, Ready, GiveUp, BankInv, StmInv, AccessDiscipline
<1>4. ~doomed[t] => Ready(t) /\ frame[t].at = "returned"
  <2>1. frame[t] \in Frames
    BY TopTyped
  <2>2. frame[t].at # "violated"
    BY <2>1 DEF Frames
  <2> QED
    BY <1>2, <1>3, <2>2 DEF BankEnd, GiveUp, Ready
<1>5. Next
  BY <1>1 DEF Next
<1>6. BatcherInv'
  BY <1>5, StmBatcherStep, BatcherStepInv DEF BankInv
<1>7. StmInv'
  BY <1>5, <1>6, StmStepInv DEF BankInv
<1> QED
  BY <1>1, <1>2, <1>3, <1>4, <1>6, <1>7 DEF LeaveStm, BankEnd, Called

\* What the epoch leaves once t has ended, also if it aborts.
LEMMA FinishedGood ==
  ASSUME BankInv, NEW t \in Tx, BankEnd(t), NEW C, C = Finished(t, ~doomed[t]).committed
  PROVE  /\ GoodBank(MemAfter(C), StoreAfter(C))
         /\ C \subseteq Tx
         /\ \A u \in C : Extent(Log(u), readSet[u], Mem, store, mine[u], wishes[u])
<1>1. /\ pc[t] = "running" /\ committed \subseteq Tx
      /\ ~doomed[t] => Ready(t) /\ frame[t].at = "returned"
  BY EndFacts DEF BankInv, BatcherInv, BatcherTypeOK
<1>2. \A u \in committed : Extent(Log(u), readSet[u], Mem, store, mine[u], wishes[u])
  BY DEF BankInv, ClosuresOK
<1>3. CASE doomed[t]
  <2>1. C = committed
    BY <1>3 DEF Finished
  <2> QED
    BY <1>1, <1>2, <2>1 DEF BankInv, OutlookMem, OutlookStore
<1>4. CASE ~doomed[t]
  <2>1. C = committed \cup {t}
    BY <1>4 DEF Finished
  <2>2. Extent(Log(t), readSet[t], Mem, store, mine[t], wishes[t])
    BY <1>1, <1>4, ClosureOf DEF Closure, Knows
  <2> QED
    BY <1>1, <1>2, <1>4, <2>1, <2>2, CommitGood
<1> QED
  BY <1>3, <1>4

LEMMA EndEarlyStep ==
  ASSUME BankInv, NEW t \in Tx, BankEnd(t), remaining # 1
  PROVE  BankInv'
<1>1. /\ StmInv /\ BatcherInv /\ ConflictFree /\ FramesOK /\ FreshSegments /\ CallsOK /\ ClosuresOK
      /\ GoodBank(Mem, store)
  BY DEF BankInv
<1>2. /\ pc[t] = "running" /\ call[t] = NoCall /\ LeaveStm(t)
      /\ StmInv' /\ BatcherInv'
      /\ UNCHANGED <<is_read_only, doomed, call, target, top>>
      /\ frame' = [frame EXCEPT ![t] = NewFrame]
  BY EndFacts
<1>3. PICK C : C = Finished(t, ~doomed[t]).committed
  OBVIOUS
<1>4. /\ committed' = C /\ pc' = [pc EXCEPT ![t] = "left"]
      /\ UNCHANGED <<word, readSet, writtenSet>>
  <2>1. LeaveEarly(t, ~doomed[t]) /\ UNCHANGED <<word, readSet, writtenSet>>
    BY <1>2 DEF LeaveStm, LeaveLast
  <2> QED
    BY <1>3, <2>1 DEF LeaveEarly
<1>5. UNCHANGED <<store, mine, wishes>>
  BY DEF BankEnd, Store!Commit
<1>6. /\ GoodBank(MemAfter(C), StoreAfter(C))
      /\ C \subseteq Tx
      /\ \A u \in C : Extent(Log(u), readSet[u], Mem, store, mine[u], wishes[u])
  BY <1>3, FinishedGood
<1>7. /\ pc \in [Tx -> PC] /\ frame \in [Tx -> Frames]
  BY <1>1 DEF BatcherInv, BatcherTypeOK, FramesOK
<1>8. /\ pc'[t] = "left" /\ frame'[t] = NewFrame
      /\ \A u \in Tx \ {t} : pc'[u] = pc[u] /\ frame'[u] = frame[u]
  BY <1>2, <1>4, <1>7
<1>9. Mem' = Mem /\ \A u \in Tx : Log(u)' = Log(u)
  BY <1>4 DEF Mem, MemoryOf, Log
<1>10. OutlookMem' = MemAfter(C) /\ OutlookStore' = StoreAfter(C)
  BY <1>4, <1>5 DEF OutlookMem, OutlookStore, MemAfter, StoreAfter
<1>11. ConflictFree'
  BY <1>1, <1>4 DEF ConflictFree, MustPrecede
<1>12. FramesOK'
  <2>1. frame' \in [Tx -> Frames]
    BY <1>2, <1>7, FirstFrames
  <2> QED
    BY <1>1, <1>2, <1>5, <2>1 DEF FramesOK
<1>13. FreshSegments'
  BY <1>1, <1>2, <1>5, <1>9 DEF FreshSegments
<1>14. CallsOK'
  <2>1. ASSUME NEW u \in Tx
        PROVE  /\ pc'[u] # "running" => frame'[u] = NewFrame
               /\ pc'[u] \notin {"running", "left"} => mine[u] = {} /\ wishes[u] = {} /\ ~doomed[u]
               /\ call[u] # NoCall =>
                    /\ call[u].next = call[u].last
                    /\ call[u].next \in WordsOf(store \cup mine[u])
               /\ readSet[u] \subseteq Proper(Mem, store)
    BY <1>1, <1>8 DEF CallsOK
  <2> QED
    BY <1>2, <1>4, <1>5, <1>9, <2>1 DEF CallsOK
<1>15. ClosuresOK'
  <2>1. ASSUME NEW u \in Tx, ~doomed[u], pc'[u] # "left"
        PROVE  TxKnows(u)'
    <3>1. u # t /\ frame'[u] = frame[u] /\ pc'[u] = pc[u]
      BY <1>8, <2>1
    <3> QED
      BY <1>1, <1>2, <1>4, <1>5, <1>9, <2>1, <3>1, TxFrame DEF ClosuresOK
  <2>2. ASSUME NEW u \in C
        PROVE  Extent(Log(u)', readSet[u], Mem, store, mine[u], wishes[u])
    <3>1. Log(u)' = Log(u)
      BY <1>6, <1>9
    <3> QED
      BY <1>6, <3>1
  <2> QED
    BY <1>2, <1>4, <1>5, <1>9, <2>1, <2>2 DEF ClosuresOK
<1> QED
  BY <1>1, <1>2, <1>5, <1>6, <1>9, <1>10, <1>11, <1>12, <1>13, <1>14, <1>15 DEF BankInv

LEMMA EndLastStep ==
  ASSUME BankInv, NEW t \in Tx, BankEnd(t), remaining = 1
  PROVE  BankInv'
<1>1. /\ StmInv /\ BatcherInv /\ FramesOK /\ FreshSegments /\ CallsOK /\ ClosuresOK
  BY DEF BankInv
<1>2. /\ pc[t] = "running" /\ call[t] = NoCall /\ LeaveStm(t)
      /\ StmInv' /\ BatcherInv'
      /\ UNCHANGED <<is_read_only, doomed, call, target, top>>
      /\ frame' = [frame EXCEPT ![t] = NewFrame]
  BY EndFacts
<1>3. PICK C, A : C = Finished(t, ~doomed[t]).committed /\ A = Finished(t, ~doomed[t]).aborted
  OBVIOUS
<1>4. /\ LeaveLast(t, ~doomed[t]) /\ OnEpochEnd(C, A)
      /\ committed' = {} /\ pc' = [u \in Tx |-> IF u = t THEN "left" ELSE NotifyAll(pc[u])]
  <2>1. LeaveLast(t, ~doomed[t]) /\ OnEpochEnd(C, A)
    BY <1>2, <1>3 DEF LeaveStm, LeaveEarly
  <2> QED
    BY <2>1 DEF LeaveLast
<1>5. store' = StoreAfter(C) /\ mine' = Store!Nothing /\ wishes' = Store!Nothing
  BY <1>3 DEF BankEnd, Store!EpochEnd, StoreAfter
<1>6. /\ GoodBank(MemAfter(C), StoreAfter(C))
      /\ C \subseteq Tx
      /\ \A u \in C : Extent(Log(u), readSet[u], Mem, store, mine[u], wishes[u])
  BY <1>3, FinishedGood
<1>7. \A u \in Tx : readSet'[u] = {} /\ writtenSet'[u] = {} /\ mine'[u] = {} /\ wishes'[u] = {}
  <2>1. PICK ok \in BOOLEAN : ok = ~doomed[t]
    OBVIOUS
  <2>2. OnEpochEnd(Finished(t, ok).committed, Finished(t, ok).aborted)
    BY <1>3, <1>4, <2>1
  <2>3. readSet' = [u \in Tx |-> {}] /\ writtenSet' = [u \in Tx |-> {}]
    BY <1>1, <1>2, <2>2, OnEpochEndCleans
  <2> QED
    BY <1>5, <2>3 DEF Store!Nothing
<1>8. Mem' = MemAfter(C)
  <2>1. ASSUME NEW w \in Words
        PROVE  Readable(word'[w]) = IF \E u \in C : w \in writtenSet[u]
                                    THEN Writable(word[w]) ELSE Readable(word[w])
    <3>1. Readable(word'[w]) = Memory!WithLogs(C)[w]
      BY <1>1, <1>4, <1>6, SwapsAreLogs
    <3>2. \A u \in C : /\ DOMAIN LogOf[u] = writtenSet[u]
                       /\ w \in writtenSet[u] => LogOf[u][w] = Writable(word[w])
      BY <1>6 DEF LogOf
    <3>3. CASE \E u \in C : w \in writtenSet[u]
      <4> DEFINE c == CHOOSE u \in C : w \in DOMAIN LogOf[u]
      <4>1. c \in C /\ w \in DOMAIN LogOf[c]
        BY <3>2, <3>3
      <4>2. Memory!WithLogs(C)[w] = LogOf[c][w]
        BY <3>2, <3>3 DEF Memory!WithLogs, MemoryOf, LogOf
      <4> HIDE DEF c
      <4> QED
        BY <3>1, <3>2, <3>3, <4>1, <4>2
    <3>4. CASE ~\E u \in C : w \in writtenSet[u]
      <4>1. Memory!WithLogs(C)[w] = MemoryOf[w]
        BY <3>2, <3>4 DEF Memory!WithLogs, MemoryOf, LogOf
      <4> QED
        BY <3>1, <3>4, <4>1 DEF MemoryOf
    <3> QED
      BY <3>3, <3>4
  <2> QED
    BY <2>1 DEF Mem, MemoryOf, MemAfter
<1>9. OutlookMem' = Mem' /\ OutlookStore' = store'
  <2>1. \A w \in Words : ~\E u \in committed' : w \in writtenSet'[u]
    BY <1>4
  <2> QED
    BY <1>4, <2>1 DEF OutlookMem, OutlookStore, MemAfter, StoreAfter, Mem, MemoryOf
<1>10. /\ pc \in [Tx -> PC] /\ frame \in [Tx -> Frames] /\ store \subseteq 1..top
       /\ mine \in [Tx -> SUBSET (1..top)] /\ top \in Segment
  BY <1>1 DEF BatcherInv, BatcherTypeOK, FramesOK
<1>11. ASSUME NEW u \in Tx
       PROVE  /\ pc'[u] # "running" /\ frame'[u] = NewFrame /\ call[u] = NoCall
              /\ pc'[u] # "left" => ~doomed[u]
  <2>1. CASE u = t
    BY <1>2, <1>4, <1>10, <2>1
  <2>2. CASE u # t
    <3>1. pc[u] # "running"
      <4>1. Present = {t}
        BY <1>1, <1>2, LastIsAlone
      <4>2. pc[u] = "running" => u \in Present
        BY <1>1 DEF Present, BatcherInv, EpochsAndNumbers, RunningInCurrentEpoch
      <4> QED
        BY <2>2, <4>1, <4>2
    <3>2. frame[u] = NewFrame /\ call[u] = NoCall
      BY <1>1, <3>1 DEF CallsOK, StmInv, AccessDiscipline
    <3>3. pc'[u] = NotifyAll(pc[u]) /\ frame'[u] = frame[u]
      BY <1>2, <1>4, <1>10, <2>2
    <3>4. pc'[u] # "running" /\ (pc'[u] # "left" => pc[u] # "left")
      BY <3>1, <3>3 DEF NotifyAll
    <3>5. pc[u] # "left" => ~doomed[u]
      BY <1>1, <3>1 DEF CallsOK
    <3> QED
      BY <3>2, <3>3, <3>4, <3>5
  <2> QED
    BY <2>1, <2>2
<1>12. ConflictFree'
  BY <1>7 DEF ConflictFree, MustPrecede
<1>13. FramesOK'
  <2>1. frame' \in [Tx -> Frames]
    BY <1>2, <1>10, FirstFrames
  <2>2. store' \subseteq 1..top
    <3>1. ASSUME NEW s \in StoreAfter(C)
          PROVE  s \in 1..top
      <4>1. s \in store \/ \E u \in C : s \in mine[u]
        BY <3>1, InStoreAfter
      <4>2. \A u \in C : mine[u] \subseteq 1..top
        BY <1>6, <1>10
      <4> QED
        BY <1>10, <4>1, <4>2
    <3> QED
      BY <1>5, <3>1
  <2>3. mine' \in [Tx -> SUBSET (1..top)] /\ wishes' \in [Tx -> SUBSET Segment]
    BY <1>5 DEF Store!Nothing
  <2> QED
    BY <1>2, <1>10, <2>1, <2>2, <2>3 DEF FramesOK
<1>14. FreshSegments'
  <2>1. ASSUME NEW s \in Segment, s > top
        PROVE  MemAfter(C)[NextOf(s)] = nullptr /\ MemAfter(C)[ParityOf(s)] = 0
    <3>1. /\ NextOf(s) \in Words /\ SegmentOfWord(NextOf(s)) = s
          /\ ParityOf(s) \in Words /\ SegmentOfWord(ParityOf(s)) = s
          /\ s \in Nat /\ top \in Nat
      BY <1>10, Addresses
    <3>2. s \notin 1..top
      BY <2>1, <3>1
    <3>3. ASSUME NEW u \in C, NEW a \in Words, SegmentOfWord(a) = s
          PROVE  a \notin writtenSet[u]
      <4>1. DOMAIN Log(u) = writtenSet[u] /\ DOMAIN Log(u) \subseteq WordsOf(store \cup mine[u])
        BY <1>6 DEF Extent, Log
      <4>2. mine[u] \subseteq 1..top
        BY <1>6, <1>10
      <4> QED
        BY <1>10, <3>2, <3>3, <4>1, <4>2 DEF WordsOf
    <3>4. Mem[NextOf(s)] = nullptr /\ Mem[ParityOf(s)] = 0
      BY <1>1, <2>1 DEF FreshSegments
    <3> QED
      BY <3>1, <3>3, <3>4, AfterSame
  <2> QED
    BY <1>2, <1>7, <1>8, <2>1 DEF FreshSegments
<1>15. CallsOK'
  BY <1>2, <1>7, <1>11 DEF CallsOK
<1>16. ClosuresOK'
  <2>1. ASSUME NEW u \in Tx
        PROVE  TxKnows(u)'
    <3>1. DOMAIN Log(u)' = {}
      BY <1>7 DEF Log
    <3>2. KnowsAfter(NewFrame, Log(u)', {}, NoCall, target'[u], Mem', store', {}, {}, is_read_only'[u])
      BY <3>1, IdleKnows
    <3> QED
      BY <1>2, <1>7, <1>11, <3>2 DEF TxKnows
  <2> QED
    BY <1>4, <2>1 DEF ClosuresOK
<1> QED
  BY <1>2, <1>5, <1>6, <1>8, <1>9, <1>12, <1>13, <1>14, <1>15, <1>16 DEF BankInv

LEMMA EndKeeps ==
  ASSUME BankInv, NEW t \in Tx, BankEnd(t)
  PROVE  BankInv'
BY EndEarlyStep, EndLastStep

-----------------------------------------------------------------------------
\* The bank at the beginning.

\* The accounts of a segment that all hold the same.
LEMMA EqualParts ==
  ASSUME NEW m \in Memories, NEW s \in Segment, NEW v \in Nat,
         \A i \in 0..(nbaccounts - 1) : m[Account(s, i)] = v
  PROVE  SumFunction(Part(m, s, nbaccounts)) = nbaccounts * v
<1>1. nbaccounts \in Nat
  BY BankAssumption
<1> DEFINE T == {n \in 0..nbaccounts : SumFunction(Part(m, s, n)) # n * v}
<1>2. ASSUME T # {}
      PROVE  FALSE
  <2>a. T \in (SUBSET Nat) \ {{}}
    BY <1>1, <1>2
  <2> HIDE DEF T
  <2>1. PICK n \in T : \A k \in T : n <= k
    BY <2>a, Least
  <2> USE DEF T
  <2>2. n \in Nat /\ n <= nbaccounts
    BY <1>1, <2>1
  <2>3. CASE n = 0
    <3>1. SumFunction(Part(m, s, 0)) = 0 * v
      BY PartEmpty
    <3> QED
      BY <2>1, <2>3, <3>1
  <2>4. CASE n # 0
    <3>1. n - 1 \in 0..(nbaccounts - 1) /\ n - 1 \in 0..nbaccounts /\ (n - 1) + 1 = n
      BY <1>1, <2>2, <2>4
    <3>2. n - 1 \notin T
      BY <2>1, <2>2
    <3>3. SumFunction(Part(m, s, n - 1)) = (n - 1) * v
      BY <3>1, <3>2
    <3>4. SumFunction(Part(m, s, (n - 1) + 1)) = SumFunction(Part(m, s, n - 1)) + m[Account(s, n - 1)]
      BY <3>1, PartMore
    <3>5. SumFunction(Part(m, s, n)) = SumFunction(Part(m, s, n - 1)) + m[Account(s, n - 1)]
      BY <3>1, <3>4
    <3>6. (n - 1) * v + v = n * v
      BY <2>2
    <3>7. SumFunction(Part(m, s, n)) = n * v
      BY <3>1, <3>3, <3>5, <3>6
    <3> QED
      BY <2>1, <3>7
  <2> QED
    BY <2>3, <2>4
<1>3. nbaccounts \in 0..nbaccounts
  BY <1>1
<1> QED
  BY <1>2, <1>3

\* One segment with all its accounts.
LEMMA FirstBank ==
  ASSUME NEW m \in Memories, m[CountOf(1)] = nbaccounts, m[NextOf(1)] = nullptr,
         m[ParityOf(1)] = 0, \A i \in 0..(nbaccounts - 1) : m[Account(1, i)] = init_balance
  PROVE  GoodBank(m, {1})
<1>1. nbaccounts \in Nat /\ nbaccounts >= 2 /\ init_balance \in Nat /\ 1 \in Segment
  BY BankAssumption, FirstFrames
<1>2. GoodList(m, {1})
  BY <1>1 DEF GoodList, IsLast
<1>3. NoDebts(m, {1})
  BY <1>1 DEF NoDebts
<1>4. CountsFit(m, {} \cup {1})
  BY <1>1 DEF CountsFit
<1>5. /\ MoneyOf(m, {} \cup {1}) = MoneyOf(m, {}) + SegmentMoney(m, 1)
      /\ AccountsOf(m, {} \cup {1}) = AccountsOf(m, {}) + m[CountOf(1)]
  BY <1>4, MoneyMore
<1>6. SegmentMoney(m, 1) = nbaccounts * init_balance
  <2>1. SumFunction(Part(m, 1, nbaccounts)) = nbaccounts * init_balance
    BY <1>1, EqualParts
  <2>2. nbaccounts * init_balance \in Int
    BY <1>1
  <2>3. SegmentMoney(m, 1) = 0 + SumFunction(Part(m, 1, nbaccounts))
    BY DEF SegmentMoney
  <2> QED
    BY <2>1, <2>2, <2>3
<1>7. nbaccounts * init_balance = init_balance * nbaccounts /\ nbaccounts * init_balance \in Int
  BY <1>1
<1>8. MoneyOf(m, {1}) = nbaccounts * init_balance /\ AccountsOf(m, {1}) = nbaccounts
  <2>1. {} \cup {1} = {1} /\ MoneyOf(m, {}) = 0 /\ AccountsOf(m, {}) = 0
    BY MoneyNone
  <2> QED
    BY <1>1, <1>5, <1>6, <1>7, <2>1
<1>9. MoneyOf(m, {1}) = init_balance * AccountsOf(m, {1})
  BY <1>7, <1>8
<1> QED
  BY <1>2, <1>3, <1>9 DEF GoodBank

LEMMA HoldingFields ==
  ASSUME NEW v \in Int
  PROVE  LET x == Holding(v)
         IN  x \in WordRecord /\ Readable(x) = v
             /\ ~x.written /\ ~x.accessed_by_many /\ x.last_tx_accessed = 0
<1> DEFINE y == WriteCopy(NewWord, v)
           x == UpdateWritten(y)
<1>1. v \in Value /\ NewWord \in WordRecord
  BY BankAssumption, NewWordFields
<1>2. y \in WordRecord /\ Writable(y) = v
  BY <1>1, WriteCopyFields
<1> HIDE DEF y
<1>3. x \in WordRecord /\ ~x.written /\ ~x.accessed_by_many /\ x.last_tx_accessed = 0
  BY <1>2, ResetFields
<1>4. Readable(x) = v
  BY <1>2, ResetCopies
<1> QED
  BY <1>3, <1>4 DEF Holding, y

\* What the words of the bank hold at the beginning.
InitialValue(segs, w) == Readable(InitialMemory(segs)[w])

LEMMA InitialWords ==
  ASSUME NEW segs \in {1, 2}, NEW w \in Words
  PROVE  LET x == InitialMemory(segs)[w]
         IN  /\ x \in WordRecord /\ Readable(x) \in Int
             /\ ~x.written /\ ~x.accessed_by_many /\ x.last_tx_accessed = 0
<1>1. nbaccounts \in Int /\ init_balance \in Int /\ 1 \in Int /\ 2 \in Int /\ InitVal \in Int
  BY BankAssumption
<1>2. InitialMemory(segs)[w] \in {Holding(nbaccounts), Holding(init_balance), Holding(1), Holding(2), NewWord}
  BY DEF InitialMemory
<1> DEFINE x == InitialMemory(segs)[w]
<1>3. CASE x = NewWord
  BY <1>1, <1>3, NewWordFields
<1>4. CASE x # NewWord
  <2>1. \E v \in Int : x = Holding(v)
    BY <1>1, <1>2, <1>4
  <2> HIDE DEF x
  <2>2. /\ x \in WordRecord /\ Readable(x) \in Int
        /\ ~x.written /\ ~x.accessed_by_many /\ x.last_tx_accessed = 0
    BY <2>1, HoldingFields
  <2> QED
    BY <2>2 DEF x
<1> QED
  BY <1>3, <1>4

\* The words that init() has not written hold zero.
LEMMA InitialValues ==
  ASSUME NEW segs \in {1, 2}
  PROVE  /\ InitialValue(segs, CountOf(1)) = nbaccounts
         /\ \A i \in 0..(nbaccounts - 1) : InitialValue(segs, Account(1, i)) = init_balance
         /\ \A s \in Segment : InitialValue(segs, ParityOf(s)) = 0
         /\ \A s \in Segment : s # 1 \/ segs = 1 => InitialValue(segs, NextOf(s)) = nullptr
         /\ segs = 2 => /\ InitialValue(2, NextOf(1)) = 2
                        /\ InitialValue(2, CountOf(2)) = 1
                        /\ InitialValue(2, Account(2, 0)) = init_balance
         /\ \A w \in Words \ {NextOf(1), CountOf(2), Account(2, 0)} :
              InitialValue(2, w) = InitialValue(1, w)
<1>1. /\ nbaccounts \in Nat /\ nbaccounts >= 2 /\ 1 \in Segment /\ 2 \in Segment
      /\ nbaccounts \in Int /\ init_balance \in Int /\ 0 \in 0..(nbaccounts - 1)
  BY BankAssumption DEF Segment
<1>2. /\ \A v \in Int : Readable(Holding(v)) = v
      /\ Readable(NewWord) = 0
  BY HoldingFields, NewWordFields, BankAssumption
<1> DEFINE F == {Account(1, i) : i \in 0..(nbaccounts - 1)}
<1>3. \A w \in F : SegmentOfWord(w) = 1 /\ OffsetOf(w) >= 3
  <2>1. \A i \in 0..(nbaccounts - 1) : SegmentOfWord(Account(1, i)) = 1 /\ OffsetOf(Account(1, i)) = 3 + i
    BY <1>1, Addresses
  <2> QED
    BY <1>1, <2>1
<1>5. /\ CountOf(1) \in Words /\ OffsetOf(CountOf(1)) = 0 /\ SegmentOfWord(CountOf(1)) = 1
      /\ NextOf(1) \in Words /\ OffsetOf(NextOf(1)) = 1 /\ SegmentOfWord(NextOf(1)) = 1
      /\ CountOf(2) \in Words /\ OffsetOf(CountOf(2)) = 0 /\ SegmentOfWord(CountOf(2)) = 2
      /\ Account(2, 0) \in Words /\ OffsetOf(Account(2, 0)) = 3 + 0 /\ SegmentOfWord(Account(2, 0)) = 2
  BY <1>1, Addresses
<1>6. CountOf(1) \notin F /\ NextOf(1) \notin F /\ CountOf(2) \notin F /\ Account(2, 0) \notin F
  BY <1>3, <1>5
<1>d. /\ CountOf(1) \notin {NextOf(1), CountOf(2), Account(2, 0)}
      /\ NextOf(1) \notin {CountOf(2), Account(2, 0)} /\ CountOf(2) # Account(2, 0)
  BY <1>5
<1>4. ASSUME NEW w \in Words
      PROVE  /\ w = CountOf(1) => InitialValue(segs, w) = nbaccounts
             /\ w # CountOf(1) /\ w \in F => InitialValue(segs, w) = init_balance
             /\ w \notin F \cup {CountOf(1)} =>
                  /\ segs = 2 /\ w = NextOf(1) => InitialValue(segs, w) = 2
                  /\ segs = 2 /\ w = CountOf(2) /\ w # NextOf(1) => InitialValue(segs, w) = 1
                  /\ segs = 2 /\ w = Account(2, 0) /\ w \notin {NextOf(1), CountOf(2)}
                       => InitialValue(segs, w) = init_balance
                  /\ segs = 1 \/ w \notin {NextOf(1), CountOf(2), Account(2, 0)}
                       => InitialValue(segs, w) = 0
  <2> DEFINE x == InitialMemory(segs)[w]
  <2>1. ASSUME w = CountOf(1)
        PROVE  x = Holding(nbaccounts)
    BY <1>6, <1>d, <2>1 DEF InitialMemory
  <2>2. ASSUME w \in F
        PROVE  x = Holding(init_balance)
    BY <1>6, <2>2 DEF InitialMemory
  <2>3. ASSUME w \notin F, w # CountOf(1)
        PROVE  /\ segs = 2 /\ w = NextOf(1) => x = Holding(2)
               /\ segs = 2 /\ w = CountOf(2) => x = Holding(1)
               /\ segs = 2 /\ w = Account(2, 0) => x = Holding(init_balance)
               /\ segs = 1 \/ w \notin {NextOf(1), CountOf(2), Account(2, 0)} => x = NewWord
    BY <1>d, <2>3 DEF InitialMemory
  <2>7. InitialValue(segs, w) = Readable(x)
    BY DEF InitialValue
  <2>8. 1 \in Int /\ 2 \in Int
    OBVIOUS
  <2> HIDE DEF x, F
  <2> QED
    BY <1>1, <1>2, <2>1, <2>2, <2>3, <2>7, <2>8
<1>7. InitialValue(segs, CountOf(1)) = nbaccounts
  BY <1>4, <1>5
<1>8. \A i \in 0..(nbaccounts - 1) : InitialValue(segs, Account(1, i)) = init_balance
  <2>1. \A i \in 0..(nbaccounts - 1) : Account(1, i) \in Words /\ Account(1, i) \in F
    BY <1>1, Addresses
  <2> QED
    BY <1>4, <1>6, <2>1
<1>9. ASSUME NEW s \in Segment
      PROVE  /\ InitialValue(segs, ParityOf(s)) = 0
             /\ s # 1 \/ segs = 1 => InitialValue(segs, NextOf(s)) = nullptr
  <2>1. /\ ParityOf(s) \in Words /\ OffsetOf(ParityOf(s)) = 2
        /\ NextOf(s) \in Words /\ OffsetOf(NextOf(s)) = 1 /\ SegmentOfWord(NextOf(s)) = s
    BY Addresses
  <2>2. ParityOf(s) \notin F \cup {CountOf(1), NextOf(1), CountOf(2), Account(2, 0)}
    BY <1>3, <1>5, <2>1
  <2>3. NextOf(s) \notin F \cup {CountOf(1), CountOf(2), Account(2, 0)}
    BY <1>3, <1>5, <2>1
  <2>4. s # 1 => NextOf(s) # NextOf(1)
    BY <1>5, <2>1
  <2> HIDE DEF F
  <2> QED
    BY <1>4, <2>1, <2>2, <2>3, <2>4 DEF nullptr
<1>10. segs = 2 => /\ InitialValue(2, NextOf(1)) = 2
                   /\ InitialValue(2, CountOf(2)) = 1
                   /\ InitialValue(2, Account(2, 0)) = init_balance
  <2>1. NextOf(1) # CountOf(1) /\ CountOf(2) \notin {CountOf(1), NextOf(1)}
        /\ Account(2, 0) \notin {CountOf(1), NextOf(1), CountOf(2)}
    BY <1>5
  <2> HIDE DEF F
  <2> QED
    BY <1>4, <1>5, <1>6, <2>1
<1>11. \A w \in Words \ {NextOf(1), CountOf(2), Account(2, 0)} :
         InitialValue(2, w) = InitialValue(1, w)
  BY DEF InitialMemory, InitialValue
<1> HIDE DEF F
<1> QED
  BY <1>7, <1>8, <1>9, <1>10, <1>11

LEMMA InitialBank ==
  ASSUME NEW segs \in {1, 2}, NEW m, m = [w \in Words |-> InitialValue(segs, w)]
  PROVE  m \in Memories /\ GoodBank(m, 1..segs)
<1> DEFINE k == [w \in Words |-> InitialValue(1, w)]
<1>1. m \in Memories /\ k \in Memories
  BY InitialWords DEF InitialValue, Memories
<1>2. /\ 1 \in Segment /\ 2 \in Segment /\ nbaccounts \in Nat /\ nbaccounts >= 2
      /\ 0 \in 0..(nbaccounts - 1)
  BY BankAssumption DEF Segment
<1>3. /\ \A s \in Segment : CountOf(s) \in Words /\ NextOf(s) \in Words /\ ParityOf(s) \in Words
      /\ \A s \in Segment : \A i \in 0..(nbaccounts - 1) : Account(s, i) \in Words
  BY Addresses
<1>4. /\ k[CountOf(1)] = nbaccounts /\ k[NextOf(1)] = nullptr /\ k[ParityOf(1)] = 0
      /\ k[NextOf(2)] = nullptr /\ k[ParityOf(2)] = 0
      /\ \A i \in 0..(nbaccounts - 1) : k[Account(1, i)] = init_balance
  BY <1>2, <1>3, InitialValues
<1> HIDE DEF k
<1>5. GoodBank(k, {1})
  BY <1>1, <1>4, FirstBank
<1>6. CASE segs = 1
  <2>1. m = k /\ 1..segs = {1}
    BY <1>6 DEF k
  <2> QED
    BY <1>1, <1>5, <2>1
<1>7. CASE segs = 2
  <2>1. m[NextOf(1)] = 2 /\ m[CountOf(2)] = 1 /\ m[Account(2, 0)] = init_balance
    BY <1>2, <1>3, <1>7, InitialValues
  <2>2. \A a \in Words \ {NextOf(1), CountOf(2), Account(2, 0)} : m[a] = k[a]
    BY <1>7, InitialValues DEF k
  <2>3. \A r \in {1} : r < 2
    OBVIOUS
  <2>4. GoodBank(m, {1} \cup {2})
    BY <1>1, <1>2, <1>4, <1>5, <2>1, <2>2, <2>3, AddEffect
  <2>5. {1} \cup {2} = 1..segs
    BY <1>7
  <2> QED
    BY <1>1, <2>4, <2>5
<1> QED
  BY <1>6, <1>7

LEMMA BankInitStm == BankInit => StmInv /\ BatcherInv
<1> SUFFICES ASSUME BankInit
             PROVE  StmInv /\ BatcherInv
  OBVIOUS
<1> USE DEF BankInit
<1>1. BatcherInv
  BY BatcherInitInv
<1>2. /\ word \in [Words -> WordRecord]
      /\ \A w \in Words : ~word[w].written /\ ~word[w].accessed_by_many /\ word[w].last_tx_accessed = 0
  <2>1. word = InitialMemory(top) /\ top \in {1, 2}
    OBVIOUS
  <2>2. InitialMemory(top) = [w \in Words |-> InitialMemory(top)[w]]
    BY DEF InitialMemory
  <2>3. \A w \in Words : /\ word[w] \in WordRecord
                         /\ ~word[w].written /\ ~word[w].accessed_by_many /\ word[w].last_tx_accessed = 0
    BY <2>1, InitialWords
  <2> QED
    BY <2>1, <2>2, <2>3
<1>3. TypeOK
  <2>1. call \in [Tx -> Calls]
    BY DEF NoCall, Calls
  <2>2. target \in [Tx -> Value]
    BY InitValAssumption
  <2> QED
    BY <1>1, <1>2, <2>1, <2>2 DEF TypeOK, BatcherInv
<1>4. WordControl
  BY <1>2 DEF WordControl, WordControlOf, Accessors
<1>5. AccessDiscipline
  BY DEF AccessDiscipline, NoCall
<1> QED
  BY <1>1, <1>3, <1>4, <1>5 DEF StmInv

LEMMA BankInitInv == BankInit => BankInv
<1> SUFFICES ASSUME BankInit
             PROVE  BankInv
  OBVIOUS
<1>1. StmInv /\ BatcherInv
  BY BankInitStm
<1>2. /\ top \in {1, 2} /\ store = 1..top /\ committed = {} /\ frame = [t \in Tx |-> NewFrame]
      /\ \A t \in Tx : /\ pc[t] = "idle" /\ call[t] = NoCall /\ ~doomed[t]
                       /\ readSet[t] = {} /\ writtenSet[t] = {} /\ mine[t] = {} /\ wishes[t] = {}
                       /\ frame[t] = NewFrame
      /\ mine = [t \in Tx |-> {}] /\ wishes = [t \in Tx |-> {}]
  BY DEF BankInit, BatcherInit, Store!Nothing
<1>3. Mem = [w \in Words |-> InitialValue(top, w)]
  BY DEF BankInit, Mem, MemoryOf, InitialValue
<1>4. Mem \in Memories /\ GoodBank(Mem, store)
  BY <1>2, <1>3, InitialBank
<1>5. OutlookMem = Mem /\ OutlookStore = store
  BY <1>2 DEF OutlookMem, MemAfter, OutlookStore, StoreAfter, Mem, MemoryOf
<1>6. ConflictFree
  BY <1>2 DEF ConflictFree, MustPrecede
<1>7. FramesOK
  <2>1. top \in Segment
    BY <1>2, BankAssumption DEF Segment
  <2> QED
    BY <1>2, <2>1, FirstFrames DEF FramesOK
<1>8. FreshSegments
  <2>1. ASSUME NEW s \in Segment, s > top
        PROVE  Mem[NextOf(s)] = nullptr /\ Mem[ParityOf(s)] = 0
    <3>1. NextOf(s) \in Words /\ ParityOf(s) \in Words
      BY Addresses
    <3>2. s # 1
      BY <1>2, <2>1
    <3>3. InitialValue(top, NextOf(s)) = nullptr /\ InitialValue(top, ParityOf(s)) = 0
      BY <1>2, <3>2, InitialValues
    <3> QED
      BY <1>3, <3>1, <3>3
  <2> QED
    BY <1>2, <2>1 DEF FreshSegments
<1>9. CallsOK
  BY <1>2 DEF CallsOK
<1>10. ClosuresOK
  <2>1. ASSUME NEW t \in Tx
        PROVE  TxKnows(t)
    <3>1. DOMAIN Log(t) = {}
      BY <1>2 DEF Log
    <3>2. KnowsAfter(NewFrame, Log(t), {}, NoCall, target[t], Mem, store, {}, {}, is_read_only[t])
      BY <3>1, IdleKnows
    <3> QED
      BY <1>2, <3>2 DEF TxKnows
  <2> QED
    BY <1>2, <2>1 DEF ClosuresOK
<1> QED
  BY <1>1, <1>4, <1>5, <1>6, <1>7, <1>8, <1>9, <1>10 DEF BankInv

\* A step that does nothing.
LEMMA StutterKeeps ==
  ASSUME BankInv, UNCHANGED bankVars
  PROVE  BankInv'
<1>1. StmInv' /\ BatcherInv'
  <2>1. UNCHANGED vars /\ UNCHANGED batcherVars
    BY DEF bankVars, vars
  <2>2. BatcherInv'
    BY <2>1, BatcherFrame DEF BankInv
  <2> QED
    BY <2>1, <2>2, StmStepInv DEF BankInv
<1>2. UNCHANGED <<pc, word, readSet, writtenSet, doomed, call, target, committed, store, mine,
                  wishes, top, frame, is_read_only>>
  BY DEF bankVars, vars, stmVars, batcherVars
<1>3. frame' \in [Tx -> Frames]
  BY <1>2, TopTyped
<1>4. Mem' = Mem /\ \A u \in Tx : Log(u)' = Log(u)
  BY <1>2, OutlookFrame
<1>5. ASSUME NEW u \in Tx
      PROVE  /\ pc'[u] # "running" => frame'[u] = NewFrame
             /\ pc'[u] \notin {"running", "left"} => pc[u] \notin {"running", "left"}
             /\ ~doomed[u] /\ pc'[u] # "left" => TxKnows(u)'
  <2>1. ~doomed[u] /\ pc'[u] # "left" => TxKnows(u)'
    BY <1>2, <1>4, TxFrame DEF BankInv, ClosuresOK
  <2> QED
    BY <1>2, <2>1 DEF BankInv, CallsOK
<1> QED
  BY <1>1, <1>2, <1>3, <1>5, FrameStep

LEMMA BankStepInv == BankInv /\ [BankNext]_bankVars => BankInv'
<1> SUFFICES ASSUME BankInv, [BankNext]_bankVars
             PROVE  BankInv'
  OBVIOUS
<1>1. CASE UNCHANGED bankVars
  BY <1>1, StutterKeeps
<1>2. CASE BankNext
  <2>1. PICK t \in Tx :
          BankBegin(t) \/ LongTx(t) \/ AllocTx(t) \/ ShortTx(t) \/ Access(t) \/ BankEnd(t)
    BY <1>2 DEF BankNext
  <2>2. CASE BankBegin(t)
    BY <2>2, BeginStep
  <2>3. CASE LongTx(t)
    BY <2>3, LongStep
  <2>4. CASE AllocTx(t)
    BY <2>4, AllocReadStep, AllocWriteStep, UnlinkStep, AddStep DEF AllocTx
  <2>5. CASE ShortTx(t)
    BY <2>5, ShortStep
  <2>6. CASE Access(t)
    BY <2>6, AccessKeeps
  <2>7. CASE BankEnd(t)
    BY <2>7, EndKeeps
  <2> QED
    BY <2>1, <2>2, <2>3, <2>4, <2>5, <2>6, <2>7
<1> QED
  BY <1>1, <1>2

LEMMA Greatest ==
  ASSUME NEW T \in (SUBSET Segment) \ {{}}
  PROVE  \E x \in T : \A y \in T : y <= x
<1> DEFINE D == {n \in Nat : \E r \in T : n + r = MaxSegments}
<1>1. MaxSegments \in Nat /\ \A r \in T : r \in Nat /\ r <= MaxSegments
  BY BankAssumption DEF Segment
<1>2. \A r \in T : MaxSegments - r \in D
  BY <1>1
<1>3. D \in (SUBSET Nat) \ {{}}
  BY <1>2
<1> HIDE DEF D
<1>4. PICK n \in D : \A k \in D : n <= k
  BY <1>3, Least
<1> USE DEF D
<1>5. PICK r \in T : n + r = MaxSegments
  BY <1>4
<1>6. n \in Nat
  BY <1>4
<1>7. \A y \in T : n <= MaxSegments - y
  BY <1>2, <1>4
<1> HIDE DEF D
<1>8. ASSUME NEW y \in T
      PROVE  y <= r
  BY <1>1, <1>5, <1>6, <1>7
<1> QED
  BY <1>8

LEMMA SumNonNegative ==
  ASSUME NEW f, IsSummand(f), \A x \in DOMAIN f : f[x] >= 0
  PROVE  SumFunction(f) >= 0
<1>1. PICK g : IsIteration(f, g)
  BY IterationExists
<1> DEFINE N == {n \in Nat : \E s \in SUBSET DOMAIN f : Cardinality(s) = n /\ ~(g[s] >= 0)}
<1>2. ASSUME N # {}
      PROVE  FALSE
  <2>1. N \in (SUBSET Nat) \ {{}}
    BY <1>2
  <2> HIDE DEF N
  <2>2. PICK n \in N : \A k \in N : n <= k
    BY <2>1, Least
  <2> USE DEF N
  <2>3. PICK s \in SUBSET DOMAIN f : Cardinality(s) = n /\ ~(g[s] >= 0)
    BY <2>2
  <2>4. g[s] = Iterate(f, g, s)
    BY <1>1 DEF IsIteration
  <2>5. CASE s = {}
    BY <2>3, <2>4, <2>5 DEF Iterate
  <2>6. CASE s # {}
    <3> DEFINE c == CHOOSE y \in s : TRUE
    <3>1. c \in s /\ g[s] = f[c] + g[s \ {c}]
      BY <2>4, <2>6 DEF Iterate
    <3> HIDE DEF c
    <3>2. IsFiniteSet(s)
      BY FS_Subset DEF IsSummand
    <3>3. /\ Cardinality(s \ {c}) \in Nat /\ Cardinality(s) \in Nat
          /\ Cardinality(s) = Cardinality(s \ {c}) + 1
      BY <3>1, <3>2, SmallerSet
    <3>4. Cardinality(s \ {c}) \notin N
      <4> HIDE DEF N
      <4> QED
        BY <2>2, <2>3, <3>3
    <3>5. g[s \ {c}] >= 0
      BY <3>3, <3>4
    <3>6. g[s \ {c}] \in Int
      BY <1>1, IterationStep
    <3>7. f[c] \in Int /\ f[c] >= 0
      BY <3>1 DEF IsSummand
    <3> HIDE DEF N
    <3> QED
      BY <2>3, <3>1, <3>5, <3>6, <3>7
  <2> QED
    BY <2>5, <2>6
<1>3. IsFiniteSet(DOMAIN f) /\ Cardinality(DOMAIN f) \in Nat
  BY FS_CardinalityType DEF IsSummand
<1>4. g[DOMAIN f] >= 0
  BY <1>2, <1>3
<1> QED
  BY <1>1, <1>4, SumIs

-----------------------------------------------------------------------------
(***************************************************************************)
(* What the invariant says of the bank.                                    *)
(***************************************************************************)

\* The invariant of the bank holds in every state.
THEOREM BankInvariant == BankSpec => []BankInv
BY BankInitInv, BankStepInv, PTL DEF BankSpec

LEMMA InvTypes == BankInv => BankTypeOK
<1> SUFFICES ASSUME BankInv
             PROVE  BankTypeOK
  OBVIOUS
<1>1. /\ TypeOK /\ frame \in [Tx -> Frames] /\ top \in Segment /\ store \subseteq 1..top
      /\ mine \in [Tx -> SUBSET (1..top)] /\ wishes \in [Tx -> SUBSET Segment]
      /\ Value = Int
  BY BankAssumption DEF BankInv, StmInv, FramesOK
<1>2. 1..top \subseteq Segment
  BY <1>1, BankAssumption DEF Segment
<1>3. ASSUME NEW t \in Tx
      PROVE  /\ frame[t].at \in Places
             /\ frame[t].seg \in Segment
             /\ frame[t].prev \in Segment \cup {nullptr}
             /\ frame[t].arg \in Value
             /\ \A p \in Party : frame[t].ptr[p] \in Words \cup {nullptr}
  <2>1. frame[t] \in Frames
    BY <1>1
  <2> QED
    BY <1>1, <2>1 DEF Frames
<1>4. store \subseteq Segment /\ mine \in [Tx -> SUBSET Segment]
  BY <1>1, <1>2
<1> QED
  BY <1>1, <1>3, <1>4 DEF BankTypeOK

\* The contents of words are those of the memory of the epoch.
LEMMA Contents ==
  ASSUME BankInv
  PROVE  /\ \A w \in Words : Content(w) = Mem[w]
         /\ Accounts = AccountsOf(Mem, store)
         /\ Money = MoneyOf(Mem, store)
<1>1. \A w \in Words : Content(w) = Mem[w]
  BY DEF Content, Mem, MemoryOf
<1>2. Mem \in Memories /\ GoodList(Mem, store)
  BY MemTyped DEF BankInv, GoodBank
<1>3. /\ \A s \in store : s \in Segment /\ Mem[CountOf(s)] \in 1..nbaccounts
      /\ nbaccounts \in Nat
  BY <1>2, GoodCounts
<1>4. \A s \in store : /\ Content(CountOf(s)) = Mem[CountOf(s)]
                       /\ Content(ParityOf(s)) = Mem[ParityOf(s)]
  BY <1>1, <1>3, Addresses
<1>5. ASSUME NEW s \in store
      PROVE  Balances(s) = Part(Mem, s, Mem[CountOf(s)])
  <2>1. \A i \in 0..(Mem[CountOf(s)] - 1) : i \in 0..(nbaccounts - 1)
    BY <1>3
  <2>2. \A i \in 0..(Mem[CountOf(s)] - 1) : Content(Account(s, i)) = Mem[Account(s, i)]
    BY <1>1, <1>3, <2>1, Addresses
  <2> QED
    BY <1>4, <2>2 DEF Balances, Part
<1>6. Accounts = AccountsOf(Mem, store)
  BY <1>4 DEF Accounts, AccountsOf
<1>7. Money = MoneyOf(Mem, store)
  BY <1>4, <1>5 DEF Money, MoneyOf, SegmentMoney
<1> QED
  BY <1>1, <1>6, <1>7

LEMMA InvMoney == BankInv => MoneyConstant
<1> SUFFICES ASSUME BankInv
             PROVE  MoneyConstant
  OBVIOUS
<1>1. GoodBank(Mem, store) /\ Mem \in Memories
  BY MemTyped DEF BankInv
<1>2. /\ \A s \in store : s \in Segment /\ Mem[CountOf(s)] \in 1..nbaccounts
      /\ nbaccounts \in Nat
  BY <1>1, GoodCounts DEF GoodBank
<1>3. Money = init_balance * Accounts
  BY <1>1, Contents DEF GoodBank
<1>4. ASSUME NEW s \in store, NEW i \in 0..(Content(CountOf(s)) - 1)
      PROVE  Content(Account(s, i)) >= 0
  <2>1. Content(CountOf(s)) = Mem[CountOf(s)]
    BY <1>2, Contents, Addresses
  <2>2. i \in 0..(Mem[CountOf(s)] - 1) /\ i \in 0..(nbaccounts - 1)
    BY <1>2, <2>1
  <2>3. Content(Account(s, i)) = Mem[Account(s, i)]
    BY <1>2, <2>2, Contents, Addresses
  <2> QED
    BY <1>1, <2>2, <2>3 DEF GoodBank, NoDebts
<1>5. \A t \in Tx : frame[t].at # "violated"
  <2>1. \A t \in Tx : frame[t] \in Frames
    BY TopTyped
  <2> QED
    BY <2>1 DEF Frames
<1> QED
  BY <1>3, <1>4, <1>5 DEF MoneyConstant

LEMMA InvPointers == BankInv => PointersLive
<1> SUFFICES ASSUME BankInv, NEW t \in Tx
             PROVE  /\ call[t] # NoCall => SegmentOfWord(call[t].next) \in store \cup mine[t]
                    /\ After(t, "unlink") => target[t] \in (store \cup mine[t]) \ {1}
  BY DEF PointersLive
<1>1. call[t] # NoCall => SegmentOfWord(call[t].next) \in store \cup mine[t]
  BY DEF BankInv, CallsOK, WordsOf
<1>2. ASSUME After(t, "unlink")
      PROVE  target[t] \in (store \cup mine[t]) \ {1}
  <2>1. Ready(t) /\ frame[t].at = "unlink"
    BY <1>2 DEF After
  <2>2. AllocAt(frame[t], Log(t), readSet[t], target[t], Mem, store, mine[t], wishes[t])
    BY <2>1, ClosureOf DEF Closure, Knows
  <2>3. Unlinking(frame[t], readSet[t], Mem, store) /\ target[t] = frame[t].seg
    BY <2>1, <2>2 DEF AllocAt
  <2> QED
    BY <2>3 DEF Unlinking, Destroyed, Destroying, AtEnd, Walked
<1> QED
  BY <1>1, <1>2

\* A good bank has a segment before every one but the first.
LEMMA Predecessor ==
  ASSUME NEW m \in Memories, NEW T, GoodList(m, T), NEW s \in T, s # 1
  PROVE  \E p \in T : m[NextOf(p)] = s
<1> DEFINE P == {r \in T : r < s}
<1>1. T \subseteq Segment /\ 1 \in T /\ \A r \in T : r \in Nat /\ r >= 1
  BY Addresses DEF GoodList
<1>2. P \in (SUBSET Segment) \ {{}}
  BY <1>1
<1> HIDE DEF P
<1>3. PICK p \in P : \A r \in P : r <= p
  BY <1>2, Greatest
<1> USE DEF P
<1>4. p \in T /\ p < s /\ \A r \in T : r < s => r <= p
  BY <1>3
<1>5. IsInner(m, T, p)
  BY <1>1, <1>4 DEF GoodList, IsLast
<1>6. m[NextOf(p)] \in T /\ m[NextOf(p)] > p /\ s >= m[NextOf(p)]
  BY <1>1, <1>4, <1>5 DEF IsInner
<1>7. ~(m[NextOf(p)] < s)
  BY <1>1, <1>4, <1>6
<1> QED
  BY <1>1, <1>4, <1>6, <1>7

LEMMA TwoAccounts ==
  ASSUME NEW m \in Memories, NEW T, GoodList(m, T)
  PROVE  AccountsOf(m, T) >= 2
<1> DEFINE f == [s \in T |-> m[CountOf(s)]]
           e == Without(f, 1)
<1>1. /\ CountsFit(m, T) /\ nbaccounts \in Nat
      /\ \A s \in T : m[CountOf(s)] \in 1..nbaccounts
      /\ 1 \in T /\ m[CountOf(1)] >= 2
  BY GoodCounts DEF GoodList
<1>2. IsSummand(f) /\ DOMAIN f = T /\ \A s \in T : f[s] = m[CountOf(s)]
  BY <1>1, MoneySummand
<1> HIDE DEF f
<1>3. IsSummand(e) /\ SumFunction(f) = f[1] + SumFunction(e)
  BY <1>1, <1>2, SumStep
<1>4. \A s \in DOMAIN e : e[s] >= 0
  BY <1>1, <1>2 DEF Without
<1> HIDE DEF e
<1>5. SumFunction(e) >= 0 /\ SumFunction(e) \in Int
  BY <1>3, <1>4, SumNonNegative, SumInt
<1>6. f[1] \in Int /\ f[1] >= 2
  BY <1>1, <1>2
<1>7. SumFunction(f) >= 2
  BY <1>3, <1>5, <1>6
<1> QED
  BY <1>7 DEF AccountsOf, f

LEMMA InvList == BankInv => ListShape
<1> SUFFICES ASSUME BankInv
             PROVE  ListShape
  OBVIOUS
<1> DEFINE next(s) == Content(NextOf(s))
           last == {s \in store : next(s) = nullptr}
<1>1. GoodList(Mem, store) /\ Mem \in Memories
  BY MemTyped DEF BankInv, GoodBank
<1>2. /\ \A s \in store : s \in Segment /\ Mem[CountOf(s)] \in 1..nbaccounts
      /\ \A s \in store : s \in Nat /\ s >= 1
      /\ \A s \in store : Mem[NextOf(s)] = nullptr => IsLast(Mem, store, s)
      /\ \A s \in store : Mem[NextOf(s)] # nullptr => IsInner(Mem, store, s)
      /\ 1 \in store
  BY <1>1, GoodCounts, Addresses DEF GoodList, IsLast
<1>3. \A s \in store : next(s) = Mem[NextOf(s)] /\ Content(CountOf(s)) = Mem[CountOf(s)]
  BY <1>2, Contents, Addresses
<1> HIDE DEF next
<1>4. {1} \cup ({next(s) : s \in store} \ {nullptr}) = store
  <2>1. ASSUME NEW s \in store, next(s) # nullptr
        PROVE  next(s) \in store
    BY <1>2, <1>3, <2>1 DEF IsInner
  <2>2. ASSUME NEW s \in store, s # 1
        PROVE  \E p \in store : next(p) = s /\ s # nullptr
    <3>1. PICK p \in store : Mem[NextOf(p)] = s
      BY <1>1, <2>2, Predecessor
    <3> QED
      BY <1>2, <1>3, <3>1 DEF nullptr
  <2> QED
    BY <1>2, <2>1, <2>2
<1>5. \A s \in store \ last : next(s) > s /\ Content(CountOf(s)) = nbaccounts
  BY <1>2, <1>3 DEF IsInner
<1>6. ASSUME NEW r \in store \ last, NEW s \in store \ last, next(r) = next(s)
      PROVE  r = s
  <2>1. /\ IsInner(Mem, store, r) /\ IsInner(Mem, store, s)
        /\ Mem[NextOf(r)] = Mem[NextOf(s)]
    BY <1>2, <1>3, <1>6
  <2>2. r \in Nat /\ s \in Nat /\ Mem[NextOf(s)] \in Nat
    BY <1>2, <2>1 DEF IsInner
  <2>3. ~(r < s) /\ ~(s < r)
    BY <2>1, <2>2 DEF IsInner
  <2> QED
    BY <2>2, <2>3
<1>7. \A s \in last : Content(CountOf(s)) \in 1..nbaccounts
  BY <1>2, <1>3
<1>8. Accounts >= 2
  BY <1>1, Contents, TwoAccounts
<1> HIDE DEF last
<1> QED
  BY <1>4, <1>5, <1>6, <1>7, <1>8 DEF ListShape, next, last

\* Every variable of the bank stays in its type: closures are at segments that
\* exist, and the accounts that short_tx has found are words of the memory.
THEOREM BankTypes == BankSpec => []BankTypeOK
BY BankInvariant, InvTypes, PTL

\* No mix of transfers, new accounts and destroyed ones makes or loses money,
\* no account is overdrawn, and no long_tx sees a sum that is wrong
\* ("Violated isolation or atomicity").
THEOREM BankMoneyConstant == BankSpec => []MoneyConstant
BY BankInvariant, InvMoney, PTL

\* A pointer that a closure follows leads into a segment that is there, so that
\* DualStm::read and DualStm::write find it, and so does the one it frees.
THEOREM BankPointersLive == BankSpec => []PointersLive
BY BankInvariant, InvPointers, PTL

\* The segments of the memory are those of the list, in the order of their
\* allocation: none is leaked and none is linked after it was freed.
THEOREM BankListShape == BankSpec => []ListShape
BY BankInvariant, InvList, PTL

\* The closures write words that they have not read, yet what one transaction
\* of an epoch has read no other one writes: they write such a word only if it
\* is out of everybody else's reach.
THEOREM BankConflictFree == BankSpec => []ConflictFree
<1>1. BankInv => ConflictFree
  BY DEF BankInv
<1> QED
  BY <1>1, BankInvariant, PTL

\* ... so what commits in an epoch of the bank has a serial order, as if every
\* word were read before it is written.
THEOREM BankSerializable == BankSpec => []Serializable
<1>1. BankInv => Serializable
  <2> SUFFICES ASSUME BankInv, NEW S \in (SUBSET Candidates) \ {{}}
               PROVE  \E t \in S : \A u \in S : ~MustPrecede(u, t)
    BY DEF Serializable
  <2>1. PICK t \in S : t \in Tx
    BY DEF Candidates
  <2> QED
    BY <2>1 DEF BankInv, ConflictFree, Candidates
<1> QED
  BY <1>1, BankInvariant, PTL

=============================================================================
