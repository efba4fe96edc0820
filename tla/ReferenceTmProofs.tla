-------------------------- MODULE ReferenceTmProofs --------------------------
(***************************************************************************)
(* Proofs about ReferenceTm, for any set of transactions and of values and *)
(* any number of addresses.                                                *)
(*                                                                         *)
(* The list of segments.  That tm_free of the only node leaves an empty    *)
(* list, and that tm_destroy finds the end of the list only when nothing   *)
(* is left, both need that there is no cycle, in either direction; and     *)
(* tm_destroy runs along next while prev goes stale, so what the two       *)
(* pointers say of each other is stated for the nodes behind the head.     *)
(*                                                                         *)
(* The lock.  Its holders are exactly the transactions that run, which is  *)
(* all the refinement needs: a transaction that writes runs alone, so the  *)
(* memory it works on in place is a view of its own.                       *)
(***************************************************************************)
EXTENDS ReferenceTm, TLAPS

TypeOK ==
  /\ state \in [Tx -> States]
  /\ is_ro \in [Tx -> BOOLEAN]
  /\ word = [s \in DOMAIN word |-> word[s]]
  /\ DOMAIN word \subseteq Segment
  /\ prev \in [Node -> Node \cup {nullptr}]
  /\ next \in [Node -> Node \cup {nullptr}]
  /\ allocs \in Node \cup {nullptr}
  /\ target = [t \in Tx |-> target[t]]
  /\ region \in {"up", "destroying", "gone"}

Reader == {t \in Tx : Running(t) /\ is_ro[t]}

\* The lock is held by those that run, and the memory is there as long as any
\* may.
LockInv ==
  /\ lock = [shared |-> Reader, exclusive |-> Writer]
  /\ Writer # {} => Reader = {} /\ \E t \in Tx : Writer = {t}
  /\ \A t \in Tx : state[t] = "idle" => ~is_ro[t]
  /\ region = "up" => start \in DOMAIN word
  /\ region # "up" => \A t \in Tx : ~Running(t)

\* The list from its head: up to stale pointers of tm_destroy, prev and next
\* undo each other.
Linked ==
  /\ allocs = nullptr => Owned = {}
  /\ allocs \in Owned \cup {nullptr}
  /\ \A n \in Owned :
       /\ prev[n] \in Owned <=> n # allocs
       /\ n # allocs => next[prev[n]] = n
       /\ next[n] \in Owned \cup {nullptr}
       /\ next[n] # nullptr => prev[next[n]] = n
  /\ region = "up" /\ allocs # nullptr => prev[allocs] = nullptr
  /\ region = "gone" => DOMAIN word = {}

\* No set of nodes is closed under next, and none under prev.
Acyclic ==
  /\ \A S \in (SUBSET Owned) \ {{}} : \E n \in S : next[n] \notin S
  /\ \A S \in (SUBSET Owned) \ {{}} : \E n \in S : prev[n] \notin S

ListInv == TypeOK /\ Linked /\ Acyclic


-----------------------------------------------------------------------------

LEMMA Addresses == nullptr \notin Node /\ start \notin Node /\ start # nullptr
BY DEF Node, nullptr, start

LEMMA OwnedNodes ==
  ASSUME TypeOK
  PROVE  Owned \subseteq Node
BY DEF TypeOK, Owned, Segment

LEMMA InitHolds == Init => ListInv /\ LockInv
<1> SUFFICES ASSUME Init
             PROVE  ListInv /\ LockInv
  OBVIOUS
<1>1. TypeOK
  BY DEF Init, TypeOK, States, FirstMemory, Segment
<1>2. Owned = {}
  BY DEF Init, Owned, FirstMemory
<1>3. Linked /\ Acyclic
  BY <1>2 DEF Init, Linked, Acyclic
<1>4. Reader = {} /\ Writer = {}
  BY DEF Init, Reader, Writer, Running
<1>5. LockInv
  BY <1>4 DEF Init, LockInv, FirstMemory, Running
<1> QED
  BY <1>1, <1>3, <1>5 DEF ListInv

\* A step that leaves the list and the memory's extent alone.
LEMMA ListFrame ==
  ASSUME ListInv, TypeOK', UNCHANGED <<listVars, DOMAIN word>>, region' = "gone" => region = "gone",
         region' = "up" => region = "up"
  PROVE  ListInv'
<1>1. Owned' = Owned
  BY DEF Owned
<1> QED
  BY <1>1 DEF ListInv, Linked, Acyclic, listVars

LEMMA TypeStep ==
  ASSUME TypeOK, [Next]_vars
  PROVE  TypeOK'
<1>1. ASSUME NEW t \in Tx, BeginReadOnly(t) \/ BeginReadWrite(t) \/ BeginFails(t) \/ End(t)
      PROVE  TypeOK'
  BY <1>1 DEF TypeOK, States, BeginReadOnly, BeginReadWrite, BeginFails, End, SetState, listVars
<1>2. ASSUME NEW t \in Tx, NEW s \in Segment, Read(t, s)
      PROVE  TypeOK'
  BY <1>2 DEF TypeOK, Read, listVars
<1>3. ASSUME NEW t \in Tx, NEW s \in Segment, NEW v \in Value, Write(t, s, v)
      PROVE  TypeOK'
  BY <1>3 DEF TypeOK, Write, listVars
<1>4. ASSUME NEW t \in Tx, NEW n \in Node, Alloc(t, n)
      PROVE  TypeOK'
  BY <1>4 DEF TypeOK, Alloc, Segment
<1>5. ASSUME NEW t \in Tx, NEW n \in Node, Free(t, n)
      PROVE  TypeOK'
  BY <1>5 DEF TypeOK, Free, Unlink, Bypass, Release, Segment
<1>6. ASSUME Destroy \/ DestroyNext \/ DestroyLast
      PROVE  TypeOK'
  <2>1. allocs # nullptr => allocs \in Node
    BY DEF TypeOK
  <2> QED
    BY <1>6, <2>1 DEF TypeOK, Destroy, DestroyNext, DestroyLast, Release, listVars
<1>7. CASE UNCHANGED vars
  BY <1>7 DEF vars, listVars, TypeOK
<1> QED
  BY <1>1, <1>2, <1>3, <1>4, <1>5, <1>6, <1>7 DEF Next

\* tm_alloc puts a node in front of the list.
LEMMA AllocKeepsList ==
  ASSUME ListInv, LockInv, NEW t \in Tx, NEW n \in Node, Alloc(t, n), TypeOK'
  PROVE  ListInv'
<1>1. Owned' = Owned \cup {n} /\ n \notin Owned /\ Owned \subseteq Node
  BY Addresses, OwnedNodes DEF Alloc, Owned, ListInv
<1>2. /\ allocs' = n
      /\ next'[n] = allocs /\ \A m \in Owned : next'[m] = next[m]
      /\ prev'[n] = nullptr
      /\ \A m \in Owned : prev'[m] = IF m = allocs THEN n ELSE prev[m]
  BY <1>1 DEF Alloc, ListInv, TypeOK
<1>3. region = "up" /\ UNCHANGED region
  BY DEF Alloc, LockInv, ListInv, TypeOK
<1>4. nullptr \notin Owned' /\ n # nullptr /\ nullptr \notin Owned
  BY <1>1, Addresses
<1>5. Linked'
  <2> USE DEF Linked
  <2>1. (allocs = nullptr => Owned = {}) /\ allocs \in Owned \cup {nullptr}
    BY DEF ListInv
  <2>2. ASSUME NEW m \in Owned
        PROVE  /\ prev[m] \in Owned <=> m # allocs
               /\ m # allocs => next[prev[m]] = m
               /\ next[m] \in Owned \cup {nullptr}
               /\ next[m] # nullptr => prev[next[m]] = m
    BY DEF ListInv
  <2>3. ASSUME NEW m \in Owned
        PROVE  /\ prev'[m] \in Owned' <=> m # n
               /\ m # n => next'[prev'[m]] = m
    BY <1>1, <1>2, <1>4, <2>1, <2>2
  <2>4. ASSUME NEW m \in Owned
        PROVE  /\ next'[m] \in Owned' \cup {nullptr}
               /\ next'[m] # nullptr => prev'[next'[m]] = m
    BY <1>1, <1>2, <1>4, <2>1, <2>2
  <2>5. /\ prev'[n] \notin Owned'
        /\ next'[n] \in Owned' \cup {nullptr}
        /\ next'[n] # nullptr => prev'[next'[n]] = n
    BY <1>1, <1>2, <1>4, <2>1
  <2> QED
    BY <1>1, <1>2, <1>3, <2>3, <2>4, <2>5
<1>6. ASSUME NEW S \in (SUBSET Owned') \ {{}}
      PROVE  (\E m \in S : next'[m] \notin S) /\ (\E m \in S : prev'[m] \notin S)
  <2>1. CASE n \in S
    <3>1. prev'[n] \notin S
      BY <1>1, <1>2, <1>4
    <3>2. CASE S = {n}
      BY <1>1, <1>2, <1>4, <2>1, <3>1, <3>2 DEF ListInv, Linked
    <3>3. CASE S # {n}
      <4>1. PICK m \in S \ {n} : next[m] \notin S \ {n}
        BY <1>1, <3>3, S \ {n} \in (SUBSET Owned) \ {{}} DEF ListInv, Acyclic
      <4>2. m \in Owned /\ next[m] \in Owned \cup {nullptr}
        BY <1>1, <4>1 DEF ListInv, Linked
      <4> QED
        BY <1>1, <1>2, <1>4, <2>1, <3>1, <4>1, <4>2
    <3> QED
      BY <3>2, <3>3
  <2>2. CASE n \notin S
    <3>1. S \in (SUBSET Owned) \ {{}}
      BY <1>1, <2>2
    <3>2. PICK m \in S : next[m] \notin S
      BY <3>1 DEF ListInv, Acyclic
    <3>3. PICK k \in S : prev[k] \notin S
      BY <3>1 DEF ListInv, Acyclic
    <3> QED
      BY <1>2, <2>2, <3>1, <3>2, <3>3
  <2> QED
    BY <2>1, <2>2
<1> QED
  BY <1>5, <1>6 DEF ListInv, Acyclic

\* tm_free takes any node out of the list.
LEMMA FreeKeepsList ==
  ASSUME ListInv, LockInv, NEW t \in Tx, NEW n \in Node, Free(t, n), TypeOK'
  PROVE  ListInv'
<1>1. Owned' = Owned \ {n} /\ n \in Owned /\ Owned \subseteq Node
  BY Addresses, OwnedNodes DEF Free, Release, Owned, ListInv
<1>2. \A m \in Owned' :
        /\ next'[m] = IF m = prev[n] THEN next[n] ELSE next[m]
        /\ prev'[m] = IF m = next[n] THEN prev[n] ELSE prev[m]
  BY <1>1 DEF Free, Unlink, Bypass, ListInv, TypeOK
<1>3. allocs' = IF prev[n] = nullptr THEN next[n] ELSE allocs
  BY DEF Free, Unlink, Bypass
<1>4. region = "up" /\ UNCHANGED region
  BY DEF Free, LockInv, ListInv, TypeOK
<1>5. nullptr \notin Owned' /\ n # nullptr /\ nullptr \notin Owned
  BY <1>1, Addresses
<1>6. (allocs = nullptr => Owned = {}) /\ allocs \in Owned \cup {nullptr}
  BY DEF ListInv, Linked
<1>7. ASSUME NEW m \in Owned
      PROVE  /\ prev[m] \in Owned <=> m # allocs
             /\ m # allocs => next[prev[m]] = m
             /\ next[m] \in Owned \cup {nullptr}
             /\ next[m] # nullptr => prev[next[m]] = m
  BY DEF ListInv, Linked
<1>8. allocs # nullptr => prev[allocs] = nullptr
  BY <1>4 DEF ListInv, Linked
\* Seen from its neighbours, n is in one place only.
<1>9. ASSUME NEW m \in Owned
      PROVE  (prev[n] = m <=> next[m] = n) /\ (next[n] = m <=> prev[m] = n) /\ next[m] # m /\ prev[m] # m
  <2>1. \E k \in {m} : next[k] \notin {m}
    BY {m} \in (SUBSET Owned) \ {{}} DEF ListInv, Acyclic
  <2>2. \E k \in {m} : prev[k] \notin {m}
    BY {m} \in (SUBSET Owned) \ {{}} DEF ListInv, Acyclic
  <2>3. (n = allocs => prev[n] = nullptr) /\ (m = allocs => prev[m] = nullptr)
    BY <1>1, <1>5, <1>6, <1>8
  <2>4. prev[n] = m => next[m] = n
    BY <1>1, <1>7
  <2>5. next[m] = n => prev[n] = m
    BY <1>1, <1>5, <1>7
  <2>6. next[n] = m => prev[m] = n
    BY <1>1, <1>5, <1>7
  <2>7. prev[m] = n => next[n] = m
    BY <1>1, <1>7
  <2> QED
    BY <2>1, <2>2, <2>4, <2>5, <2>6, <2>7
<1>10. prev[n] = nullptr <=> n = allocs
  BY <1>1, <1>5, <1>6, <1>7, <1>8
<1>11. Linked'
  <2>1. allocs' \in Owned' \cup {nullptr}
    BY <1>1, <1>3, <1>5, <1>6, <1>7, <1>9, <1>10
  <2>2. ASSUME NEW m \in Owned'
        PROVE  /\ prev'[m] \in Owned' <=> m # allocs'
               /\ m # allocs' => next'[prev'[m]] = m
    <3>1. m \in Owned /\ m # n
      BY <1>1
    <3>2. CASE m = next[n]
      <4>1. prev'[m] = prev[n]
        BY <1>2, <3>2
      <4>2. CASE n = allocs
        BY <1>3, <1>5, <1>10, <3>2, <4>1, <4>2
      <4>3. CASE n # allocs
        <5>1. prev[n] \in Owned /\ next[prev[n]] = n /\ prev[n] # n
          BY <1>1, <1>7, <1>9, <4>3
        <5>2. allocs' = allocs /\ prev[m] = n
          BY <1>3, <1>9, <1>10, <3>1, <3>2, <4>3
        <5>3. m # allocs
          BY <1>1, <1>7, <3>1, <5>2
        <5>4. prev[n] \in Owned' /\ next'[prev[n]] = m
          BY <1>1, <1>2, <3>2, <5>1
        <5> QED
          BY <4>1, <5>2, <5>3, <5>4
      <4> QED
        BY <4>2, <4>3
    <3>3. CASE m # next[n]
      <4>1. prev'[m] = prev[m] /\ prev[m] # n
        BY <1>2, <1>9, <3>1, <3>3
      <4>2. m = allocs' <=> m = allocs
        BY <1>3, <1>10, <3>1, <3>3
      <4>3. m # allocs => prev[m] \in Owned' /\ next[prev[m]] = m
        BY <1>1, <1>7, <3>1, <4>1
      <4>4. m # allocs => prev[m] # prev[n]
        <5> SUFFICES ASSUME m # allocs, prev[m] = prev[n]
                     PROVE  FALSE
          OBVIOUS
        <5>1. prev[n] \in Owned /\ next[prev[n]] = m
          BY <1>7, <3>1
        <5>2. n # allocs
          BY <1>5, <1>10, <5>1
        <5> QED
          BY <1>1, <1>7, <3>1, <5>1, <5>2
      <4>5. m = allocs => prev[m] \notin Owned
        BY <1>7, <3>1
      <4> QED
        BY <1>1, <1>2, <4>1, <4>2, <4>3, <4>4, <4>5
    <3> QED
      BY <3>2, <3>3
  <2>3. ASSUME NEW m \in Owned'
        PROVE  /\ next'[m] \in Owned' \cup {nullptr}
               /\ next'[m] # nullptr => prev'[next'[m]] = m
    <3>1. m \in Owned /\ m # n
      BY <1>1
    <3>2. CASE m = prev[n]
      <4>1. next'[m] = next[n] /\ next[n] \in Owned' \cup {nullptr}
        BY <1>1, <1>2, <1>5, <1>7, <1>9, <3>2
      <4> QED
        BY <1>2, <3>2, <4>1
    <3>3. CASE m # prev[n]
      <4>1. next'[m] = next[m] /\ next[m] \in Owned' \cup {nullptr}
        BY <1>1, <1>2, <1>7, <1>9, <3>1, <3>3
      <4>2. next[m] # nullptr => next[m] # next[n]
        BY <1>1, <1>7, <3>1
      <4> QED
        BY <1>2, <1>7, <3>1, <4>1, <4>2
    <3> QED
      BY <3>2, <3>3
  <2>4. allocs' = nullptr => Owned' = {}
    <3> SUFFICES ASSUME allocs' = nullptr, Owned' # {}
                 PROVE  FALSE
      OBVIOUS
    <3>1. n = allocs /\ next[n] = nullptr
      BY <1>1, <1>3, <1>6, <1>10
    <3>2. PICK m \in Owned' : prev[m] \notin Owned'
      BY <1>1, Owned' \in (SUBSET Owned) \ {{}} DEF ListInv, Acyclic
    <3>3. m \in Owned /\ m # n
      BY <1>1
    <3>4. prev[m] = n
      BY <1>1, <1>7, <3>1, <3>2, <3>3
    <3> QED
      BY <1>5, <1>9, <3>1, <3>3, <3>4
  <2>5. allocs' # nullptr => prev'[allocs'] = nullptr
    <3>1. CASE n = allocs
      BY <1>1, <1>2, <1>3, <1>10, <2>1, <3>1
    <3>2. CASE n # allocs
      <4>1. allocs' = allocs /\ allocs \in Owned'
        BY <1>1, <1>3, <1>6, <1>10, <3>2
      <4>2. allocs # next[n]
        BY <1>1, <1>5, <1>6, <1>8, <1>9
      <4> QED
        BY <1>2, <1>8, <4>1, <4>2
    <3> QED
      BY <3>1, <3>2
  <2> QED
    BY <1>4, <2>1, <2>2, <2>3, <2>4, <2>5 DEF Linked
<1>12. ASSUME NEW S \in (SUBSET Owned') \ {{}}
       PROVE  (\E m \in S : next'[m] \notin S) /\ (\E m \in S : prev'[m] \notin S)
  <2>1. S \cup {n} \in (SUBSET Owned) \ {{}} /\ S \subseteq Owned /\ n \notin S
    BY <1>1
  <2>2. \E m \in S : next'[m] \notin S
    <3>1. PICK k \in S \cup {n} : next[k] \notin S \cup {n}
      BY <2>1 DEF ListInv, Acyclic
    <3>2. PICK m \in S : next[m] \notin S
      BY <2>1 DEF ListInv, Acyclic
    <3>3. CASE k = n
      BY <1>2, <3>1, <3>2, <3>3
    <3>4. CASE k \in S
      <4>1. k # prev[n]
        BY <1>9, <2>1, <3>1, <3>4
      <4> QED
        BY <1>2, <3>1, <3>4, <4>1
    <3> QED
      BY <3>1, <3>3, <3>4
  <2>3. \E m \in S : prev'[m] \notin S
    <3>1. PICK k \in S \cup {n} : prev[k] \notin S \cup {n}
      BY <2>1 DEF ListInv, Acyclic
    <3>2. PICK m \in S : prev[m] \notin S
      BY <2>1 DEF ListInv, Acyclic
    <3>3. CASE k = n
      BY <1>2, <3>1, <3>2, <3>3
    <3>4. CASE k \in S
      <4>1. k # next[n]
        BY <1>9, <2>1, <3>1, <3>4
      <4> QED
        BY <1>2, <3>1, <3>4, <4>1
    <3> QED
      BY <3>1, <3>3, <3>4
  <2> QED
    BY <2>2, <2>3
<1> QED
  BY <1>11, <1>12 DEF ListInv, Acyclic

\* tm_destroy frees the head.
LEMMA DestroyKeepsList ==
  ASSUME ListInv, DestroyNext, TypeOK'
  PROVE  ListInv'
<1>1. allocs \in Owned /\ Owned \subseteq Node /\ nullptr \notin Owned
  BY Addresses, OwnedNodes DEF DestroyNext, ListInv, Linked
<1>2. Owned' = Owned \ {allocs}
  BY DEF DestroyNext, Release, Owned
<1>3. allocs' = next[allocs] /\ UNCHANGED <<prev, next, region>> /\ region = "destroying"
  BY DEF DestroyNext
<1>4. ASSUME NEW m \in Owned
      PROVE  /\ prev[m] \in Owned <=> m # allocs
             /\ m # allocs => next[prev[m]] = m
             /\ next[m] \in Owned \cup {nullptr}
             /\ next[m] # nullptr => prev[next[m]] = m
  BY DEF ListInv, Linked
<1>5. Acyclic'
  BY <1>2, <1>3 DEF ListInv, Acyclic
<1>6. next[allocs] \in Owned' \cup {nullptr}
  BY <1>1, <1>2, <1>4
<1>7. ASSUME NEW m \in Owned'
      PROVE  /\ prev[m] \in Owned' <=> m # allocs'
             /\ next[m] \in Owned' \cup {nullptr}
  BY <1>1, <1>2, <1>3, <1>4
<1>8. allocs' = nullptr => Owned' = {}
  <2> SUFFICES ASSUME allocs' = nullptr, Owned' # {}
               PROVE  FALSE
    OBVIOUS
  <2>1. PICK m \in Owned' : prev[m] \notin Owned'
    BY <1>2, Owned' \in (SUBSET Owned) \ {{}} DEF ListInv, Acyclic
  <2> QED
    BY <1>1, <1>2, <1>7, <2>1
<1>9. Linked'
  BY <1>2, <1>3, <1>4, <1>6, <1>7, <1>8 DEF Linked
<1> QED
  BY <1>5, <1>9 DEF ListInv

LEMMA ListStep ==
  ASSUME ListInv, LockInv, [Next]_vars
  PROVE  ListInv'
<1>1. TypeOK'
  BY TypeStep DEF ListInv
<1>2. ASSUME NEW t \in Tx, BeginReadOnly(t) \/ BeginReadWrite(t) \/ BeginFails(t) \/ End(t)
      PROVE  ListInv'
  <2>1. UNCHANGED <<listVars, word, region>>
    BY <1>2 DEF BeginReadOnly, BeginReadWrite, BeginFails, End
  <2> QED
    BY <1>1, <2>1, ListFrame
<1>3. ASSUME NEW t \in Tx, NEW s \in Segment, Read(t, s)
      PROVE  ListInv'
  BY <1>1, <1>3, ListFrame DEF Read
<1>4. ASSUME NEW t \in Tx, NEW s \in Segment, NEW v \in Value, Write(t, s, v)
      PROVE  ListInv'
  BY <1>1, <1>4, ListFrame DEF Write
<1>5. ASSUME NEW t \in Tx, NEW n \in Node, Alloc(t, n) \/ Free(t, n)
      PROVE  ListInv'
  BY <1>1, <1>5, AllocKeepsList, FreeKeepsList
<1>6. CASE Destroy
  BY <1>1, <1>6, ListFrame DEF Destroy
<1>7. CASE DestroyNext
  BY <1>1, <1>7, DestroyKeepsList
<1>8. CASE DestroyLast
  <2>1. Owned = {} /\ allocs = nullptr
    BY <1>8, OwnedNodes DEF DestroyLast, ListInv, Linked
  <2>2. DOMAIN word' = DOMAIN word \ {start} /\ UNCHANGED listVars /\ region' = "gone"
    BY <1>8 DEF DestroyLast, Release
  <2>3. DOMAIN word' = {} /\ Owned' = {}
    BY <2>1, <2>2 DEF Owned
  <2> QED
    BY <1>1, <2>1, <2>2, <2>3 DEF ListInv, Linked, Acyclic, listVars
<1>9. CASE UNCHANGED vars
  BY <1>1, <1>9, ListFrame DEF vars
<1> QED
  BY <1>2, <1>3, <1>4, <1>5, <1>6, <1>7, <1>8, <1>9 DEF Next

-----------------------------------------------------------------------------

\* Who holds the lock after transaction t has begun or ended.
LEMMA HoldersAfter ==
  ASSUME TypeOK, NEW t \in Tx,
         \A u \in Tx \ {t} : state'[u] = state[u] /\ is_ro'[u] = is_ro[u]
  PROVE  /\ Reader' = IF Running(t)' /\ is_ro'[t] THEN Reader \cup {t} ELSE Reader \ {t}
         /\ Writer' = IF Running(t)' /\ ~is_ro'[t] THEN Writer \cup {t} ELSE Writer \ {t}
BY DEF Reader, Writer, Running

\* A step that neither begins nor ends a transaction.
LEMMA LockFrame ==
  ASSUME LockInv, UNCHANGED <<lock, state, is_ro, region>>, start \in DOMAIN word => start \in DOMAIN word'
  PROVE  LockInv'
BY DEF LockInv, Reader, Writer, Running

LEMMA LockStep ==
  ASSUME TypeOK, LockInv, [Next]_vars
  PROVE  LockInv'
<1>1. ASSUME NEW t \in Tx, BeginReadOnly(t)
      PROVE  LockInv'
  <2>1. /\ region = "up" /\ UNCHANGED <<region, word>> /\ lock.exclusive = {}
        /\ lock' = [lock EXCEPT !.shared = @ \cup {t}]
        /\ state'[t] = "running" /\ is_ro'[t] = TRUE
        /\ \A u \in Tx \ {t} : state'[u] = state[u] /\ is_ro'[u] = is_ro[u]
    BY <1>1 DEF BeginReadOnly, AcquireShared, SetState, TypeOK
  <2>2. Reader' = Reader \cup {t} /\ Writer = {} /\ Writer' = Writer \ {t}
    BY <2>1, HoldersAfter DEF Running, LockInv
  <2>3. lock' = [shared |-> Reader', exclusive |-> Writer']
    BY <2>1, <2>2 DEF LockInv
  <2> QED
    BY <2>1, <2>2, <2>3 DEF LockInv
<1>2. ASSUME NEW t \in Tx, BeginReadWrite(t)
      PROVE  LockInv'
  <2>1. /\ region = "up" /\ UNCHANGED <<region, word, is_ro>> /\ state[t] = "idle"
        /\ lock = [shared |-> {}, exclusive |-> {}] /\ lock' = [lock EXCEPT !.exclusive = {t}]
        /\ state'[t] = "running" /\ \A u \in Tx \ {t} : state'[u] = state[u]
    BY <1>2 DEF BeginReadWrite, Acquire, SetState, TypeOK
  <2>2. ~is_ro'[t] /\ Reader = {} /\ Writer = {}
    BY <2>1 DEF LockInv
  <2>3. Reader' = {} /\ Writer' = {t}
    BY <2>1, <2>2, HoldersAfter DEF Running
  <2> QED
    BY <2>1, <2>2, <2>3 DEF LockInv
<1>3. ASSUME NEW t \in Tx, BeginFails(t)
      PROVE  LockInv'
  <2>1. /\ region = "up" /\ UNCHANGED <<lock, region, word, is_ro>> /\ state[t] = "idle"
        /\ state'[t] = "refused" /\ \A u \in Tx \ {t} : state'[u] = state[u]
    BY <1>3 DEF BeginFails, SetState, TypeOK
  <2>2. Reader' = Reader /\ Writer' = Writer
    BY <2>1 DEF Reader, Writer, Running
  <2> QED
    BY <2>1, <2>2 DEF LockInv
<1>4. ASSUME NEW t \in Tx, End(t)
      PROVE  LockInv'
  <2>1. /\ UNCHANGED <<region, word, is_ro>> /\ Running(t)
        /\ lock' = IF is_ro[t] THEN [lock EXCEPT !.shared = @ \ {t}] ELSE [lock EXCEPT !.exclusive = {}]
        /\ state'[t] = "ended" /\ \A u \in Tx \ {t} : state'[u] = state[u]
    BY <1>4 DEF End, SetState, TypeOK
  <2>2. Reader' = Reader \ {t} /\ Writer' = Writer \ {t} /\ region = "up"
    BY <2>1, HoldersAfter DEF Running, LockInv
  <2>3. lock' = [shared |-> Reader', exclusive |-> Writer']
    <3>1. CASE is_ro[t]
      BY <2>1, <2>2, <3>1 DEF LockInv, Writer
    <3>2. CASE ~is_ro[t]
      <4>1. t \in Writer
        BY <2>1, <3>2 DEF Writer
      <4> QED
        BY <2>1, <2>2, <3>2, <4>1 DEF LockInv
    <3> QED
      BY <3>1, <3>2
  <2>4. Writer' # {} => Reader' = {} /\ \E u \in Tx : Writer' = {u}
    BY <2>2 DEF LockInv
  <2> QED
    BY <2>1, <2>2, <2>3, <2>4 DEF LockInv
<1>5. ASSUME NEW t \in Tx, NEW s \in Segment, Read(t, s)
      PROVE  LockInv'
  BY <1>5, LockFrame DEF Read
<1>6. ASSUME NEW t \in Tx, NEW s \in Segment, NEW v \in Value, Write(t, s, v)
      PROVE  LockInv'
  BY <1>6, LockFrame DEF Write
<1>7. ASSUME NEW t \in Tx, NEW n \in Node, Alloc(t, n) \/ Free(t, n)
      PROVE  LockInv'
  BY <1>7, Addresses, LockFrame DEF Alloc, Free, Release
<1>8. CASE Destroy \/ DestroyNext \/ DestroyLast
  <2>1. UNCHANGED <<lock, state, is_ro>> /\ region' # "up" /\ \A t \in Tx : ~Running(t)
    BY <1>8 DEF Destroy, DestroyNext, DestroyLast, LockInv
  <2> QED
    BY <2>1 DEF LockInv, Reader, Writer, Running
<1>9. CASE UNCHANGED vars
  BY <1>9, LockFrame DEF vars
<1> QED
  BY <1>1, <1>2, <1>3, <1>4, <1>5, <1>6, <1>7, <1>8, <1>9 DEF Next

\* The list has no cycle and its pointers undo each other, and the lock is held
\* by exactly those that run: one writer, or any number of readers.
THEOREM ReferenceInvariant == Spec => [](ListInv /\ LockInv)
<1>1. ListInv /\ LockInv /\ [Next]_vars => (ListInv /\ LockInv)'
  BY ListStep, LockStep DEF ListInv
<1> QED
  BY InitHolds, <1>1, PTL DEF Spec

\* region.allocs holds exactly the segments that exist, whatever the order of
\* tm_alloc and tm_free, and tm_destroy leaves none behind.
THEOREM ReferenceSegmentList == Spec => []SegmentList
<1>1. ListInv => SegmentList
  <2> SUFFICES ASSUME ListInv
               PROVE  SegmentList
    OBVIOUS
  <2>1. Owned \subseteq Node /\ nullptr \notin Owned
    BY Addresses, OwnedNodes DEF ListInv
  <2>2. ASSUME region = "up", NEW n \in Owned
        PROVE  /\ prev[n] = nullptr <=> n = allocs
               /\ prev[n] # nullptr => prev[n] \in Owned /\ next[prev[n]] = n
               /\ next[n] # nullptr => next[n] \in Owned /\ prev[next[n]] = n
    BY <2>1, <2>2 DEF ListInv, Linked
  <2> QED
    BY <2>1, <2>2 DEF SegmentList, ListInv, Linked, Acyclic
<1> QED
  BY ReferenceInvariant, <1>1, PTL

-----------------------------------------------------------------------------

\* What AtomicMemory's variables stand for.
MemOf == IF region # "up" \/ Writer # {} THEN before ELSE word

ViewOf == [t \in Tx |-> IF Running(t) THEN word ELSE [s \in {} |-> InitVal]]

CurrentOf == {t \in Tx : Running(t)}

LEMMA AtomicInit == Init => Atomic!Init
<1> SUFFICES ASSUME Init
             PROVE  Atomic!Init
  OBVIOUS
<1>1. \A t \in Tx : ~Running(t)
  BY DEF Init, Running
<1>2. Writer = {} /\ region = "up"
  BY <1>1 DEF Init, Writer
<1> QED
  BY <1>1, <1>2 DEF Atomic!Init, Atomic!NoView, Init, FirstMemory

\* A step that changes nobody's memory, and no transaction.
LEMMA AtomicFrame ==
  ASSUME UNCHANGED <<state, is_ro, word, region, before, target>>
  PROVE  UNCHANGED Atomic!vars
BY DEF Atomic!vars, Writer, Running

\* The views are those of the transactions that run.
LEMMA ViewsOfThoseThatRun ==
  ASSUME TypeOK, LockInv, NEW t \in Tx
  PROVE  /\ Running(t) => ViewOf[t] = word /\ ViewOf[t] # Atomic!NoView /\ region = "up"
         /\ ~Running(t) => ViewOf[t] = Atomic!NoView
<1>1. Running(t) => start \in DOMAIN word /\ region = "up"
  BY DEF LockInv, TypeOK
<1>2. DOMAIN Atomic!NoView = {}
  BY DEF Atomic!NoView
<1> QED
  BY <1>1, <1>2 DEF ViewOf, Atomic!NoView

LEMMA BeginIsBegin ==
  ASSUME TypeOK, LockInv, LockInv', TypeOK', NEW t \in Tx, BeginReadOnly(t) \/ BeginReadWrite(t),
         NEW ro \in BOOLEAN, is_ro'[t] = ro
  PROVE  Atomic!Begin(t, ro)
<1>1. /\ region = "up" /\ state[t] = "idle" /\ UNCHANGED <<region, word, target>>
      /\ state'[t] = "running" /\ \A u \in Tx \ {t} : state'[u] = state[u] /\ is_ro'[u] = is_ro[u]
      /\ lock.exclusive = {}
  BY DEF BeginReadOnly, BeginReadWrite, AcquireShared, Acquire, SetState, TypeOK
<1>2. Writer = {} /\ MemOf = word
  BY <1>1 DEF LockInv, MemOf
<1>3. MemOf' = word
  <2>1. CASE BeginReadOnly(t)
    <3>1. Writer' = {}
      BY <1>1, <1>2, <2>1, HoldersAfter DEF BeginReadOnly, TypeOK
    <3> QED
      BY <1>1, <3>1 DEF MemOf
  <2>2. CASE BeginReadWrite(t)
    BY <1>1, <2>2 DEF BeginReadWrite, MemOf
  <2> QED
    BY <2>1, <2>2
<1>4. ~Running(t) /\ ViewOf[t] = Atomic!NoView
  BY <1>1, ViewsOfThoseThatRun DEF Running
<1>5. ViewOf' = [ViewOf EXCEPT ![t] = MemOf]
  BY <1>1, <1>2 DEF ViewOf, Running
<1>6. CurrentOf' = CurrentOf \cup {t}
  BY <1>1 DEF CurrentOf, Running
<1>7. Reader' = IF is_ro'[t] THEN Reader \cup {t} ELSE Reader
  BY <1>1, <1>4, HoldersAfter DEF Running, Reader
<1> QED
  BY <1>1, <1>2, <1>3, <1>4, <1>5, <1>6, <1>7
  DEF Atomic!Begin, Atomic!Running, MemOf, ViewOf, CurrentOf, Reader

LEMMA EndIsEnd ==
  ASSUME TypeOK, LockInv, NEW t \in Tx, End(t)
  PROVE  Atomic!End(t)
<1>1. /\ UNCHANGED <<region, word, is_ro, target>> /\ Running(t) /\ region = "up"
      /\ before' = IF is_ro[t] THEN before ELSE FirstMemory
      /\ state'[t] = "ended" /\ \A u \in Tx \ {t} : state'[u] = state[u]
  BY DEF End, SetState, TypeOK, LockInv
<1>2. Reader' = Reader \ {t} /\ Writer' = Writer \ {t}
  BY <1>1, HoldersAfter DEF Running
<1>3. ViewOf[t] = word /\ ViewOf[t] # Atomic!NoView
  BY <1>1, ViewsOfThoseThatRun
<1>4. ViewOf' = [ViewOf EXCEPT ![t] = Atomic!NoView]
  BY <1>1 DEF ViewOf, Running, Atomic!NoView
<1>5. CASE is_ro[t]
  <2>1. t \in Reader /\ Writer = {} /\ Writer' = {}
    BY <1>1, <1>2, <1>5 DEF Reader, LockInv
  <2>2. MemOf' = MemOf
    BY <1>1, <2>1 DEF MemOf
  <2>3. CurrentOf' = CurrentOf \ {t}
    BY <1>1 DEF CurrentOf, Running
  <2> QED
    BY <1>1, <1>2, <1>3, <1>4, <2>1, <2>2, <2>3
    DEF Atomic!End, Atomic!Running, MemOf, ViewOf, CurrentOf, Reader
<1>6. CASE ~is_ro[t]
  <2>1. t \in Writer /\ Writer = {t} /\ Reader = {} /\ Writer' = {}
    BY <1>1, <1>2, <1>6 DEF Writer, LockInv
  <2>2. MemOf' = ViewOf[t]
    BY <1>1, <1>3, <2>1 DEF MemOf
  <2>3. CurrentOf = {t} /\ CurrentOf' = {}
    BY <1>1, <2>1 DEF CurrentOf, Reader, Writer, Running
  <2> QED
    BY <1>1, <1>2, <1>3, <1>4, <2>1, <2>2, <2>3
    DEF Atomic!End, Atomic!Running, MemOf, ViewOf, CurrentOf, Reader
<1> QED
  BY <1>5, <1>6

LEMMA ReadIsRead ==
  ASSUME TypeOK, LockInv, NEW t \in Tx, NEW s \in Segment, Read(t, s)
  PROVE  Atomic!Read(t, s)
<1>1. Running(t) /\ s \in DOMAIN word /\ UNCHANGED <<state, is_ro, word, region, before>>
  BY DEF Read
<1>2. ViewOf[t] = word
  BY <1>1, ViewsOfThoseThatRun
<1>3. UNCHANGED <<MemOf, ViewOf, CurrentOf, Reader>>
  BY <1>1 DEF MemOf, ViewOf, CurrentOf, Reader, Writer, Running
<1> QED
  BY <1>1, <1>2, <1>3 DEF Atomic!Read, Read, MemOf, ViewOf, CurrentOf, Reader

\* The transaction that writes, allocates or frees changes only its own view:
\* no other one runs.
LEMMA ChangeIsChange ==
  ASSUME TypeOK, LockInv, NEW t \in Tx, Running(t), ~is_ro[t],
         UNCHANGED <<state, is_ro, region, before, target>>
  PROVE  Atomic!Change(t, word') /\ ViewOf[t] = word
<1>1. Writer = {t} /\ Reader = {} /\ region = "up"
  BY DEF Writer, LockInv, TypeOK
<1>2. \A u \in Tx : Running(u) <=> u = t
  BY <1>1 DEF Writer, Reader
<1>3. ViewOf[t] = word /\ ViewOf[t] # Atomic!NoView
  BY ViewsOfThoseThatRun
<1>4. ViewOf' = [ViewOf EXCEPT ![t] = word']
  BY <1>2 DEF ViewOf, Running
<1>5. UNCHANGED <<MemOf, CurrentOf, Reader>>
  BY <1>1 DEF MemOf, CurrentOf, Reader, Writer, Running
<1> QED
  BY <1>1, <1>3, <1>4, <1>5 DEF Atomic!Change, Atomic!Running, MemOf, ViewOf, CurrentOf, Reader

LEMMA AtomicStep ==
  ASSUME TypeOK, LockInv, TypeOK', LockInv', [Next]_vars
  PROVE  [Atomic!Next]_Atomic!vars
<1>1. ASSUME NEW t \in Tx, BeginReadOnly(t) \/ BeginReadWrite(t)
      PROVE  Atomic!Next
  <2>1. is_ro'[t] \in BOOLEAN
    BY DEF TypeOK
  <2>2. PICK ro \in BOOLEAN : is_ro'[t] = ro
    BY <2>1
  <2> QED
    BY <1>1, <2>2, BeginIsBegin DEF Atomic!Next
<1>2. ASSUME NEW t \in Tx, BeginFails(t)
      PROVE  UNCHANGED Atomic!vars
  <2>1. \A u \in Tx : Running(u)' = Running(u)
    BY <1>2 DEF BeginFails, SetState, TypeOK, Running
  <2>2. UNCHANGED <<Writer, Reader, is_ro, word, region, before, target>>
    BY <1>2, <2>1 DEF BeginFails, Writer, Reader
  <2> QED
    BY <2>1, <2>2 DEF Atomic!vars, Reader
<1>3. ASSUME NEW t \in Tx, End(t)
      PROVE  Atomic!Next
  BY <1>3, EndIsEnd DEF Atomic!Next
<1>4. ASSUME NEW t \in Tx, NEW s \in Segment, Read(t, s)
      PROVE  Atomic!Next
  BY <1>4, ReadIsRead DEF Atomic!Next
<1>5. ASSUME NEW t \in Tx, NEW s \in Segment, NEW v \in Value, Write(t, s, v)
      PROVE  Atomic!Next
  <2>1. Atomic!Change(t, word') /\ ViewOf[t] = word
    BY <1>5, ChangeIsChange DEF Write
  <2>2. Atomic!Write(t, s, v)
    BY <1>5, <2>1 DEF Atomic!Write, Write, ViewOf
  <2> QED
    BY <2>2 DEF Atomic!Next
<1>6. ASSUME NEW t \in Tx, NEW n \in Node, Alloc(t, n)
      PROVE  Atomic!Next
  <2>1. Atomic!Change(t, word') /\ ViewOf[t] = word
    BY <1>6, ChangeIsChange DEF Alloc
  <2>2. Atomic!Alloc(t, n)
    BY <1>6, <2>1 DEF Atomic!Alloc, Alloc, ViewOf
  <2> QED
    BY <2>2 DEF Atomic!Next, Segment
<1>7. ASSUME NEW t \in Tx, NEW n \in Node, Free(t, n)
      PROVE  Atomic!Next
  <2>1. Atomic!Change(t, word') /\ ViewOf[t] = word
    BY <1>7, ChangeIsChange DEF Free
  <2>2. Atomic!Free(t, n)
    BY <1>7, <2>1, Addresses DEF Atomic!Free, Free, Release, ViewOf
  <2> QED
    BY <2>2 DEF Atomic!Next, Segment
<1>8. CASE Destroy \/ DestroyNext \/ DestroyLast
  <2>1. /\ UNCHANGED <<state, is_ro, target>> /\ region' # "up"
        /\ \A t \in Tx : ~Running(t) /\ ~Running(t)'
        /\ IF region = "up" THEN before' = word ELSE before' = before
    BY <1>8 DEF Destroy, DestroyNext, DestroyLast, LockInv, Running
  <2>2. Writer = {} /\ Writer' = {}
    BY <2>1 DEF Writer
  <2> QED
    BY <2>1, <2>2 DEF Atomic!vars
<1>9. CASE UNCHANGED vars
  BY <1>9, AtomicFrame DEF vars
<1> QED
  BY <1>1, <1>2, <1>3, <1>4, <1>5, <1>6, <1>7, <1>8, <1>9 DEF Next

\* Every behaviour of the reference is one of a memory in which transactions
\* happen one after another, though they work on the memory in place.
THEOREM ReferenceRefinement == Spec => ImplementsAtomicMemory
<1>1. /\ ListInv /\ LockInv /\ (ListInv /\ LockInv)' /\ [Next]_vars
      => [Atomic!Next]_Atomic!vars
  BY AtomicStep DEF ListInv
<1> QED
  BY ReferenceInvariant, AtomicInit, <1>1, PTL DEF Spec, ImplementsAtomicMemory, Atomic!Spec

=============================================================================
