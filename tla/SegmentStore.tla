---------------------------- MODULE SegmentStore ----------------------------
(***************************************************************************)
(* What tm_alloc and tm_free promise.  A transaction allocates segments    *)
(* for itself and asks for segments to be freed.  When the last            *)
(* transaction of an epoch has left, the segments of those that committed  *)
(* appear in the store and what they asked for disappears from it, all at  *)
(* once; the wishes and the segments of the others are forgotten.          *)
(***************************************************************************)
CONSTANTS Tx, Start, First

VARIABLES
  store,       \* the segments everybody may use
  mine,        \* what a transaction of the epoch has allocated
  wishes,      \* what it wants freed
  committed    \* the transactions of the epoch that have committed

vars == <<store, mine, wishes, committed>>

Nothing == [t \in Tx |-> {}]

Init ==
  /\ store = {First}
  /\ mine = Nothing
  /\ wishes = Nothing
  /\ committed = {}

Alloc(t, s) ==
  /\ s \notin store \cup UNION {mine[u] : u \in Tx}
  /\ mine' = [mine EXCEPT ![t] = @ \cup {s}]
  /\ UNCHANGED <<store, wishes, committed>>

Free(t, s) ==
  /\ s \in (store \cup mine[t]) \ {First}
  /\ wishes' = [wishes EXCEPT ![t] = @ \cup {s}]
  /\ UNCHANGED <<store, mine, committed>>

Commit(t) ==
  /\ committed' = committed \cup {t}
  /\ UNCHANGED <<store, mine, wishes>>

\* C are the transactions that committed, the last one to leave included.
EpochEnd(C) ==
  /\ store' = (store \cup UNION {mine[t] : t \in C}) \ UNION {wishes[t] : t \in C}
  /\ mine' = Nothing
  /\ wishes' = Nothing
  /\ committed' = {}

Next ==
  \/ \E t \in Tx :
       \/ \E s \in Start : Alloc(t, s) \/ Free(t, s)
       \/ Commit(t)
       \/ \E C \in {committed, committed \cup {t}} : EpochEnd(C)

Spec == Init /\ [][Next]_vars

=============================================================================
