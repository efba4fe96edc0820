---------------------------- MODULE AtomicMemory ----------------------------
(***************************************************************************)
(* A transactional memory in which transactions happen one after another.  *)
(* Each one works on a view of its own, taken when it begins, in which it  *)
(* may write, allocate and free; the view of a read-write transaction is   *)
(* the memory once it ends, and no other one has ended since it began.     *)
(***************************************************************************)
CONSTANTS Tx, Segment, Value, Zero, Start

VARIABLES
  mem,      \* the memory: its segments and their contents
  view,     \* what a transaction that runs sees
  current,  \* those that run and have not been overtaken by another's end
  readonly, \* those that run and are read-only
  target    \* what each one has read last

vars == <<mem, view, current, readonly, target>>

NoView == [s \in {} |-> Zero]

Running(t) == view[t] # NoView

Init ==
  /\ mem = [s \in {Start} |-> Zero]
  /\ view = [t \in Tx |-> NoView]
  /\ current = {}
  /\ readonly = {}
  /\ target = [t \in Tx |-> Zero]

Begin(t, ro) ==
  /\ ~Running(t)
  /\ view' = [view EXCEPT ![t] = mem]
  /\ current' = current \cup {t}
  /\ readonly' = IF ro THEN readonly \cup {t} ELSE readonly
  /\ UNCHANGED <<mem, target>>

Read(t, s) ==
  /\ s \in DOMAIN view[t]
  /\ target' = [target EXCEPT ![t] = view[t][s]]
  /\ UNCHANGED <<mem, view, current, readonly>>

\* A read-write transaction changes its view.
Change(t, v) ==
  /\ Running(t)
  /\ t \notin readonly
  /\ view' = [view EXCEPT ![t] = v]
  /\ UNCHANGED <<mem, current, readonly, target>>

Write(t, s, v) == s \in DOMAIN view[t] /\ Change(t, [view[t] EXCEPT ![s] = v])

Alloc(t, s) ==
  /\ s \notin DOMAIN view[t]
  /\ Change(t, [x \in DOMAIN view[t] \cup {s} |-> IF x = s THEN Zero ELSE view[t][x]])

Free(t, s) ==
  /\ s \in DOMAIN view[t] \ {Start}
  /\ Change(t, [x \in DOMAIN view[t] \ {s} |-> view[t][x]])

End(t) ==
  /\ Running(t)
  /\ \/ t \in readonly /\ mem' = mem /\ current' = current \ {t}
     \/ t \notin readonly /\ t \in current /\ mem' = view[t] /\ current' = {}
  /\ view' = [view EXCEPT ![t] = NoView]
  /\ readonly' = readonly \ {t}
  /\ UNCHANGED target

Next ==
  \E t \in Tx :
    \/ \E ro \in BOOLEAN : Begin(t, ro)
    \/ \E s \in Segment : Read(t, s) \/ Alloc(t, s) \/ Free(t, s)
    \/ \E s \in Segment, v \in Value : Write(t, s, v)
    \/ End(t)

Spec == Init /\ [][Next]_vars

=============================================================================
