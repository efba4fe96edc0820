---------------------------- MODULE SegmentsProofs ----------------------------
(***************************************************************************)
(* Proofs about Segments, for any finite set of transactions and any       *)
(* sizes.                                                                  *)
(*                                                                         *)
(* The invariant has a part for the maps (ranges of addresses apart from   *)
(* each other, and each map of ends the inverse of its map of starts), one *)
(* for the owners of the Segment objects, one for what transactions hold   *)
(* at the different places where they stand, and one for what the loops of *)
(* onEpochEnd have already done.  The order of the loops shows in the last *)
(* one: no word is touched any more when the loops that delete segments    *)
(* begin.                                                                  *)
(***************************************************************************)
EXTENDS Segments, BatcherProofs, WellFoundedInduction

\* All segments there are, as pairs of a start and a size.
Ranges ==
  {<<s, segments[s]>> : s \in DOMAIN segments}
    \cup UNION {{<<s, allocated[t][s]>> : s \in DOMAIN allocated[t]} : t \in Tx}

\* Range p ends before range q begins.
Below(p, q) == p[1] + p[2] <= q[1]

\* A map of ends is the inverse of the map of sizes it goes with.
EndsMatch(sizes, ends) ==
  /\ DOMAIN ends = {s + sizes[s] : s \in DOMAIN sizes}
  /\ \A s \in DOMAIN sizes : ends[s + sizes[s]] = s

RangesInv ==
  /\ end_address \in Nat \ {0}
  /\ Ranges \subseteq (Nat \ {0}) \X (Nat \ {0})
  /\ \A p \in Ranges : p[1] + p[2] <= end_address /\ (p[1] = 1 \/ p[1] <= MaxAddress)
  /\ \A p, q \in Ranges : p = q \/ Below(p, q) \/ Below(q, p)

MapsInv ==
  /\ RangesInv
  /\ allocated = [t \in Tx |-> allocated[t]]
  /\ allocated_end_addresses = [t \in Tx |-> allocated_end_addresses[t]]
  /\ EndsMatch(segments, addresses)
  /\ \A t \in Tx : EndsMatch(allocated[t], allocated_end_addresses[t])

\* Transactions never have a segment in common, and addSegment gives the memory
\* what was private.
OwnersInv ==
  /\ OwnedOnce
  /\ \A t, u \in Tx : t # u => DOMAIN allocated[t] \cap DOMAIN allocated[u] = {}

Blank(t) == DOMAIN allocated[t] = {} /\ freed[t] = << >> /\ touched[t] = {}

\* Only those that run, and those of the current epoch that have left, hold
\* anything; and who has left as aborted is told from the others by aborted.
HoldersInv ==
  /\ freed \in [Tx -> Seq(Nat)]
  /\ touched \in [Tx -> SUBSET Nat]
  /\ doomed \in [Tx -> BOOLEAN]
  /\ TouchedAlive
  /\ \A t \in Tx :
       /\ pc[t] \in {"idle", "asleep", "woken"} => Blank(t) /\ ~doomed[t]
       /\ pc[t] = "left" /\ epoch[t] # counter => Blank(t)
       /\ t \in committed => ~doomed[t]
       /\ t \in aborted => doomed[t]

\* The transactions that a loop is through with: their words reset, deleted.
Ended == Vectors.committed \cup Vectors.aborted

Reset(u) ==
  /\ u \in Ended
  /\ \/ phase = "commit" /\ u \in Vectors.committed \ todo
     \/ phase = "abort" /\ u \notin todo
     \/ phase \in {"free", "drop"}

Deleted(u) ==
  /\ u \in Ended
  /\ \/ phase = "free" /\ u \in Vectors.committed \ todo
     \/ phase = "drop" /\ u \notin todo

LoopsInv ==
  /\ phase \in Loops
  /\ todo \subseteq Tx
  /\ ender \in Tx
  /\ ~Open =>
       /\ pc[ender] = "running"
       /\ remaining = 1
       /\ todo \subseteq IF phase \in {"add", "commit", "free"} THEN Vectors.committed ELSE Vectors.aborted
       /\ \A u \in Tx :
            /\ Reset(u) => touched[u] = {}
            /\ Deleted(u) => DOMAIN allocated[u] = {} /\ freed[u] = << >>

SegInv == BatcherInv /\ MapsInv /\ OwnersInv /\ HoldersInv /\ LoopsInv

-----------------------------------------------------------------------------

LEMMA NatWellFounded == IsWellFoundedOn({p \in Nat \X Nat : p[1] < p[2]}, Nat)
BY NatLessThanWellFounded DEF OpToRel

\* upper_bound has an answer when there is a greater key.
LEMMA LeastExists ==
  ASSUME NEW T \in (SUBSET Nat) \ {{}}
  PROVE  \E x \in T : \A y \in T : x <= y
<1> DEFINE R == {p \in Nat \X Nat : p[1] < p[2]}
<1>1. PICK x \in T : \A y \in T : ~(<<y, x>> \in R)
  BY NatWellFounded, WFMin
<1>2. \A y \in T : y < x => <<y, x>> \in R
  OBVIOUS
<1> HIDE DEF R
<1>3. ASSUME NEW y \in T
      PROVE  x <= y
  <2>1. ~(y < x)
    BY <1>1, <1>2
  <2> QED
    BY <2>1
<1> QED
  BY <1>3

\* Ranges of addresses that keep apart.
Apart(sizes) ==
  /\ \A s \in DOMAIN sizes : s \in Nat \ {0} /\ sizes[s] \in Nat \ {0}
  /\ \A r, s \in DOMAIN sizes : r = s \/ r + sizes[r] <= s \/ s + sizes[s] <= r

\* Through the map of ends, upper_bound leads to the range that an address is
\* in, and otherwise to one that begins behind it.
LEMMA UpperBoundFinds ==
  ASSUME NEW sizes, NEW ends, NEW a \in Nat, EndsMatch(sizes, ends), Apart(sizes)
  PROVE  /\ \A s \in DOMAIN sizes :
              s <= a /\ a < s + sizes[s] => HasUpperBound(ends, a) /\ ends[UpperBound(ends, a)] = s
         /\ HasUpperBound(ends, a) =>
              \E s \in DOMAIN sizes : ends[UpperBound(ends, a)] = s /\ a < s + sizes[s]
<1> DEFINE IsUpper(e) == e > a /\ \A f \in DOMAIN ends : f > a => e <= f
<1>1. UpperBound(ends, a) = CHOOSE e \in DOMAIN ends : IsUpper(e)
  BY DEF UpperBound
<1>2. DOMAIN ends = {s + sizes[s] : s \in DOMAIN sizes} /\ DOMAIN ends \subseteq Nat
  BY DEF EndsMatch, Apart
<1>3. ASSUME NEW s \in DOMAIN sizes, s <= a, a < s + sizes[s]
      PROVE  HasUpperBound(ends, a) /\ ends[UpperBound(ends, a)] = s
  <2>1. s + sizes[s] \in DOMAIN ends /\ s \in Nat /\ sizes[s] \in Nat
    BY <1>2 DEF Apart
  <2>2. ASSUME NEW f \in DOMAIN ends, f > a
        PROVE  s + sizes[s] <= f
    <3>1. PICK r \in DOMAIN sizes : f = r + sizes[r]
      BY <1>2
    <3>2. r \in Nat /\ sizes[r] \in Nat /\ (r = s \/ r + sizes[r] <= s \/ s + sizes[s] <= r)
      BY DEF Apart
    <3> QED
      BY <1>3, <2>1, <2>2, <3>1, <3>2
  <2>3. IsUpper(s + sizes[s])
    BY <1>3, <2>1, <2>2
  <2>4. \A e \in DOMAIN ends : IsUpper(e) => e = s + sizes[s]
    BY <1>2, <2>1, <2>3
  <2>5. UpperBound(ends, a) = s + sizes[s]
    BY <1>1, <2>1, <2>3, <2>4
  <2> QED
    BY <1>3, <2>1, <2>5 DEF HasUpperBound, EndsMatch
<1>4. ASSUME HasUpperBound(ends, a)
      PROVE  \E s \in DOMAIN sizes : ends[UpperBound(ends, a)] = s /\ a < s + sizes[s]
  <2> DEFINE T == {e \in DOMAIN ends : e > a}
  <2>1. T \in (SUBSET Nat) \ {{}}
    BY <1>2, <1>4 DEF HasUpperBound
  <2>2. \E e \in T : \A f \in T : e <= f
    BY <2>1, LeastExists
  <2>3. \E e \in DOMAIN ends : IsUpper(e)
    BY <2>2
  <2> HIDE DEF T, IsUpper
  <2>4. UpperBound(ends, a) \in DOMAIN ends /\ IsUpper(UpperBound(ends, a))
    BY <1>1, <2>3
  <2>5. PICK s \in DOMAIN sizes : UpperBound(ends, a) = s + sizes[s]
    BY <1>2, <2>4
  <2>6. UpperBound(ends, a) > a
    BY <2>4 DEF IsUpper
  <2>7. s \in Nat /\ sizes[s] \in Nat
    BY DEF Apart
  <2> QED
    BY <2>5, <2>6, <2>7 DEF EndsMatch
<1> QED
  BY <1>3, <1>4

\* What MapsInv says of the maps one by one.
LEMMA MapsApart ==
  ASSUME MapsInv
  PROVE  /\ Apart(segments)
         /\ \A t \in Tx : Apart(allocated[t])
         /\ \A s \in DOMAIN segments : <<s, segments[s]>> \in Ranges
         /\ \A t \in Tx : \A s \in DOMAIN allocated[t] : <<s, allocated[t][s]>> \in Ranges
         /\ \A t \in Tx : \A s \in Usable(t) : <<s, SizeOf(t, s)>> \in Ranges
<1>1. \A s \in DOMAIN segments : <<s, segments[s]>> \in Ranges
  BY DEF Ranges
<1>2. \A t \in Tx : \A s \in DOMAIN allocated[t] : <<s, allocated[t][s]>> \in Ranges
  BY DEF Ranges
<1>3. \A t \in Tx : \A s \in Usable(t) : <<s, SizeOf(t, s)>> \in Ranges
  BY <1>1, <1>2 DEF Usable, SizeOf
<1>4. ASSUME NEW sizes, \A s \in DOMAIN sizes : <<s, sizes[s]>> \in Ranges
      PROVE  Apart(sizes)
  <2>1. ASSUME NEW s \in DOMAIN sizes
        PROVE  s \in Nat \ {0} /\ sizes[s] \in Nat \ {0}
    <3>1. <<s, sizes[s]>> \in (Nat \ {0}) \X (Nat \ {0})
      BY <1>4 DEF MapsInv, RangesInv
    <3> QED
      BY <3>1
  <2>2. ASSUME NEW r \in DOMAIN sizes, NEW s \in DOMAIN sizes
        PROVE  r = s \/ r + sizes[r] <= s \/ s + sizes[s] <= r
    <3>1. <<r, sizes[r]>> = <<s, sizes[s]>> \/ Below(<<r, sizes[r]>>, <<s, sizes[s]>>)
            \/ Below(<<s, sizes[s]>>, <<r, sizes[r]>>)
      BY <1>4 DEF MapsInv, RangesInv
    <3> QED
      BY <3>1 DEF Below
  <2> QED
    BY <2>1, <2>2 DEF Apart
<1> QED
  BY <1>1, <1>2, <1>3, <1>4

\* The same of two segments from anywhere.
LEMMA PairApart ==
  ASSUME MapsInv, NEW r, NEW m, NEW s, NEW n, <<r, m>> \in Ranges, <<s, n>> \in Ranges
  PROVE  /\ r \in Nat \ {0} /\ m \in Nat \ {0}
         /\ r + m <= end_address /\ (r = 1 \/ r <= MaxAddress)
         /\ (r = s /\ m = n) \/ r + m <= s \/ s + n <= r
<1>1. <<r, m>> \in (Nat \ {0}) \X (Nat \ {0})
  BY DEF MapsInv, RangesInv
<1>2. <<r, m>>[1] + <<r, m>>[2] <= end_address /\ (<<r, m>>[1] = 1 \/ <<r, m>>[1] <= MaxAddress)
  BY DEF MapsInv, RangesInv
<1>3. <<r, m>> = <<s, n>> \/ Below(<<r, m>>, <<s, n>>) \/ Below(<<s, n>>, <<r, m>>)
  BY DEF MapsInv, RangesInv
<1> QED
  BY <1>1, <1>2, <1>3 DEF Below

LEMMA InSegment ==
  ASSUME MapsInv, NEW t \in Tx, NEW s \in Usable(t), NEW a \in Nat
  PROVE  a \in AddressesOf(t, s) <=> s <= a /\ a < s + SizeOf(t, s)
<1>1. s \in Nat /\ SizeOf(t, s) \in Nat
  BY MapsApart, PairApart
<1>2. ASSUME s <= a, a < s + SizeOf(t, s)
      PROVE  \E i \in 0..(SizeOf(t, s) - 1) : a = s + i
  <2>1. a - s \in 0..(SizeOf(t, s) - 1) /\ a = s + (a - s)
    BY <1>1, <1>2
  <2> QED
    BY <2>1
<1> QED
  BY <1>1, <1>2 DEF AddressesOf


\* At most one segment has address a.
LEMMA OneSegment ==
  ASSUME MapsInv, NEW t \in Tx, NEW a \in Nat,
         NEW r \in Usable(t), NEW s \in Usable(t),
         r <= a, a < r + SizeOf(t, r), s <= a, a < s + SizeOf(t, s)
  PROVE  r = s
<1>1. /\ r \in Nat /\ SizeOf(t, r) \in Nat /\ s \in Nat /\ SizeOf(t, s) \in Nat
      /\ r = s \/ r + SizeOf(t, r) <= s \/ s + SizeOf(t, s) <= r
  BY MapsApart, PairApart
<1> QED
  BY <1>1

\* Transaction::findSegment: the transaction's own segment with this address,
\* or nullptr.
LEMMA FindAllocatedFinds ==
  ASSUME MapsInv, NEW t \in Tx, NEW a \in Nat
  PROVE  /\ FindAllocated(t, a) \in DOMAIN allocated[t] \cup {NoSegment}
         /\ FindAllocated(t, a) # NoSegment =>
              FindAllocated(t, a) <= a /\ a < FindAllocated(t, a) + allocated[t][FindAllocated(t, a)]
         /\ \A s \in DOMAIN allocated[t] :
              s <= a /\ a < s + allocated[t][s] => FindAllocated(t, a) = s
<1> DEFINE ends == allocated_end_addresses[t]
           start == ends[UpperBound(ends, a)]
<1>1. FindAllocated(t, a) = IF HasUpperBound(ends, a) /\ a >= start THEN start ELSE NoSegment
  BY DEF FindAllocated
<1>2. EndsMatch(allocated[t], ends) /\ Apart(allocated[t])
  BY MapsApart DEF MapsInv
<1>3. /\ \A s \in DOMAIN allocated[t] :
           s <= a /\ a < s + allocated[t][s] => HasUpperBound(ends, a) /\ start = s
      /\ HasUpperBound(ends, a) =>
           \E s \in DOMAIN allocated[t] : start = s /\ a < s + allocated[t][s]
  BY <1>2, UpperBoundFinds
<1> HIDE DEF ends, start
<1>4. \A s \in DOMAIN allocated[t] : s \in Nat /\ allocated[t][s] \in Nat
  BY <1>2 DEF Apart
<1>5. CASE HasUpperBound(ends, a) /\ a >= start
  BY <1>1, <1>3, <1>4, <1>5
<1>6. CASE ~(HasUpperBound(ends, a) /\ a >= start)
  <2>1. \A s \in DOMAIN allocated[t] : ~(s <= a /\ a < s + allocated[t][s])
    BY <1>3, <1>4, <1>6
  <2> QED
    BY <1>1, <1>6, <2>1
<1> QED
  BY <1>5, <1>6

\* DualStm::findSegment: the same for the segments of the memory, below
\* end_address.
LEMMA FindSegmentFinds ==
  ASSUME MapsInv, NEW t \in Tx, NEW a \in Nat, a < end_address
  PROVE  /\ FindSegment(t, a) # NoSegment =>
              /\ FindSegment(t, a) \in Usable(t)
              /\ FindSegment(t, a) <= a /\ a < FindSegment(t, a) + SizeOf(t, FindSegment(t, a))
         /\ \A s \in Usable(t) : s <= a /\ a < s + SizeOf(t, s) => FindSegment(t, a) = s
<1> DEFINE found == IF HasUpperBound(addresses, a) THEN addresses[UpperBound(addresses, a)]
                    ELSE end_address
<1>1. FindSegment(t, a) = IF FindAllocated(t, a) # NoSegment THEN FindAllocated(t, a)
                          ELSE IF a < found THEN NoSegment ELSE found
  BY DEF FindSegment
<1>2. EndsMatch(segments, addresses) /\ Apart(segments) /\ end_address \in Nat
  BY MapsApart DEF MapsInv, RangesInv
<1>3. /\ \A s \in DOMAIN segments :
           s <= a /\ a < s + segments[s] => HasUpperBound(addresses, a) /\ found = s
      /\ HasUpperBound(addresses, a) => \E s \in DOMAIN segments : found = s /\ a < s + segments[s]
      /\ ~HasUpperBound(addresses, a) => found = end_address
  BY <1>2, UpperBoundFinds
<1> HIDE DEF found
<1>4. \A s \in DOMAIN segments : s \in Nat /\ segments[s] \in Nat
  BY <1>2 DEF Apart
<1>5. CASE FindAllocated(t, a) # NoSegment
  <2>1. FindSegment(t, a) = FindAllocated(t, a)
    BY <1>1, <1>5
  <2>2. /\ FindSegment(t, a) \in DOMAIN allocated[t] /\ FindSegment(t, a) \in Usable(t)
        /\ FindSegment(t, a) <= a /\ a < FindSegment(t, a) + SizeOf(t, FindSegment(t, a))
    BY <1>5, <2>1, FindAllocatedFinds DEF Usable, SizeOf
  <2> QED
    BY <2>2, OneSegment
<1>6. CASE FindAllocated(t, a) = NoSegment
  <2>1. ASSUME NEW s \in Usable(t), s <= a, a < s + SizeOf(t, s)
        PROVE  s \in DOMAIN segments /\ a < s + segments[s] /\ s # 0
    <3>1. s # 0
      BY MapsApart, PairApart
    <3>2. s \notin DOMAIN allocated[t]
      BY <1>6, <2>1, <3>1, FindAllocatedFinds DEF SizeOf, NoSegment
    <3> QED
      BY <2>1, <3>1, <3>2 DEF Usable, SizeOf
  <2>2. CASE a < found
    <3>1. \A s \in Usable(t) : ~(s <= a /\ a < s + SizeOf(t, s))
      BY <1>3, <1>4, <2>1, <2>2
    <3> QED
      BY <1>1, <1>6, <2>2, <3>1
  <2>3. CASE ~(a < found)
    <3>1. HasUpperBound(addresses, a)
      BY <1>2, <1>3, <2>3
    <3>2. found \in DOMAIN segments /\ a < found + segments[found] /\ found <= a
      BY <1>3, <1>4, <2>3, <3>1
    <3>3. found \notin DOMAIN allocated[t] \/ SizeOf(t, found) = segments[found]
      <4> SUFFICES ASSUME found \in DOMAIN allocated[t]
                   PROVE  allocated[t][found] = segments[found]
        BY DEF SizeOf
      <4>1. <<found, allocated[t][found]>> \in Ranges /\ <<found, segments[found]>> \in Ranges
        BY <3>2, MapsApart
      <4>2. /\ found \in Nat /\ allocated[t][found] \in Nat \ {0} /\ segments[found] \in Nat \ {0}
            /\ \/ allocated[t][found] = segments[found]
               \/ found + allocated[t][found] <= found \/ found + segments[found] <= found
        BY <4>1, PairApart
      <4> QED
        BY <4>2
    <3>4. FindSegment(t, a) = found /\ found \in Usable(t) /\ a < found + SizeOf(t, found)
      BY <1>1, <1>6, <2>3, <3>2, <3>3 DEF Usable, SizeOf
    <3> QED
      BY <3>2, <3>4, OneSegment
  <2> QED
    BY <2>2, <2>3
<1> QED
  BY <1>5, <1>6

LEMMA LookupRight ==
  ASSUME MapsInv, NEW t \in Tx, NEW a \in 1..(end_address - 1)
  PROVE  FindSegment(t, a) = SegmentOf(t, a)
<1>1. a \in Nat /\ a < end_address
  BY DEF MapsInv, RangesInv
<1>2. \A s \in Usable(t) : a \in AddressesOf(t, s) <=> s <= a /\ a < s + SizeOf(t, s)
  BY <1>1, InSegment
<1>3. CASE \E s \in Usable(t) : a \in AddressesOf(t, s)
  BY <1>1, <1>2, <1>3, FindSegmentFinds DEF SegmentOf
<1>4. CASE ~\E s \in Usable(t) : a \in AddressesOf(t, s)
  BY <1>1, <1>2, <1>4, FindSegmentFinds DEF SegmentOf
<1> QED
  BY <1>3, <1>4

LEMMA UsableApart == MapsInv => SegmentsApart
<1> SUFFICES ASSUME MapsInv, NEW t \in Tx, NEW s \in Usable(t), NEW r \in Usable(t)
             PROVE  s + SizeOf(t, s) <= end_address /\ (r < s => r + SizeOf(t, r) <= s)
  BY DEF SegmentsApart
<1>1. <<s, SizeOf(t, s)>> \in Ranges /\ <<r, SizeOf(t, r)>> \in Ranges
  BY MapsApart
<1>2. /\ s \in Nat /\ r \in Nat /\ SizeOf(t, s) \in Nat /\ s + SizeOf(t, s) <= end_address
      /\ r = s \/ r + SizeOf(t, r) <= s \/ s + SizeOf(t, s) <= r
  BY <1>1, PairApart
<1> QED
  BY <1>2


-----------------------------------------------------------------------------

\* The pairs of maps stay inverse to each other when a segment is put into
\* them, when two pairs are merged, and when a segment is taken out.
LEMMA EndsPut ==
  ASSUME NEW sizes, NEW ends, NEW s, NEW n, EndsMatch(sizes, ends),
         s \notin DOMAIN sizes, s + n \notin DOMAIN ends
  PROVE  EndsMatch(Put(sizes, s, n), Put(ends, s + n, s))
<1>1. /\ DOMAIN Put(sizes, s, n) = DOMAIN sizes \cup {s}
      /\ Put(sizes, s, n)[s] = n /\ \A x \in DOMAIN sizes : Put(sizes, s, n)[x] = sizes[x]
  BY DEF Put
<1>2. /\ DOMAIN Put(ends, s + n, s) = DOMAIN ends \cup {s + n}
      /\ Put(ends, s + n, s)[s + n] = s
      /\ \A e \in DOMAIN ends : Put(ends, s + n, s)[e] = ends[e]
  BY DEF Put
<1>3. \A x \in DOMAIN sizes : x + sizes[x] \in DOMAIN ends
  BY DEF EndsMatch
<1> QED
  BY <1>1, <1>2, <1>3 DEF EndsMatch

LEMMA EndsMerge ==
  ASSUME NEW sizes, NEW ends, NEW sizes2, NEW ends2, EndsMatch(sizes, ends), EndsMatch(sizes2, ends2),
         DOMAIN sizes \cap DOMAIN sizes2 = {}, DOMAIN ends \cap DOMAIN ends2 = {}
  PROVE  EndsMatch(Merge(sizes, sizes2), Merge(ends, ends2))
<1>1. /\ DOMAIN Merge(sizes, sizes2) = DOMAIN sizes \cup DOMAIN sizes2
      /\ \A x \in DOMAIN sizes : Merge(sizes, sizes2)[x] = sizes[x]
      /\ \A x \in DOMAIN sizes2 : Merge(sizes, sizes2)[x] = sizes2[x]
  BY DEF Merge
<1>2. /\ DOMAIN Merge(ends, ends2) = DOMAIN ends \cup DOMAIN ends2
      /\ \A x \in DOMAIN ends : Merge(ends, ends2)[x] = ends[x]
      /\ \A x \in DOMAIN ends2 : Merge(ends, ends2)[x] = ends2[x]
  BY DEF Merge
<1>3. /\ \A x \in DOMAIN sizes : x + sizes[x] \in DOMAIN ends
      /\ \A x \in DOMAIN sizes2 : x + sizes2[x] \in DOMAIN ends2
  BY DEF EndsMatch
<1>4. DOMAIN Merge(ends, ends2) = {x + Merge(sizes, sizes2)[x] : x \in DOMAIN Merge(sizes, sizes2)}
  BY <1>1, <1>2, <1>3 DEF EndsMatch
<1>5. \A x \in DOMAIN Merge(sizes, sizes2) : Merge(ends, ends2)[x + Merge(sizes, sizes2)[x]] = x
  BY <1>1, <1>2, <1>3 DEF EndsMatch
<1> QED
  BY <1>4, <1>5 DEF EndsMatch

LEMMA EndsErase ==
  ASSUME NEW sizes, NEW ends, NEW s \in DOMAIN sizes, EndsMatch(sizes, ends), Apart(sizes)
  PROVE  EndsMatch(Erase(sizes, s), Erase(ends, s + sizes[s]))
<1>1. /\ DOMAIN Erase(sizes, s) = DOMAIN sizes \ {s}
      /\ \A x \in DOMAIN sizes \ {s} : Erase(sizes, s)[x] = sizes[x]
  BY DEF Erase
<1>2. /\ DOMAIN Erase(ends, s + sizes[s]) = DOMAIN ends \ {s + sizes[s]}
      /\ \A e \in DOMAIN ends \ {s + sizes[s]} : Erase(ends, s + sizes[s])[e] = ends[e]
  BY DEF Erase
<1>3. \A x \in DOMAIN sizes \ {s} : x + sizes[x] \in DOMAIN ends \ {s + sizes[s]}
  <2> TAKE x \in DOMAIN sizes \ {s}
  <2>1. /\ x \in Nat /\ s \in Nat /\ sizes[x] \in Nat \ {0} /\ sizes[s] \in Nat \ {0}
        /\ x + sizes[x] <= s \/ s + sizes[s] <= x
    BY DEF Apart
  <2>2. x + sizes[x] # s + sizes[s]
    BY <2>1
  <2> QED
    BY <2>2 DEF EndsMatch
<1> QED
  BY <1>1, <1>2, <1>3 DEF EndsMatch

LEMMA EndsOfEmpty == EndsMatch(Empty, Empty) /\ DOMAIN Empty = {}
BY DEF EndsMatch, Empty

LEMMA FewerRanges ==
  ASSUME RangesInv, Ranges' \subseteq Ranges, end_address' = end_address
  PROVE  RangesInv'
BY DEF RangesInv, Below

\* The ranges after a step, told from the maps.
LEMMA InRanges ==
  ASSUME NEW p \in Ranges
  PROVE  \/ \E s \in DOMAIN segments : p = <<s, segments[s]>>
         \/ \E t \in Tx : \E s \in DOMAIN allocated[t] : p = <<s, allocated[t][s]>>
BY DEF Ranges

LEMMA MapsFrame ==
  ASSUME MapsInv, UNCHANGED <<mapVars, allocated, allocated_end_addresses>>
  PROVE  MapsInv'
<1>1. Ranges' = Ranges
  BY DEF Ranges, mapVars
<1> QED
  BY <1>1, FewerRanges DEF MapsInv, mapVars

LEMMA OwnersFrame ==
  ASSUME OwnersInv, UNCHANGED <<segments, allocated, alive>>,
         \A t \in Tx : Private(t)' = Private(t)
  PROVE  OwnersInv'
BY DEF OwnersInv, OwnedOnce

LEMMA PrivateWhenOpen ==
  ASSUME Open, NEW t \in Tx
  PROVE  Private(t) = DOMAIN allocated[t]
BY DEF Private, HandedOver

\* What the vectors hold for onEpochEnd.
LEMMA VectorsHold ==
  /\ Vectors.committed = committed \cup {u \in {ender} : ~doomed[ender]}
  /\ Vectors.aborted = aborted \cup {u \in {ender} : doomed[ender]}
  /\ Ended = committed \cup aborted \cup {ender}
BY DEF Vectors, Finished, Ended

\* At the end of an epoch, whoever is not in the vectors holds nothing.
LEMMA OthersAreBlank ==
  ASSUME BatcherInv, HoldersInv, ender \in Tx, pc[ender] = "running", remaining = 1
  PROVE  /\ Present = {ender}
         /\ Ended \subseteq Tx
         /\ Vectors.committed \cap Vectors.aborted = {}
         /\ \A u \in Tx : u \in Vectors.committed => ~doomed[u]
         /\ \A u \in Tx : u \in Vectors.aborted => doomed[u]
         /\ \A u \in Tx \ Ended : Blank(u)
<1>1. Present = {ender}
  BY LastIsAlone
<1>2. committed \subseteq Tx /\ aborted \subseteq Tx /\ pc \in [Tx -> PC]
  BY DEF BatcherInv, BatcherTypeOK
<1>3. committed \cup aborted = {t \in Tx : pc[t] = "left" /\ epoch[t] = counter}
        /\ committed \cap aborted = {}
  BY DEF BatcherInv, VectorsAreThisEpoch
<1>4. ender \notin committed \cup aborted
  BY <1>3
<1>5. ASSUME NEW u \in Tx \ Ended
      PROVE  Blank(u)
  <2>1. u # ender /\ u \notin committed \cup aborted
    BY <1>5, VectorsHold
  <2>2. pc[u] # "running"
    BY <1>1, <2>1 DEF Present, BatcherInv, EpochsAndNumbers, RunningInCurrentEpoch
  <2>3. CASE pc[u] = "left"
    BY <1>3, <2>1, <2>3 DEF HoldersInv
  <2>4. CASE pc[u] # "left"
    BY <1>2, <2>2, <2>4 DEF HoldersInv, PC
  <2> QED
    BY <2>3, <2>4
<1>6. \A u \in Tx : u \in Vectors.committed => ~doomed[u]
  BY VectorsHold DEF HoldersInv
<1>7. \A u \in Tx : u \in Vectors.aborted => doomed[u]
  BY VectorsHold DEF HoldersInv
<1>8. Vectors.committed \cap Vectors.aborted = {}
  BY <1>3, <1>4, VectorsHold
<1> QED
  BY <1>1, <1>2, <1>5, <1>6, <1>7, <1>8, VectorsHold


LEMMA SegInit == Init => SegInv
<1> SUFFICES ASSUME Init
             PROVE  SegInv
  OBVIOUS
<1>1. BatcherInv
  BY BatcherInitInv DEF Init
<1>2. /\ DOMAIN segments = {1} /\ segments[1] = FirstSize
      /\ DOMAIN addresses = {1 + FirstSize} /\ addresses[1 + FirstSize] = 1
      /\ end_address = 1 + FirstSize /\ FirstSize \in Nat \ {0}
      /\ \A t \in Tx : allocated[t] = Empty /\ allocated_end_addresses[t] = Empty
  BY SegmentsAssumption DEF Init
<1>3. Ranges = {<<1, FirstSize>>}
  BY <1>2, EndsOfEmpty DEF Ranges
<1>4. RangesInv
  BY <1>2, <1>3 DEF RangesInv
<1>5. EndsMatch(segments, addresses)
  BY <1>2 DEF EndsMatch
<1>6. MapsInv
  BY <1>2, <1>4, <1>5, EndsOfEmpty DEF MapsInv, Init
<1>7. OwnersInv
  <2>1. \A t \in Tx : DOMAIN allocated[t] = {} /\ Private(t) = {}
    BY <1>2, EndsOfEmpty, PrivateWhenOpen DEF Init, Open
  <2> QED
    BY <1>2, <2>1 DEF OwnersInv, OwnedOnce, Init
<1>8. HoldersInv
  BY <1>2, EndsOfEmpty DEF Init, HoldersInv, TouchedAlive, Blank, BatcherInit
<1>9. LoopsInv
  BY DEF Init, LoopsInv, Open, Loops
<1> QED
  BY <1>1, <1>6, <1>7, <1>8, <1>9 DEF SegInv

LEMMA BatcherStep ==
  ASSUME BatcherInv, doomed \in [Tx -> BOOLEAN], ender \in Tx, [Next]_vars
  PROVE  [BatcherNext]_batcherVars /\ BatcherInv'
<1>1. ASSUME NEW t \in Tx, EnterOrWait(t)
      PROVE  BatcherNext
  BY <1>1 DEF EnterOrWait, BatcherNext
<1>2. ASSUME NEW t \in Tx, LeaveOpen(t)
      PROVE  BatcherNext
  <2>1. PICK ok \in BOOLEAN : ok = ~doomed[t]
    OBVIOUS
  <2>2. LeaveEarly(t, ok)
    BY <1>2, <2>1 DEF LeaveOpen, LeaveEarly, Finished
  <2> QED
    BY <2>2 DEF Leave, BatcherNext
<1>3. ASSUME NEW t \in Tx,
             \/ \E n \in Sizes : Alloc(t, n)
             \/ \E s \in Usable(t) : Free(t, s)
             \/ \E a \in 1..MaxAddress : Access(t, a)
             \/ EpochEnds(t)
             \/ AddAllocated(t) \/ ResetTouched(t) \/ FreeNext(t) \/ DeleteTx(t)
      PROVE  UNCHANGED batcherVars
  BY <1>3 DEF Alloc, Free, Access, EpochEnds, AddAllocated, ResetTouched, FreeNext, DeleteTx
<1>4. ASSUME EpochEnded
      PROVE  BatcherNext
  <2>1. PICK ok \in BOOLEAN : ok = ~doomed[ender]
    OBVIOUS
  <2>2. LeaveLast(ender, ok)
    BY <1>4, <2>1 DEF EpochEnded, LeaveLast
  <2> QED
    BY <2>2 DEF Leave, BatcherNext
<1>5. ASSUME NextLoop \/ UNCHANGED vars
      PROVE  UNCHANGED batcherVars
  BY <1>5 DEF NextLoop, vars
<1>6. [BatcherNext]_batcherVars
  BY <1>1, <1>2, <1>3, <1>4, <1>5 DEF Next, OnEpochEnd
<1> QED
  BY <1>6, BatcherStepInv

LEMMA EnterOrWaitInv ==
  ASSUME SegInv, BatcherInv', NEW t \in Tx, EnterOrWait(t)
  PROVE  SegInv'
<1>1. UNCHANGED <<mapVars, txVars, alive, endVars, committed, aborted, counter>>
  BY DEF EnterOrWait, Enter, EnterFirst, EnterBlocked, TestAwake, SpuriousWake
<1>2. MapsInv'
  BY <1>1, MapsFrame DEF SegInv, txVars
<1>3. \A u \in Tx : Private(u)' = Private(u)
  BY <1>1 DEF Private, HandedOver, Open, Vectors, Finished, txVars, endVars
<1>4. OwnersInv'
  BY <1>1, <1>3, OwnersFrame DEF SegInv, txVars, mapVars
<1>5. /\ pc'[t] \in {"asleep", "woken", "running"} /\ pc[t] \in {"idle", "asleep", "woken"}
      /\ \A u \in Tx \ {t} : pc'[u] = pc[u] /\ epoch'[u] = epoch[u]
  BY DEF EnterOrWait, Enter, EnterFirst, EnterBlocked, TestAwake, SpuriousWake, SegInv, BatcherInv,
         BatcherTypeOK
<1>6. HoldersInv'
  BY <1>1, <1>5 DEF SegInv, HoldersInv, TouchedAlive, Blank, txVars
<1>7. LoopsInv'
  <2>1. CASE Open
    BY <1>1, <2>1 DEF SegInv, LoopsInv, Open, endVars
  <2>2. CASE ~Open
    <3>1. SpuriousWake(t) /\ pc[ender] = "running" /\ remaining = 1
      BY <2>2 DEF EnterOrWait, SegInv, LoopsInv
    <3>2. ender # t /\ pc'[ender] = "running" /\ remaining' = 1
      BY <1>5, <3>1 DEF SpuriousWake, SegInv, LoopsInv
    <3>3. UNCHANGED <<Vectors, Ended>>
      BY <1>1 DEF Vectors, Finished, Ended, txVars, endVars
    <3> QED
      BY <1>1, <2>2, <3>2, <3>3 DEF SegInv, LoopsInv, Reset, Deleted, Open, txVars, endVars
  <2> QED
    BY <2>1, <2>2
<1> QED
  BY <1>2, <1>4, <1>6, <1>7 DEF SegInv

\* tm_alloc takes addresses behind all others.
LEMMA AllocInv ==
  ASSUME SegInv, BatcherInv', NEW t \in Tx, NEW n \in Sizes, Alloc(t, n)
  PROVE  SegInv'
<1> DEFINE start == end_address
<1>1. /\ Open /\ pc[t] = "running" /\ start + n <= MaxAddress /\ end_address' = start + n
      /\ alive' = alive \cup {start}
      /\ allocated' = [allocated EXCEPT ![t] = Put(@, start, n)]
      /\ allocated_end_addresses' = [allocated_end_addresses EXCEPT ![t] = Put(@, start + n, start)]
      /\ UNCHANGED <<batcherVars, segments, addresses, freed, touched, doomed, endVars>>
  BY DEF Alloc, Ready, EndAfter
<1>2. start \in Nat \ {0} /\ n \in Nat \ {0} /\ MaxAddress \in Nat
  BY SegmentsAssumption DEF SegInv, MapsInv, RangesInv
<1>3. /\ allocated'[t] = Put(allocated[t], start, n) /\ \A u \in Tx \ {t} : allocated'[u] = allocated[u]
      /\ allocated_end_addresses'[t] = Put(allocated_end_addresses[t], start + n, start)
      /\ \A u \in Tx \ {t} : allocated_end_addresses'[u] = allocated_end_addresses[u]
      /\ allocated' = [u \in Tx |-> allocated'[u]]
      /\ allocated_end_addresses' = [u \in Tx |-> allocated_end_addresses'[u]]
  BY <1>1 DEF SegInv, MapsInv
<1>4. /\ start \notin DOMAIN segments /\ \A u \in Tx : start \notin DOMAIN allocated[u]
      /\ start + n \notin DOMAIN allocated_end_addresses[t]
  <2>1. ASSUME NEW s, NEW m, <<s, m>> \in Ranges
        PROVE  s # start /\ s + m # start + n
    <3>1. s \in Nat \ {0} /\ m \in Nat \ {0} /\ s + m <= start
      BY <2>1, PairApart DEF SegInv
    <3> QED
      BY <1>2, <3>1
  <2>2. start \notin DOMAIN segments
    BY <2>1, MapsApart DEF SegInv
  <2>3. ASSUME NEW u \in Tx, NEW s \in DOMAIN allocated[u]
        PROVE  s # start /\ s + allocated[u][s] # start + n
    <3>1. <<s, allocated[u][s]>> \in Ranges
      BY MapsApart DEF SegInv
    <3> QED
      BY <2>1, <3>1
  <2>4. DOMAIN allocated_end_addresses[t] = {s + allocated[t][s] : s \in DOMAIN allocated[t]}
    BY DEF SegInv, MapsInv, EndsMatch
  <2> QED
    BY <2>2, <2>3, <2>4
<1>5. /\ DOMAIN allocated'[t] = DOMAIN allocated[t] \cup {start} /\ allocated'[t][start] = n
      /\ \A s \in DOMAIN allocated[t] : allocated'[t][s] = allocated[t][s]
  BY <1>3, <1>4 DEF Put
<1>6. ASSUME NEW p \in Ranges'
      PROVE  p \in Ranges \/ p = <<start, n>>
  <2>1. CASE \E s \in DOMAIN segments : p = <<s, segments[s]>>
    BY <2>1 DEF Ranges
  <2>2. CASE \E u \in Tx : \E s \in DOMAIN allocated'[u] : p = <<s, allocated'[u][s]>>
    BY <1>3, <1>5, <2>2 DEF Ranges
  <2> QED
    BY <1>1, <2>1, <2>2 DEF Ranges
<1>7. RangesInv'
  <2>1. Ranges \subseteq (Nat \ {0}) \X (Nat \ {0}) /\ <<start, n>> \in (Nat \ {0}) \X (Nat \ {0})
    BY <1>2 DEF SegInv, MapsInv, RangesInv
  <2>2. \A p \in Ranges : p[1] \in Nat /\ p[2] \in Nat /\ p[1] + p[2] <= start
          /\ (p[1] = 1 \/ p[1] <= MaxAddress) /\ Below(p, <<start, n>>)
    BY <2>1 DEF SegInv, MapsInv, RangesInv, Below
  <2>3. \A p \in Ranges' : p[1] + p[2] <= start + n /\ (p[1] = 1 \/ p[1] <= MaxAddress)
    BY <1>1, <1>2, <1>6, <2>2
  <2>4. \A p, q \in Ranges' : p = q \/ Below(p, q) \/ Below(q, p)
    BY <1>6, <2>2 DEF SegInv, MapsInv, RangesInv
  <2>5. \A p, q \in Ranges' : (p = q \/ Below(p, q) \/ Below(q, p))'
    BY <2>4 DEF Below
  <2>6. end_address' \in Nat \ {0} /\ Ranges' \subseteq (Nat \ {0}) \X (Nat \ {0})
    BY <1>1, <1>2, <1>6, <2>1
  <2> QED
    BY <1>1, <2>3, <2>5, <2>6 DEF RangesInv
<1>8. MapsInv'
  <2>1. EndsMatch(allocated'[t], allocated_end_addresses'[t])
    BY <1>3, <1>4, EndsPut DEF SegInv, MapsInv
  <2>2. \A u \in Tx : EndsMatch(allocated'[u], allocated_end_addresses'[u])
    BY <1>3, <2>1 DEF SegInv, MapsInv
  <2> QED
    BY <1>1, <1>3, <1>7, <2>2 DEF SegInv, MapsInv
<1>9. OwnersInv'
  <2>1. Open'
    BY <1>1 DEF Open, endVars
  <2>2. \A u \in Tx : Private(u) = DOMAIN allocated[u] /\ Private(u)' = DOMAIN allocated'[u]
    BY <1>1, <2>1 DEF Private, HandedOver
  <2>3. \A u, v \in Tx : u # v => DOMAIN allocated'[u] \cap DOMAIN allocated'[v] = {}
    BY <1>3, <1>4, <1>5 DEF SegInv, OwnersInv
  <2>4. \A u \in Tx : DOMAIN allocated'[u] \cap DOMAIN segments = {}
    BY <1>3, <1>4, <1>5, <2>2 DEF SegInv, OwnersInv, OwnedOnce
  <2>5. \A x : x \in alive' <=> x \in DOMAIN segments \/ \E u \in Tx : x \in DOMAIN allocated'[u]
    <3>1. \A x : x \in alive <=> x \in DOMAIN segments \/ \E u \in Tx : x \in DOMAIN allocated[u]
      BY <2>2 DEF SegInv, OwnersInv, OwnedOnce
    <3>2. \A x : (\E u \in Tx : x \in DOMAIN allocated'[u])
                   <=> (\E u \in Tx : x \in DOMAIN allocated[u]) \/ x = start
      BY <1>3, <1>5
    <3> QED
      BY <1>1, <3>1, <3>2
  <2>6. alive' = DOMAIN segments \cup UNION {Private(u)' : u \in Tx}
    BY <2>2, <2>5
  <2> QED
    BY <1>1, <2>2, <2>3, <2>4, <2>6 DEF OwnersInv, OwnedOnce
<1>10. HoldersInv'
  BY <1>1, <1>3 DEF SegInv, HoldersInv, TouchedAlive, Blank, batcherVars
<1>11. LoopsInv'
  BY <1>1 DEF SegInv, LoopsInv, Open, endVars
<1> QED
  BY <1>8, <1>9, <1>10, <1>11 DEF SegInv


\* A step of a transaction while no epoch is ending.
LEMMA OpenFrame ==
  ASSUME SegInv, Open, Open', UNCHANGED <<mapVars, allocated, allocated_end_addresses, alive, todo, ender>>
  PROVE  MapsInv' /\ OwnersInv' /\ LoopsInv'
<1>1. MapsInv'
  BY MapsFrame DEF SegInv
<1>2. \A u \in Tx : Private(u)' = Private(u)
  BY DEF Private, HandedOver
<1>3. OwnersInv'
  BY <1>2, OwnersFrame DEF SegInv, mapVars
<1>4. LoopsInv'
  BY DEF SegInv, LoopsInv, Open
<1> QED
  BY <1>1, <1>3, <1>4

LEMMA FreeInv ==
  ASSUME SegInv, BatcherInv', NEW t \in Tx, NEW s \in Usable(t), Free(t, s)
  PROVE  SegInv'
<1>1. /\ pc[t] = "running" /\ Open /\ Open'
      /\ freed' = [freed EXCEPT ![t] = Append(@, s)]
      /\ UNCHANGED <<batcherVars, mapVars, allocated, allocated_end_addresses, touched, doomed,
                     alive, endVars>>
  BY DEF Free, Ready, Open, endVars
<1>2. s \in Nat
  <2>1. <<s, SizeOf(t, s)>> \in Ranges
    BY MapsApart DEF SegInv
  <2> QED
    BY <2>1, PairApart DEF SegInv
<1>3. /\ freed' \in [Tx -> Seq(Nat)]
      /\ \A u \in Tx \ {t} : freed'[u] = freed[u]
  BY <1>1, <1>2 DEF SegInv, HoldersInv
<1>4. HoldersInv'
  BY <1>1, <1>3 DEF SegInv, HoldersInv, TouchedAlive, Blank, batcherVars
<1> QED
  BY <1>1, <1>4, OpenFrame DEF SegInv, endVars

\* The word that is accessed is in a segment that the transaction may use.
LEMMA AccessFinds ==
  ASSUME SegInv, NEW t \in Tx, NEW a \in 1..MaxAddress, Access(t, a)
  PROVE  FindSegment(t, a) \in Usable(t) /\ FindSegment(t, a) \in alive \cap Nat
<1>1. PICK s \in Usable(t) : a \in AddressesOf(t, s)
  BY DEF Access
<1>2. Open /\ a \in Nat
  BY SegmentsAssumption DEF Access, Ready
<1>3. s <= a /\ a < s + SizeOf(t, s)
  BY <1>1, <1>2, InSegment DEF SegInv
<1>4. <<s, SizeOf(t, s)>> \in Ranges
  BY MapsApart DEF SegInv
<1>5. s \in Nat /\ SizeOf(t, s) \in Nat /\ s + SizeOf(t, s) <= end_address /\ end_address \in Nat
  BY <1>4, PairApart DEF SegInv, MapsInv, RangesInv
<1>6. a < end_address
  BY <1>2, <1>3, <1>5
<1>7. FindSegment(t, a) = s
  BY <1>2, <1>3, <1>6, FindSegmentFinds DEF SegInv
<1>8. s \in alive
  BY <1>2, PrivateWhenOpen DEF Usable, SegInv, OwnersInv, OwnedOnce
<1> QED
  BY <1>5, <1>7, <1>8

LEMMA AccessInv ==
  ASSUME SegInv, BatcherInv', NEW t \in Tx, NEW a \in 1..MaxAddress, Access(t, a)
  PROVE  SegInv'
<1>1. /\ pc[t] = "running" /\ Open /\ Open'
      /\ UNCHANGED <<batcherVars, mapVars, allocated, allocated_end_addresses, freed, alive, endVars>>
  BY DEF Access, Ready, Open, endVars
<1>2. t \notin committed /\ t \notin aborted
  BY <1>1 DEF SegInv, BatcherInv, VectorsAreThisEpoch
<1>3. CASE touched' = [touched EXCEPT ![t] = @ \cup {FindSegment(t, a)}] /\ UNCHANGED doomed
  <2> DEFINE f == FindSegment(t, a)
  <2>1. f \in alive \cap Nat
    BY AccessFinds
  <2> HIDE DEF f
  <2>2. /\ touched' \in [Tx -> SUBSET Nat] /\ touched'[t] = touched[t] \cup {f}
        /\ \A u \in Tx \ {t} : touched'[u] = touched[u]
    BY <1>3, <2>1 DEF SegInv, HoldersInv, f
  <2>3. HoldersInv'
    BY <1>1, <1>3, <2>1, <2>2 DEF SegInv, HoldersInv, TouchedAlive, Blank, batcherVars
  <2> QED
    BY <1>1, <2>3, OpenFrame DEF SegInv, endVars
<1>4. CASE doomed' = [doomed EXCEPT ![t] = TRUE] /\ UNCHANGED touched
  <2>1. HoldersInv'
    BY <1>1, <1>2, <1>4 DEF SegInv, HoldersInv, TouchedAlive, Blank, batcherVars
  <2> QED
    BY <1>1, <2>1, OpenFrame DEF SegInv, endVars
<1> QED
  BY <1>3, <1>4 DEF Access

LEMMA LeaveOpenInv ==
  ASSUME SegInv, BatcherInv', NEW t \in Tx, LeaveOpen(t)
  PROVE  SegInv'
<1>1. /\ pc[t] = "running" /\ Open /\ Open' /\ pc' = [pc EXCEPT ![t] = "left"]
      /\ committed' = committed \cup {u \in {t} : ~doomed[t]}
      /\ aborted' = aborted \cup {u \in {t} : doomed[t]}
      /\ UNCHANGED <<counter, epoch, mapVars, txVars, alive, endVars>>
  BY DEF LeaveOpen, LeaveEarly, Finished, Open, endVars
<1>2. epoch[t] = counter
  BY <1>1 DEF SegInv, BatcherInv, EpochsAndNumbers, RunningInCurrentEpoch
<1>3. pc'[t] = "left" /\ \A u \in Tx \ {t} : pc'[u] = pc[u]
  BY <1>1 DEF SegInv, BatcherInv, BatcherTypeOK
<1>4. HoldersInv'
  BY <1>1, <1>2, <1>3 DEF SegInv, HoldersInv, TouchedAlive, Blank, txVars
<1> QED
  BY <1>1, <1>4, OpenFrame DEF SegInv, endVars, txVars

LEMMA EpochEndsInv ==
  ASSUME SegInv, BatcherInv', NEW t \in Tx, EpochEnds(t)
  PROVE  SegInv'
<1>1. /\ Open /\ ~Open' /\ pc[t] = "running" /\ remaining = 1 /\ ender' = t /\ phase' = "add"
      /\ todo' = Finished(t, ~doomed[t]).committed
      /\ UNCHANGED <<batcherVars, mapVars, txVars, alive>>
  BY DEF EpochEnds, Open
<1>2. todo' = Vectors.committed' /\ todo' \subseteq Tx
  BY <1>1 DEF Vectors, Finished, SegInv, BatcherInv, BatcherTypeOK, batcherVars, txVars
<1>3. \A u \in Tx : Private(u)' = Private(u)
  BY <1>1, <1>2 DEF Private, HandedOver, txVars
<1>4. MapsInv' /\ OwnersInv'
  BY <1>1, <1>3, MapsFrame, OwnersFrame DEF SegInv, mapVars, txVars
<1>5. HoldersInv'
  BY <1>1 DEF SegInv, HoldersInv, TouchedAlive, Blank, batcherVars, txVars
<1>6. LoopsInv'
  <2>1. \A u \in Tx : ~Reset(u)' /\ ~Deleted(u)'
    BY <1>1 DEF Reset, Deleted
  <2> QED
    BY <1>1, <1>2, <2>1 DEF LoopsInv, Loops, batcherVars
<1> QED
  BY <1>4, <1>5, <1>6 DEF SegInv


\* What every step inside onEpochEnd can rely on.
LEMMA WhileEnding ==
  ASSUME SegInv, ~Open
  PROVE  /\ pc[ender] = "running" /\ remaining = 1 /\ ender \in Tx
         /\ Ended \subseteq Tx /\ Ended = Vectors.committed \cup Vectors.aborted
         /\ Vectors.committed \cap Vectors.aborted = {}
         /\ \A u \in Tx : u \in Vectors.committed => ~doomed[u]
         /\ \A u \in Tx : u \in Vectors.aborted => doomed[u]
         /\ \A u \in Tx \ Ended : Blank(u)
         /\ phase \in {"free", "drop"} => \A u \in Tx : touched[u] = {}
<1>1. ender \in Tx /\ pc[ender] = "running" /\ remaining = 1
  BY DEF SegInv, LoopsInv
<1>2. BatcherInv /\ HoldersInv
  BY DEF SegInv
<1>3. phase \in {"free", "drop"} => \A u \in Tx : touched[u] = {}
  BY <1>1, <1>2, OthersAreBlank DEF SegInv, LoopsInv, Reset, Blank
<1> QED
  BY <1>1, <1>2, <1>3, OthersAreBlank DEF Ended

LEMMA NextLoopInv ==
  ASSUME SegInv, BatcherInv', NextLoop
  PROVE  SegInv'
<1>1. /\ ~Open /\ phase \in {"add", "commit", "abort", "free"} /\ todo = {}
      /\ phase' = After(phase) /\ todo' = LoopOver(phase')
      /\ UNCHANGED <<batcherVars, mapVars, txVars, alive, ender, Vectors, Ended>>
  BY DEF NextLoop, Open, SegInv, LoopsInv, Loops, Vectors, Finished, Ended, batcherVars, txVars
<1>2. phase' = CASE phase = "add" -> "commit" [] phase = "commit" -> "abort"
                 [] phase = "abort" -> "free" [] OTHER -> "drop"
  BY <1>1 DEF After
<1>3. todo' = IF phase' \in {"commit", "free"} THEN Vectors.committed ELSE Vectors.aborted
  BY <1>1 DEF LoopOver
<1>4. ~Open' /\ phase' # "add" /\ phase' \in Loops
  BY <1>1, <1>2 DEF Open, Loops
<1>5. \A u \in Tx : Private(u)' = Private(u)
  BY <1>1, <1>4 DEF Private, HandedOver, txVars
<1>6. MapsInv' /\ OwnersInv'
  BY <1>1, <1>5, MapsFrame, OwnersFrame DEF SegInv, mapVars, txVars
<1>7. HoldersInv'
  BY <1>1 DEF SegInv, HoldersInv, TouchedAlive, Blank, batcherVars, txVars
<1>8. LoopsInv'
  <2>1. \A u \in Tx : Reset(u)' => Reset(u)
    BY <1>1, <1>2, <1>3, WhileEnding DEF Reset
  <2>2. \A u \in Tx : Deleted(u)' => Deleted(u)
    BY <1>1, <1>2, <1>3, WhileEnding DEF Deleted
  <2>3. todo' \subseteq Tx /\ todo' \subseteq IF phase' \in {"add", "commit", "free"}
                                             THEN Vectors.committed ELSE Vectors.aborted
    BY <1>1, <1>3, <1>4, WhileEnding
  <2> QED
    BY <1>1, <1>4, <2>1, <2>2, <2>3 DEF SegInv, LoopsInv, batcherVars, txVars
<1> QED
  BY <1>6, <1>7, <1>8 DEF SegInv

\* addSegment for all that a transaction has allocated.
LEMMA AddAllocatedInv ==
  ASSUME SegInv, BatcherInv', NEW u \in Tx, AddAllocated(u)
  PROVE  SegInv'
<1>1. /\ ~Open /\ ~Open' /\ phase = "add" /\ u \in todo /\ todo' = todo \ {u}
      /\ segments' = Merge(segments, allocated[u])
      /\ addresses' = Merge(addresses, allocated_end_addresses[u])
      /\ UNCHANGED <<batcherVars, end_address, txVars, alive, phase, ender, Vectors, Ended>>
  BY DEF AddAllocated, Open, Vectors, Finished, Ended, batcherVars, txVars
<1>2. u \in Vectors.committed
  BY <1>1 DEF SegInv, LoopsInv
<1>3. /\ \A v \in Tx : Private(v) = IF v \in Vectors.committed \ todo THEN {} ELSE DOMAIN allocated[v]
      /\ \A v \in Tx : Private(v)' = IF v \in Vectors.committed \ todo' THEN {} ELSE DOMAIN allocated[v]
  BY <1>1 DEF Private, HandedOver, txVars
<1>4. DOMAIN segments \cap DOMAIN allocated[u] = {}
  BY <1>1, <1>3 DEF SegInv, OwnersInv, OwnedOnce
<1>5. /\ DOMAIN segments' = DOMAIN segments \cup DOMAIN allocated[u]
      /\ \A s \in DOMAIN segments : segments'[s] = segments[s]
      /\ \A s \in DOMAIN allocated[u] : segments'[s] = allocated[u][s]
  BY <1>1, <1>4 DEF Merge
<1>6. Ranges' \subseteq Ranges
  BY <1>1, <1>5 DEF Ranges, txVars
<1>7. DOMAIN addresses \cap DOMAIN allocated_end_addresses[u] = {}
  <2> SUFFICES ASSUME NEW s \in DOMAIN segments, NEW r \in DOMAIN allocated[u],
                      s + segments[s] = r + allocated[u][r]
               PROVE  FALSE
    BY DEF SegInv, MapsInv, EndsMatch
  <2>1. <<s, segments[s]>> \in Ranges /\ <<r, allocated[u][r]>> \in Ranges
    BY MapsApart DEF SegInv
  <2>2. /\ s \in Nat /\ r \in Nat /\ segments[s] \in Nat \ {0} /\ allocated[u][r] \in Nat \ {0}
        /\ s = r \/ s + segments[s] <= r \/ r + allocated[u][r] <= s
    BY <2>1, PairApart DEF SegInv
  <2>3. s # r
    BY <1>4
  <2> QED
    BY <2>2, <2>3
<1>8. MapsInv'
  <2>1. RangesInv'
    BY <1>1, <1>6, FewerRanges DEF SegInv, MapsInv
  <2>2. EndsMatch(segments', addresses')
    BY <1>1, <1>4, <1>7, EndsMerge DEF SegInv, MapsInv
  <2> QED
    BY <1>1, <2>1, <2>2 DEF SegInv, MapsInv, txVars
<1>9. OwnersInv'
  <2>1. \A v \in Tx \ {u} : Private(v)' = Private(v)
    BY <1>1, <1>3
  <2>2. Private(u) = DOMAIN allocated[u] /\ Private(u)' = {}
    BY <1>1, <1>2, <1>3
  <2>3. \A x : x \in alive <=> x \in DOMAIN segments \/ \E v \in Tx : x \in Private(v)
    BY DEF SegInv, OwnersInv, OwnedOnce
  <2>4. \A x : x \in alive' <=> x \in DOMAIN segments' \/ \E v \in Tx : x \in Private(v)'
    BY <1>1, <1>5, <2>1, <2>2, <2>3
  <2>5. \A v \in Tx : Private(v)' \cap DOMAIN segments' = {}
    BY <1>5, <2>1, <2>2 DEF SegInv, OwnersInv, OwnedOnce
  <2>6. \A v, w \in Tx : v # w => Private(v)' \cap Private(w)' = {}
    BY <2>1, <2>2 DEF SegInv, OwnersInv, OwnedOnce
  <2>7. alive' = DOMAIN segments' \cup UNION {Private(v)' : v \in Tx}
    BY <2>4
  <2> QED
    BY <1>1, <2>5, <2>6, <2>7 DEF SegInv, OwnersInv, OwnedOnce, txVars
<1>10. HoldersInv'
  BY <1>1 DEF SegInv, HoldersInv, TouchedAlive, Blank, batcherVars, txVars
<1>11. LoopsInv'
  BY <1>1 DEF SegInv, LoopsInv, Reset, Deleted, batcherVars
<1> QED
  BY <1>8, <1>9, <1>10, <1>11 DEF SegInv

LEMMA ResetTouchedInv ==
  ASSUME SegInv, BatcherInv', NEW u \in Tx, ResetTouched(u)
  PROVE  SegInv'
<1>1. /\ ~Open /\ ~Open' /\ phase \in {"commit", "abort"} /\ u \in todo /\ todo' = todo \ {u}
      /\ touched' = [touched EXCEPT ![u] = {}]
      /\ UNCHANGED <<batcherVars, mapVars, allocated, allocated_end_addresses, freed, doomed, alive,
                     phase, ender, Vectors, Ended>>
  BY DEF ResetTouched, Open, Vectors, Finished, Ended, batcherVars
<1>2. \A v \in Tx : Private(v)' = Private(v)
  BY <1>1 DEF Private, HandedOver
<1>3. MapsInv' /\ OwnersInv'
  BY <1>1, <1>2, MapsFrame, OwnersFrame DEF SegInv, mapVars
<1>4. touched' \in [Tx -> SUBSET Nat] /\ touched'[u] = {} /\ \A v \in Tx \ {u} : touched'[v] = touched[v]
  BY <1>1 DEF SegInv, HoldersInv
<1>5. HoldersInv'
  BY <1>1, <1>4 DEF SegInv, HoldersInv, TouchedAlive, Blank, batcherVars
<1>6. LoopsInv'
  BY <1>1, <1>4 DEF SegInv, LoopsInv, Reset, Deleted, batcherVars
<1> QED
  BY <1>3, <1>5, <1>6 DEF SegInv


\* freeSegment: a Segment object that is in the memory is nobody else's.
LEMMA FreeNextInv ==
  ASSUME SegInv, BatcherInv', NEW u \in Tx, FreeNext(u)
  PROVE  SegInv'
<1> DEFINE s == Head(freed[u])
<1>1. /\ ~Open /\ ~Open' /\ phase = "free" /\ u \in todo /\ freed[u] # << >>
      /\ freed' = [freed EXCEPT ![u] = Tail(@)]
      /\ UNCHANGED <<batcherVars, end_address, allocated, allocated_end_addresses, touched,
                     doomed, endVars, Vectors, Ended>>
      /\ IF s \in DOMAIN segments
         THEN /\ addresses' = Erase(addresses, s + segments[s])
              /\ segments' = Erase(segments, s)
              /\ alive' = alive \ {s}
         ELSE UNCHANGED <<addresses, segments, alive>>
  BY DEF FreeNext, Frees, Open, Vectors, Finished, Ended, batcherVars, endVars
<1>2. \A v \in Tx : Private(v)' = Private(v)
  BY <1>1 DEF Private, HandedOver, endVars
<1>3. /\ freed' \in [Tx -> Seq(Nat)]
      /\ \A v \in Tx \ {u} : freed'[v] = freed[v]
  <2>1. freed[u] \in Seq(Nat)
    BY DEF SegInv, HoldersInv
  <2>2. Tail(freed[u]) \in Seq(Nat)
    BY <1>1, <2>1
  <2> QED
    BY <1>1, <2>2 DEF SegInv, HoldersInv
<1>4. \A v \in Tx : touched[v] = {}
  BY <1>1, WhileEnding
<1>5. ~Blank(u)
  BY <1>1 DEF Blank
<1>6. HoldersInv'
  BY <1>1, <1>3, <1>4, <1>5 DEF SegInv, HoldersInv, TouchedAlive, Blank, batcherVars
<1>7. LoopsInv'
  BY <1>1, <1>3 DEF SegInv, LoopsInv, Reset, Deleted, batcherVars, endVars
<1>8. CASE s \in DOMAIN segments
  <2> HIDE DEF s
  <2>1. /\ DOMAIN segments' = DOMAIN segments \ {s}
        /\ \A x \in DOMAIN segments' : segments'[x] = segments[x]
    BY <1>1, <1>8 DEF Erase
  <2>2. Ranges' \subseteq Ranges
    BY <1>1, <2>1 DEF Ranges
  <2>3. EndsMatch(segments', addresses')
    BY <1>1, <1>8, EndsErase, MapsApart DEF SegInv, MapsInv
  <2>4. MapsInv'
    BY <1>1, <2>2, <2>3, FewerRanges DEF SegInv, MapsInv
  <2>5. \A v \in Tx : s \notin Private(v)
    BY <1>8 DEF SegInv, OwnersInv, OwnedOnce
  <2>6. \A x : x \in alive <=> x \in DOMAIN segments \/ \E v \in Tx : x \in Private(v)
    BY DEF SegInv, OwnersInv, OwnedOnce
  <2>7. \A x : x \in alive' <=> x \in DOMAIN segments' \/ \E v \in Tx : x \in Private(v)'
    BY <1>1, <1>2, <1>8, <2>1, <2>5, <2>6
  <2>8. alive' = DOMAIN segments' \cup UNION {Private(v)' : v \in Tx}
    BY <2>7
  <2>9. OwnersInv'
    BY <1>1, <1>2, <2>1, <2>8 DEF SegInv, OwnersInv, OwnedOnce
  <2> QED
    BY <1>6, <1>7, <2>4, <2>9 DEF SegInv
<1>9. CASE s \notin DOMAIN segments
  <2>1. UNCHANGED <<mapVars, allocated, allocated_end_addresses, alive>>
    BY <1>1, <1>9 DEF mapVars
  <2>2. MapsInv' /\ OwnersInv'
    BY <1>2, <2>1, MapsFrame, OwnersFrame DEF SegInv, mapVars
  <2> QED
    BY <1>6, <1>7, <2>2 DEF SegInv
<1> QED
  BY <1>8, <1>9

\* ~Transaction deletes the segments that an aborted transaction still owns, and
\* only those.
LEMMA DeleteTxInv ==
  ASSUME SegInv, BatcherInv', NEW u \in Tx, DeleteTx(u)
  PROVE  SegInv'
<1>1. /\ ~Open /\ ~Open' /\ phase \in {"free", "drop"} /\ u \in todo /\ todo' = todo \ {u}
      /\ alive' = alive \ DeletedWith(u)
      /\ allocated' = [allocated EXCEPT ![u] = Empty]
      /\ allocated_end_addresses' = [allocated_end_addresses EXCEPT ![u] = Empty]
      /\ freed' = [freed EXCEPT ![u] = << >>]
      /\ UNCHANGED <<batcherVars, mapVars, touched, doomed, phase, ender, Vectors, Ended>>
  BY DEF DeleteTx, Open, Vectors, Finished, Ended, batcherVars
<1>2. /\ DOMAIN allocated'[u] = {} /\ allocated'[u] = Empty
      /\ \A v \in Tx \ {u} : allocated'[v] = allocated[v]
      /\ allocated_end_addresses'[u] = Empty
      /\ \A v \in Tx \ {u} : allocated_end_addresses'[v] = allocated_end_addresses[v]
      /\ allocated' = [v \in Tx |-> allocated'[v]]
      /\ allocated_end_addresses' = [v \in Tx |-> allocated_end_addresses'[v]]
  BY <1>1, EndsOfEmpty DEF SegInv, MapsInv
<1>3. freed' \in [Tx -> Seq(Nat)] /\ freed'[u] = << >> /\ \A v \in Tx \ {u} : freed'[v] = freed[v]
  BY <1>1 DEF SegInv, HoldersInv
<1>4. \A v \in Tx : touched[v] = {}
  BY <1>1, WhileEnding
<1>5. Ranges' \subseteq Ranges
  BY <1>1, <1>2 DEF Ranges, mapVars
<1>6. MapsInv'
  <2>1. \A v \in Tx : EndsMatch(allocated'[v], allocated_end_addresses'[v])
    BY <1>2, EndsOfEmpty DEF SegInv, MapsInv
  <2> QED
    BY <1>1, <1>2, <1>5, <2>1, FewerRanges DEF SegInv, MapsInv, mapVars
<1>7. HoldersInv'
  BY <1>1, <1>2, <1>3, <1>4 DEF SegInv, HoldersInv, TouchedAlive, Blank, batcherVars
<1>8. LoopsInv'
  BY <1>1, <1>2, <1>3, WhileEnding DEF SegInv, LoopsInv, Reset, Deleted, batcherVars
<1>9. /\ \A v \in Tx : Private(v) = IF v \in Vectors.committed THEN {} ELSE DOMAIN allocated[v]
      /\ \A v \in Tx : Private(v)' = IF v \in Vectors.committed THEN {} ELSE DOMAIN allocated'[v]
  BY <1>1 DEF Private, HandedOver
<1>10. DeletedWith(u) = Private(u)
  <2>1. CASE phase = "free"
    <3>1. u \in Vectors.committed
      BY <1>1, <2>1 DEF SegInv, LoopsInv
    <3> QED
      BY <1>9, <3>1, WhileEnding, <1>1 DEF DeletedWith
  <2>2. CASE phase = "drop"
    <3>1. u \in Vectors.aborted
      BY <1>1, <2>2 DEF SegInv, LoopsInv
    <3> QED
      BY <1>9, <3>1, WhileEnding, <1>1 DEF DeletedWith
  <2> QED
    BY <1>1, <2>1, <2>2
<1>11. Private(u)' = {} /\ \A v \in Tx \ {u} : Private(v)' = Private(v)
  BY <1>2, <1>9
<1>12. OwnersInv'
  <2>1. \A x : x \in alive <=> x \in DOMAIN segments \/ \E v \in Tx : x \in Private(v)
    BY DEF SegInv, OwnersInv, OwnedOnce
  <2>2. /\ Private(u) \cap DOMAIN segments = {}
        /\ \A v \in Tx \ {u} : Private(u) \cap Private(v) = {}
    BY DEF SegInv, OwnersInv, OwnedOnce
  <2>3. \A x : x \in alive' <=> x \in DOMAIN segments \/ \E v \in Tx : x \in Private(v)'
    BY <1>1, <1>10, <1>11, <2>1, <2>2
  <2>4. alive' = DOMAIN segments \cup UNION {Private(v)' : v \in Tx}
    BY <2>3
  <2>5. \A v, w \in Tx : v # w => Private(v)' \cap Private(w)' = {}
    BY <1>11 DEF SegInv, OwnersInv, OwnedOnce
  <2>6. \A v \in Tx : Private(v)' \cap DOMAIN segments = {}
    BY <1>11 DEF SegInv, OwnersInv, OwnedOnce
  <2>7. \A v, w \in Tx : v # w => DOMAIN allocated'[v] \cap DOMAIN allocated'[w] = {}
    BY <1>2 DEF SegInv, OwnersInv
  <2>8. segments' = segments
    BY <1>1 DEF mapVars
  <2> QED
    BY <2>4, <2>5, <2>6, <2>7, <2>8 DEF OwnersInv, OwnedOnce
<1> QED
  BY <1>6, <1>7, <1>8, <1>12 DEF SegInv

\* When the epoch has ended, no transaction of it holds anything.
LEMMA EpochEndedInv ==
  ASSUME SegInv, BatcherInv', EpochEnded
  PROVE  SegInv'
<1>1. /\ ~Open /\ Open' /\ phase = "drop" /\ todo = {}
      /\ committed' = {} /\ aborted' = {}
      /\ pc' = [u \in Tx |-> IF u = ender THEN "left" ELSE NotifyAll(pc[u])]
      /\ UNCHANGED <<mapVars, txVars, alive, todo, ender, doomed>>
  BY DEF EpochEnded, LeaveLast, Open, txVars
<1>2. \A u \in Tx : Blank(u)
  <2>1. \A u \in Ended : DOMAIN allocated[u] = {} /\ freed[u] = << >>
    BY <1>1, WhileEnding DEF SegInv, LoopsInv, Deleted
  <2>2. \A u \in Tx : touched[u] = {}
    BY <1>1, WhileEnding
  <2> QED
    BY <1>1, <2>1, <2>2, WhileEnding DEF Blank
<1>3. \A u \in Tx : Private(u) = {} /\ Private(u)' = {}
  BY <1>1, <1>2 DEF Private, Blank, txVars
<1>4. MapsInv' /\ OwnersInv'
  BY <1>1, <1>3, MapsFrame, OwnersFrame DEF SegInv, mapVars, txVars
<1>5. \A u \in Tx : pc'[u] \in {"idle", "asleep", "woken"} => pc[u] \in {"idle", "asleep", "woken"}
  BY <1>1 DEF NotifyAll
<1>6. HoldersInv'
  BY <1>1, <1>2, <1>5 DEF SegInv, HoldersInv, TouchedAlive, Blank, txVars
<1>7. LoopsInv'
  BY <1>1 DEF SegInv, LoopsInv, Open, Loops
<1> QED
  BY <1>4, <1>6, <1>7 DEF SegInv

LEMMA SegStep == SegInv /\ [Next]_vars => SegInv'
<1> SUFFICES ASSUME SegInv, [Next]_vars
             PROVE  SegInv'
  OBVIOUS
<1>1. BatcherInv'
  BY BatcherStep DEF SegInv, HoldersInv, LoopsInv
<1>2. ASSUME NEW t \in Tx, EnterOrWait(t)
      PROVE  SegInv'
  BY <1>1, <1>2, EnterOrWaitInv
<1>3. ASSUME NEW t \in Tx, NEW n \in Sizes, Alloc(t, n)
      PROVE  SegInv'
  BY <1>1, <1>3, AllocInv
<1>4. ASSUME NEW t \in Tx, NEW s \in Usable(t), Free(t, s)
      PROVE  SegInv'
  BY <1>1, <1>4, FreeInv
<1>5. ASSUME NEW t \in Tx, NEW a \in 1..MaxAddress, Access(t, a)
      PROVE  SegInv'
  BY <1>1, <1>5, AccessInv
<1>6. ASSUME NEW t \in Tx, LeaveOpen(t) \/ EpochEnds(t)
      PROVE  SegInv'
  BY <1>1, <1>6, LeaveOpenInv, EpochEndsInv
<1>7. CASE NextLoop
  BY <1>1, <1>7, NextLoopInv
<1>8. ASSUME NEW u \in Tx, AddAllocated(u) \/ ResetTouched(u) \/ FreeNext(u) \/ DeleteTx(u)
      PROVE  SegInv'
  BY <1>1, <1>8, AddAllocatedInv, ResetTouchedInv, FreeNextInv, DeleteTxInv
<1>9. CASE EpochEnded
  BY <1>1, <1>9, EpochEndedInv
<1>10. CASE UNCHANGED vars
  <2>1. UNCHANGED <<batcherVars, mapVars, txVars, alive, endVars>>
    BY <1>10 DEF vars
  <2>2. UNCHANGED <<Vectors, Ended>> /\ \A u \in Tx : Private(u)' = Private(u)
    BY <2>1 DEF Vectors, Finished, Ended, Private, HandedOver, Open, batcherVars, txVars, endVars
  <2>3. MapsInv' /\ OwnersInv'
    BY <2>1, <2>2, MapsFrame, OwnersFrame DEF SegInv, mapVars, txVars
  <2>4. HoldersInv'
    BY <2>1 DEF SegInv, HoldersInv, TouchedAlive, Blank, batcherVars, txVars
  <2>5. LoopsInv'
    BY <2>1, <2>2 DEF SegInv, LoopsInv, Reset, Deleted, Open, batcherVars, txVars, endVars
  <2> QED
    BY <1>1, <2>3, <2>4, <2>5 DEF SegInv
<1> QED
  BY <1>2, <1>3, <1>4, <1>5, <1>6, <1>7, <1>8, <1>9, <1>10 DEF Next, OnEpochEnd

\* The maps, the owners, what transactions hold and what the loops of onEpochEnd
\* have done fit together in every state.
THEOREM SegmentsInvariant == Spec => []SegInv
BY SegInit, SegStep, PTL DEF Spec


LEMMA MapsTyped ==
  ASSUME NEW sizes, NEW ends, Apart(sizes), EndsMatch(sizes, ends)
  PROVE  IsMap(sizes) /\ IsMap(ends)
<1>1. \A s \in DOMAIN sizes : s \in Nat /\ sizes[s] \in Nat
  BY DEF Apart
<1>2. \A e \in DOMAIN ends : e \in Nat /\ ends[e] \in Nat
  BY <1>1 DEF EndsMatch
<1> QED
  BY <1>1, <1>2 DEF IsMap

\* Type correctness.
THEOREM SegmentsTypes == Spec => []TypeOK
<1>1. SegInv => TypeOK
  <2> SUFFICES ASSUME SegInv
               PROVE  TypeOK
    OBVIOUS
  <2>1. BatcherTypeOK /\ end_address \in Nat
    BY DEF SegInv, BatcherInv, MapsInv, RangesInv
  <2>2. IsMap(segments) /\ IsMap(addresses)
    BY MapsApart, MapsTyped DEF SegInv, MapsInv
  <2>3. \A t \in Tx : IsMap(allocated[t]) /\ IsMap(allocated_end_addresses[t])
    BY MapsApart, MapsTyped DEF SegInv, MapsInv
  <2>4. alive \subseteq Nat
    <3>1. \A t \in Tx : Private(t) \subseteq DOMAIN allocated[t]
      BY DEF Private
    <3>2. DOMAIN segments \subseteq Nat /\ \A t \in Tx : DOMAIN allocated[t] \subseteq Nat
      BY <2>2, <2>3 DEF IsMap
    <3> QED
      BY <3>1, <3>2 DEF SegInv, OwnersInv, OwnedOnce
  <2> QED
    BY <2>1, <2>2, <2>3, <2>4 DEF TypeOK, SegInv, HoldersInv, LoopsInv
<1> QED
  BY <1>1, SegmentsInvariant, PTL

\* Every Segment object has one owner from tm_alloc to its deletion, also while
\* the loops of onEpochEnd hand it over, free it or drop it.
THEOREM SegmentsOwnedOnce == Spec => []OwnedOnce
<1>1. SegInv => OwnedOnce
  BY DEF SegInv, OwnersInv
<1> QED
  BY <1>1, SegmentsInvariant, PTL

\* onEpochEnd goes through no word of a segment that has been deleted.
THEOREM SegmentsTouchedAlive == Spec => []TouchedAlive
<1>1. SegInv => TouchedAlive
  BY DEF SegInv, HoldersInv
<1> QED
  BY <1>1, SegmentsInvariant, PTL

\* findSegment is right for every address below end_address: its search for an
\* end leads to the segment of the address, and to none when there is none.
THEOREM SegmentsLookup == Spec => []LookupExact
<1>1. SegInv => LookupExact
  BY LookupRight DEF SegInv, LookupExact
<1> QED
  BY <1>1, SegmentsInvariant, PTL

\* The segments of a transaction and of the memory never overlap.
THEOREM SegmentsNeverOverlap == Spec => []SegmentsApart
<1>1. SegInv => SegmentsApart
  BY UsableApart DEF SegInv
<1> QED
  BY <1>1, SegmentsInvariant, PTL

\* With its segments and with the loops of onEpochEnd as steps of their own, the
\* system still behaves as the batcher alone: what is proved of the batcher holds
\* here too.
THEOREM SegmentsKeepBatcher == Spec => BatcherSpec
<1>1. SegInv /\ [Next]_vars => [BatcherNext]_batcherVars
  BY BatcherStep DEF SegInv, HoldersInv, LoopsInv
<1>2. Init => BatcherInit
  BY DEF Init
<1> QED
  BY <1>1, <1>2, SegmentsInvariant, PTL DEF Spec, BatcherSpec

-----------------------------------------------------------------------------

\* What SegmentStore's variables stand for.
StoreOf == IF Open THEN DOMAIN segments ELSE Outcome

MineOf == [t \in Tx |-> IF Open THEN DOMAIN allocated[t] ELSE {}]

WishesOf == [t \in Tx |-> IF Open THEN {freed[t][i] : i \in 1..Len(freed[t])} ELSE {}]

CommittedOf == IF Open THEN committed ELSE {}

LEMMA StoreInit == Init => Store!Init
<1> SUFFICES ASSUME Init
             PROVE  Store!Init
  OBVIOUS
<1>1. Open /\ DOMAIN segments = {1} /\ committed = {}
  BY DEF Init, Open, BatcherInit
<1>2. \A t \in Tx : DOMAIN allocated[t] = {} /\ {freed[t][i] : i \in 1..Len(freed[t])} = {}
  BY EndsOfEmpty DEF Init
<1> QED
  BY <1>1, <1>2 DEF Store!Init, Store!Nothing

LEMMA AllocIsAlloc ==
  ASSUME SegInv, NEW t \in Tx, NEW n \in Sizes, Alloc(t, n)
  PROVE  Store!Next
<1>0. PICK start : start = end_address
  OBVIOUS
<1>1. /\ Open /\ Open' /\ start + n <= MaxAddress
      /\ allocated' = [allocated EXCEPT ![t] = Put(@, start, n)]
      /\ UNCHANGED <<segments, freed, committed>>
  BY <1>0 DEF Alloc, Ready, EndAfter, Open, endVars, batcherVars
<1>2. start \in 1..MaxAddress
  BY <1>0, <1>1, SegmentsAssumption DEF SegInv, MapsInv, RangesInv
<1>3. start \notin DOMAIN segments /\ \A u \in Tx : start \notin DOMAIN allocated[u]
  <2>1. ASSUME NEW s, NEW m, <<s, m>> \in Ranges
        PROVE  s # start
    <3>1. s \in Nat \ {0} /\ m \in Nat \ {0} /\ s + m <= start
      BY <1>0, <2>1, PairApart DEF SegInv
    <3> QED
      BY <3>1
  <2> QED
    BY <2>1, MapsApart DEF SegInv
<1>4. /\ DOMAIN allocated'[t] = DOMAIN allocated[t] \cup {start}
      /\ \A u \in Tx \ {t} : allocated'[u] = allocated[u]
  BY <1>1 DEF Put, SegInv, MapsInv
<1>5. MineOf' = [MineOf EXCEPT ![t] = @ \cup {start}]
  BY <1>1, <1>4 DEF MineOf
<1>6. start \notin StoreOf \cup UNION {MineOf[u] : u \in Tx}
  BY <1>1, <1>3 DEF StoreOf, MineOf
<1>7. UNCHANGED <<StoreOf, WishesOf, CommittedOf>>
  BY <1>1 DEF StoreOf, WishesOf, CommittedOf
<1>8. Store!Alloc(t, start)
  BY <1>5, <1>6, <1>7 DEF Store!Alloc, StoreOf, MineOf, WishesOf, CommittedOf
<1> QED
  BY <1>2, <1>8 DEF Store!Next

LEMMA FreeIsFree ==
  ASSUME SegInv, NEW t \in Tx, NEW s \in Usable(t), Free(t, s)
  PROVE  Store!Next
<1>1. /\ Open /\ Open' /\ s # 1
      /\ freed' = [freed EXCEPT ![t] = Append(@, s)]
      /\ UNCHANGED <<segments, allocated, committed>>
  BY DEF Free, Ready, Open, endVars, batcherVars, mapVars
<1>2. s \in 1..MaxAddress
  <2>1. <<s, SizeOf(t, s)>> \in Ranges
    BY MapsApart DEF SegInv
  <2>2. s \in Nat \ {0} /\ s <= MaxAddress
    BY <1>1, <2>1, PairApart DEF SegInv
  <2> QED
    BY <2>2, SegmentsAssumption
<1>3. /\ {freed'[t][i] : i \in 1..Len(freed'[t])} = {freed[t][i] : i \in 1..Len(freed[t])} \cup {s}
      /\ \A u \in Tx \ {t} : freed'[u] = freed[u]
  <2>1. freed[t] \in Seq(Nat) /\ s \in Nat /\ freed'[t] = Append(freed[t], s)
    BY <1>1, <1>2 DEF SegInv, HoldersInv
  <2>2. /\ Len(freed'[t]) = Len(freed[t]) + 1 /\ freed'[t][Len(freed[t]) + 1] = s
        /\ \A i \in 1..Len(freed[t]) : freed'[t][i] = freed[t][i]
        /\ Len(freed[t]) \in Nat
    BY <2>1
  <2>3. 1..(Len(freed[t]) + 1) = 1..Len(freed[t]) \cup {Len(freed[t]) + 1}
    BY <2>2
  <2>4. {freed'[t][i] : i \in 1..Len(freed'[t])} = {freed[t][i] : i \in 1..Len(freed[t])} \cup {s}
    <3>1. \A x : (\E i \in 1..Len(freed'[t]) : x = freed'[t][i])
                   <=> x = s \/ \E i \in 1..Len(freed[t]) : x = freed[t][i]
      BY <2>2, <2>3
    <3> QED
      BY <3>1
  <2> QED
    BY <1>1, <2>4 DEF SegInv, HoldersInv
<1>4. WishesOf' = [WishesOf EXCEPT ![t] = @ \cup {s}]
  <2>1. \A u \in Tx : WishesOf[u] = {freed[u][i] : i \in 1..Len(freed[u])}
    BY <1>1 DEF WishesOf
  <2>2. WishesOf'[t] = {freed'[t][i] : i \in 1..Len(freed'[t])}
    BY <1>1 DEF WishesOf
  <2>3. \A u \in Tx \ {t} : WishesOf'[u] = {freed[u][i] : i \in 1..Len(freed[u])}
    BY <1>1, <1>3 DEF WishesOf
  <2>4. WishesOf'[t] = WishesOf[t] \cup {s} /\ \A u \in Tx \ {t} : WishesOf'[u] = WishesOf[u]
    BY <1>3, <2>1, <2>2, <2>3
  <2>5. WishesOf = [u \in Tx |-> WishesOf[u]] /\ WishesOf' = [u \in Tx |-> WishesOf'[u]]
    BY DEF WishesOf
  <2> QED
    BY <2>4, <2>5
<1>5. s \in (StoreOf \cup MineOf[t]) \ {1}
  BY <1>1 DEF StoreOf, MineOf, Usable
<1>6. UNCHANGED <<StoreOf, MineOf, CommittedOf>>
  BY <1>1 DEF StoreOf, MineOf, CommittedOf
<1>7. Store!Free(t, s)
  BY <1>4, <1>5, <1>6 DEF Store!Free, StoreOf, MineOf, WishesOf, CommittedOf
<1> QED
  BY <1>2, <1>7 DEF Store!Next


LEMMA LeaveIsCommit ==
  ASSUME SegInv, NEW t \in Tx, LeaveOpen(t)
  PROVE  [Store!Next]_Store!vars
<1>1. /\ Open /\ Open' /\ committed' = committed \cup {u \in {t} : ~doomed[t]}
      /\ UNCHANGED <<segments, allocated, freed>>
  BY DEF LeaveOpen, LeaveEarly, Finished, Open, mapVars, txVars, endVars
<1>2. UNCHANGED <<StoreOf, MineOf, WishesOf>>
  BY <1>1 DEF StoreOf, MineOf, WishesOf
<1>3. CASE doomed[t]
  BY <1>1, <1>2, <1>3 DEF Store!vars, StoreOf, MineOf, WishesOf
<1>4. CASE ~doomed[t]
  <2>1. Store!Commit(t)
    BY <1>1, <1>2, <1>4 DEF Store!Commit, StoreOf, MineOf, WishesOf
  <2> QED
    BY <2>1 DEF Store!Next
<1> QED
  BY <1>3, <1>4

\* The call of onEpochEnd is where the promise takes effect, worked out from the
\* vectors as they are then.
LEMMA EpochEndsIsEpochEnd ==
  ASSUME SegInv, NEW t \in Tx, EpochEnds(t)
  PROVE  Store!Next
<1>1. /\ Open /\ ~Open' /\ ender' = t /\ phase' = "add"
      /\ todo' = Finished(t, ~doomed[t]).committed
      /\ UNCHANGED <<committed, aborted, segments, allocated, freed, doomed>>
  BY DEF EpochEnds, Open, batcherVars, mapVars, txVars
<1>2. PICK C \in {committed, committed \cup {t}} : C = Finished(t, ~doomed[t]).committed
  BY DEF Finished
<1>3. Vectors.committed' = C /\ todo' = C
  BY <1>1, <1>2 DEF Vectors, Finished
<1>4. C \subseteq Tx
  BY <1>2 DEF SegInv, BatcherInv, BatcherTypeOK
<1>5. \A u \in Tx : Private(u)' = DOMAIN allocated[u]
  BY <1>1, <1>3 DEF Private, HandedOver
<1>6. ToBeFreed' = UNION {WishesOf[u] : u \in C}
  <2>1. \A u \in C : WishesOf[u] = {freed[u][i] : i \in 1..Len(freed[u])}
    BY <1>1, <1>4 DEF WishesOf
  <2>2. ToBeFreed' = UNION {{freed[u][i] : i \in 1..Len(freed[u])} : u \in C}
    BY <1>1, <1>3 DEF ToBeFreed
  <2> QED
    BY <2>1, <2>2
<1>7. UNION {Private(u)' : u \in C} = UNION {MineOf[u] : u \in C}
  BY <1>1, <1>4, <1>5 DEF MineOf
<1>8. StoreOf' = (StoreOf \cup UNION {MineOf[u] : u \in C}) \ UNION {WishesOf[u] : u \in C}
  <2>1. StoreOf' = Outcome'
    BY <1>1 DEF StoreOf
  <2>2. Outcome' = (DOMAIN segments \cup UNION {Private(u)' : u \in C}) \ ToBeFreed'
    BY <1>1, <1>3 DEF Outcome
  <2> QED
    BY <1>1, <1>6, <1>7, <2>1, <2>2 DEF StoreOf
<1>9. MineOf' = Store!Nothing /\ WishesOf' = Store!Nothing /\ CommittedOf' = {}
  BY <1>1 DEF MineOf, WishesOf, CommittedOf, Store!Nothing
<1>10. CommittedOf = committed
  BY <1>1 DEF CommittedOf
<1>11. Store!EpochEnd(C)
  BY <1>8, <1>9 DEF Store!EpochEnd, StoreOf, MineOf, WishesOf, CommittedOf
<1> QED
  BY <1>2, <1>10, <1>11 DEF Store!Next, CommittedOf

\* While onEpochEnd runs, what comes out in the end is settled.
LEMMA EndingFrame ==
  ASSUME ~Open, ~Open', \A x : x \in Outcome' <=> x \in Outcome
  PROVE  UNCHANGED Store!vars
<1>1. Outcome' = Outcome
  BY DEF Outcome
<1> QED
  BY <1>1 DEF Store!vars

LEMMA HeadAndTail ==
  ASSUME NEW q \in Seq(Nat), q # << >>, NEW x
  PROVE  (\E i \in 1..Len(q) : x = q[i]) <=> x = Head(q) \/ \E i \in 1..Len(Tail(q)) : x = Tail(q)[i]
<1> DEFINE r == Tail(q)
<1>1. /\ Len(q) \in Nat \ {0} /\ Head(q) = q[1] /\ Len(r) = Len(q) - 1
      /\ \A i \in 1..Len(r) : r[i] = q[i + 1]
  OBVIOUS
<1> HIDE DEF r
<1>2. ASSUME NEW i \in 1..Len(q)
      PROVE  q[i] = Head(q) \/ \E j \in 1..Len(r) : q[i] = r[j]
  <2>1. CASE i = 1
    BY <1>1, <2>1
  <2>2. CASE i # 1
    <3>1. i - 1 \in 1..Len(r) /\ q[i] = r[i - 1]
      BY <1>1, <2>2
    <3> QED
      BY <3>1
  <2> QED
    BY <2>1, <2>2
<1>3. ASSUME NEW j \in 1..Len(r)
      PROVE  \E i \in 1..Len(q) : r[j] = q[i]
  <2>1. j + 1 \in 1..Len(q) /\ r[j] = q[j + 1]
    BY <1>1
  <2> QED
    BY <2>1
<1>4. \E i \in 1..Len(q) : Head(q) = q[i]
  BY <1>1
<1> QED
  BY <1>2, <1>3, <1>4 DEF r

LEMMA LoopsKeepOutcome ==
  ASSUME SegInv, NextLoop \/ \E u \in Tx : AddAllocated(u) \/ ResetTouched(u) \/ FreeNext(u) \/ DeleteTx(u)
  PROVE  UNCHANGED Store!vars
<1>1. ~Open /\ ~Open' /\ UNCHANGED <<Vectors, ender>>
  <2>1. CASE NextLoop
    BY <2>1 DEF NextLoop, Open, Vectors, Finished, batcherVars, txVars, After, SegInv, LoopsInv, Loops
  <2>2. ASSUME NEW u \in Tx, AddAllocated(u) \/ ResetTouched(u)
        PROVE  ~Open /\ ~Open' /\ UNCHANGED <<Vectors, ender>>
    BY <2>2 DEF AddAllocated, ResetTouched, Open, Vectors, Finished, batcherVars, txVars
  <2>3. ASSUME NEW u \in Tx, FreeNext(u)
        PROVE  ~Open /\ ~Open' /\ UNCHANGED <<Vectors, ender>>
    BY <2>3 DEF FreeNext, Open, Vectors, Finished, batcherVars, endVars
  <2>4. ASSUME NEW u \in Tx, DeleteTx(u)
        PROVE  ~Open /\ ~Open' /\ UNCHANGED <<Vectors, ender>>
    BY <2>4 DEF DeleteTx, Open, Vectors, Finished, batcherVars
  <2> QED
    BY <2>1, <2>2, <2>3, <2>4
<1>2. Vectors.committed \subseteq Tx
  BY <1>1, WhileEnding
\* Outcome told member by member.
<1>3. \A x : x \in Outcome <=> /\ x \in DOMAIN segments \/ \E u \in Vectors.committed : x \in Private(u)
                               /\ ~\E u \in Vectors.committed : \E i \in 1..Len(freed[u]) : x = freed[u][i]
  BY DEF Outcome, ToBeFreed
<1>4. \A x : x \in Outcome' <=> /\ x \in DOMAIN segments' \/ \E u \in Vectors.committed : x \in Private(u)'
                                /\ ~\E u \in Vectors.committed : \E i \in 1..Len(freed'[u]) : x = freed'[u][i]
  BY <1>1 DEF Outcome, ToBeFreed
<1>5. CASE NextLoop
  <2>1. UNCHANGED <<segments, freed, allocated>> /\ phase' # "add" /\ (phase = "add" => todo = {})
    BY <1>5 DEF NextLoop, mapVars, txVars, After
  <2>2. \A u \in Tx : Private(u)' = Private(u)
    BY <1>1, <2>1 DEF Private, HandedOver
  <2>9. \A x : x \in Outcome' <=> x \in Outcome
    BY <1>1, <1>2, <1>3, <1>4, <2>1, <2>2
  <2> QED
    BY <1>1, <2>9, EndingFrame
<1>6. ASSUME NEW u \in Tx, AddAllocated(u)
      PROVE  UNCHANGED Store!vars
  <2>1. /\ phase = "add" /\ phase' = "add" /\ u \in todo /\ todo' = todo \ {u}
        /\ UNCHANGED <<freed, allocated>>
        /\ DOMAIN segments' = DOMAIN segments \cup DOMAIN allocated[u]
    BY <1>6 DEF AddAllocated, Merge, txVars
  <2>2. u \in Vectors.committed
    BY <1>1, <2>1 DEF SegInv, LoopsInv
  <2>3. /\ Private(u) = DOMAIN allocated[u] /\ Private(u)' = {}
        /\ \A v \in Tx \ {u} : Private(v)' = Private(v)
    BY <1>1, <2>1, <2>2 DEF Private, HandedOver
  <2>9. \A x : x \in Outcome' <=> x \in Outcome
    BY <1>1, <1>2, <1>3, <1>4, <2>1, <2>2, <2>3
  <2> QED
    BY <1>1, <2>9, EndingFrame
<1>7. ASSUME NEW u \in Tx, ResetTouched(u)
      PROVE  UNCHANGED Store!vars
  <2>1. UNCHANGED <<segments, freed, allocated, phase>> /\ phase # "add"
    BY <1>7 DEF ResetTouched, mapVars
  <2>2. \A v \in Tx : Private(v)' = Private(v)
    BY <1>1, <2>1 DEF Private, HandedOver
  <2>9. \A x : x \in Outcome' <=> x \in Outcome
    BY <1>1, <1>2, <1>3, <1>4, <2>1, <2>2
  <2> QED
    BY <1>1, <2>9, EndingFrame
<1>8. ASSUME NEW u \in Tx, FreeNext(u)
      PROVE  UNCHANGED Store!vars
  <2>1. /\ phase = "free" /\ u \in todo /\ freed[u] # << >>
        /\ UNCHANGED <<allocated, phase>>
        /\ DOMAIN segments' = DOMAIN segments \ {Head(freed[u])}
        /\ freed' = [freed EXCEPT ![u] = Tail(@)]
    BY <1>8 DEF FreeNext, Frees, Erase, endVars
  <2>2. u \in Vectors.committed
    BY <1>1, <2>1 DEF SegInv, LoopsInv
  <2>3. \A v \in Vectors.committed : Private(v) = {} /\ Private(v)' = {}
    BY <1>1, <2>1 DEF Private, HandedOver
  <2>4. freed'[u] = Tail(freed[u]) /\ \A v \in Tx \ {u} : freed'[v] = freed[v]
    BY <2>1 DEF SegInv, HoldersInv
  <2>5. \A x : (\E i \in 1..Len(freed[u]) : x = freed[u][i])
                 <=> x = Head(freed[u]) \/ \E i \in 1..Len(freed'[u]) : x = freed'[u][i]
    <3>1. PICK q \in Seq(Nat) : q = freed[u]
      BY DEF SegInv, HoldersInv
    <3>2. PICK r : r = freed'[u]
      OBVIOUS
    <3>3. q # << >> /\ r = Tail(q)
      BY <2>1, <2>4, <3>1, <3>2
    <3>4. \A x : (\E i \in 1..Len(q) : x = q[i])
                   <=> x = Head(q) \/ \E i \in 1..Len(r) : x = r[i]
      BY <3>3, HeadAndTail
    <3>5. q = freed[u] /\ r = freed'[u]
      BY <3>1, <3>2
    <3> SUFFICES ASSUME NEW x
                 PROVE  (\E i \in 1..Len(freed[u]) : x = freed[u][i])
                          <=> x = Head(freed[u]) \/ \E i \in 1..Len(freed'[u]) : x = freed'[u][i]
      OBVIOUS
    <3>6. (\E i \in 1..Len(q) : x = q[i]) <=> x = Head(q) \/ \E i \in 1..Len(r) : x = r[i]
      BY <3>4
    <3> QED
      BY <3>5, <3>6
  <2>6. \A x : (\E v \in Vectors.committed : \E i \in 1..Len(freed[v]) : x = freed[v][i])
                 <=> \/ x = Head(freed[u])
                     \/ \E v \in Vectors.committed : \E i \in 1..Len(freed'[v]) : x = freed'[v][i]
    <3>1. ASSUME NEW x, NEW v \in Vectors.committed
          PROVE  (\E i \in 1..Len(freed[v]) : x = freed[v][i])
                   <=> \/ v = u /\ x = Head(freed[u])
                       \/ \E i \in 1..Len(freed'[v]) : x = freed'[v][i]
      <4>1. CASE v = u
        BY <2>5, <4>1, Zenon
      <4>2. CASE v # u
        <5>1. freed'[v] = freed[v]
          BY <1>2, <2>4, <4>2
        <5> QED
          BY <4>2, <5>1
      <4> QED
        BY <4>1, <4>2
    <3> QED
      BY <2>2, <3>1
  <2>7. \A x : x \in Outcome <=>
                 /\ x \in DOMAIN segments /\ x # Head(freed[u])
                 /\ ~\E v \in Vectors.committed : \E i \in 1..Len(freed'[v]) : x = freed'[v][i]
    BY <1>3, <2>3, <2>6
  <2>8. \A x : x \in Outcome' <=>
                 /\ x \in DOMAIN segments'
                 /\ ~\E v \in Vectors.committed : \E i \in 1..Len(freed'[v]) : x = freed'[v][i]
    BY <1>1, <1>4, <2>3
  <2>9. \A x : x \in Outcome' <=> x \in Outcome
    BY <2>1, <2>7, <2>8
  <2> QED
    BY <1>1, <2>9, EndingFrame
<1>9. ASSUME NEW u \in Tx, DeleteTx(u)
      PROVE  UNCHANGED Store!vars
  <2>1. /\ phase \in {"free", "drop"} /\ u \in todo /\ (phase = "free" => freed[u] = << >>)
        /\ UNCHANGED <<segments, phase>>
        /\ freed' = [freed EXCEPT ![u] = << >>]
    BY <1>9 DEF DeleteTx, mapVars
  <2>2. \A v \in Vectors.committed : Private(v) = {} /\ Private(v)' = {}
    BY <1>1, <2>1 DEF Private, HandedOver
  <2>3. \A v \in Vectors.committed : freed'[v] = freed[v]
    <3>1. CASE phase = "free"
      BY <1>2, <2>1, <3>1 DEF SegInv, HoldersInv
    <3>2. CASE phase = "drop"
      <4>1. u \notin Vectors.committed
        BY <1>1, <2>1, <3>2, WhileEnding DEF SegInv, LoopsInv
      <4> QED
        BY <1>2, <2>1, <4>1 DEF SegInv, HoldersInv
    <3> QED
      BY <2>1, <3>1, <3>2
  <2>9. \A x : x \in Outcome' <=> x \in Outcome
    BY <1>1, <1>3, <1>4, <2>1, <2>2, <2>3
  <2> QED
    BY <1>1, <2>9, EndingFrame
<1> QED
  BY <1>5, <1>6, <1>7, <1>8, <1>9

\* The rest of leave shows the outcome to everybody.
LEMMA EpochEndedShows ==
  ASSUME SegInv, EpochEnded
  PROVE  UNCHANGED Store!vars
<1>1. /\ ~Open /\ Open' /\ phase = "drop" /\ todo = {} /\ committed' = {}
      /\ UNCHANGED <<segments, allocated, freed>>
  BY DEF EpochEnded, LeaveLast, Open, mapVars, txVars
<1>2. \A u \in Tx : DOMAIN allocated[u] = {} /\ freed[u] = << >>
  BY <1>1, WhileEnding DEF Blank, SegInv, LoopsInv, Deleted
<1>3. \A u \in Tx : Private(u) = {}
  BY <1>2 DEF Private
<1>4. Vectors.committed \subseteq Tx
  BY <1>1, WhileEnding
<1>5. Outcome = DOMAIN segments
  <2>1. ToBeFreed = {}
    BY <1>2, <1>4 DEF ToBeFreed
  <2> QED
    BY <1>3, <1>4, <2>1 DEF Outcome
<1>6. StoreOf' = StoreOf
  BY <1>1, <1>5 DEF StoreOf
<1>7. MineOf' = MineOf /\ WishesOf' = WishesOf
  BY <1>1, <1>2 DEF MineOf, WishesOf
<1> QED
  BY <1>1, <1>6, <1>7 DEF Store!vars, StoreOf, MineOf, WishesOf

\* tm_alloc and tm_free keep the promise of SegmentStore: the segments that the
\* committed transactions of an epoch allocated and freed appear and disappear
\* all at once, however long the loops of onEpochEnd take over it.
THEOREM SegmentsRefinement == Spec => ImplementsStore
<1>1. ASSUME SegInv, [Next]_vars
      PROVE  [Store!Next]_Store!vars
  <2>1. ASSUME NEW t \in Tx, EnterOrWait(t)
        PROVE  UNCHANGED Store!vars
    <3>1. UNCHANGED <<mapVars, txVars, endVars, committed, aborted>>
      BY <2>1 DEF EnterOrWait, Enter, EnterFirst, EnterBlocked, TestAwake, SpuriousWake
    <3>2. UNCHANGED <<Open, segments, allocated, freed, committed, Vectors, todo, phase>>
      BY <3>1 DEF Open, Vectors, Finished, mapVars, txVars, endVars
    <3>3. Outcome' = Outcome
      BY <3>2 DEF Outcome, ToBeFreed, Private, HandedOver
    <3> QED
      BY <3>2, <3>3 DEF Store!vars
  <2>2. ASSUME NEW t \in Tx, NEW n \in Sizes, Alloc(t, n)
        PROVE  Store!Next
    BY <1>1, <2>2, AllocIsAlloc
  <2>3. ASSUME NEW t \in Tx, NEW s \in Usable(t), Free(t, s)
        PROVE  Store!Next
    BY <1>1, <2>3, FreeIsFree
  <2>4. ASSUME NEW t \in Tx, NEW a \in 1..MaxAddress, Access(t, a)
        PROVE  UNCHANGED Store!vars
    <3>1. Open /\ Open' /\ UNCHANGED <<segments, allocated, freed, committed>>
      BY <2>4 DEF Access, Ready, Open, batcherVars, mapVars, endVars
    <3> QED
      BY <3>1 DEF Store!vars
  <2>5. ASSUME NEW t \in Tx, LeaveOpen(t) \/ EpochEnds(t)
        PROVE  [Store!Next]_Store!vars
    BY <1>1, <2>5, LeaveIsCommit, EpochEndsIsEpochEnd
  <2>6. CASE OnEpochEnd
    BY <1>1, <2>6, LoopsKeepOutcome, EpochEndedShows DEF OnEpochEnd
  <2>7. CASE UNCHANGED vars
    <3>1. UNCHANGED <<batcherVars, mapVars, txVars, alive, endVars>>
      BY <2>7 DEF vars
    <3>2. UNCHANGED <<Open, segments, allocated, freed, committed, Vectors, todo, phase>>
      BY <3>1 DEF Open, Vectors, Finished, batcherVars, mapVars, txVars, endVars
    <3>3. Outcome' = Outcome
      BY <3>2 DEF Outcome, ToBeFreed, Private, HandedOver
    <3> QED
      BY <3>2, <3>3 DEF Store!vars
  <2> QED
    BY <1>1, <2>1, <2>2, <2>3, <2>4, <2>5, <2>6, <2>7 DEF Next
<1> QED
  BY <1>1, SegmentsInvariant, StoreInit, PTL DEF Spec, ImplementsStore, Store!Spec


=============================================================================
