----------------------- MODULE TemporaryBackingProofs -----------------------
(***************************************************************************)
(* Theorems about TemporaryBacking for every number of leases, every size  *)
(* and every request.  The inductive invariant keeps the live spans sorted *)
(* by depth: a span of depth d starts at or after the snapshot of the      *)
(* lease of depth d and ends before the snapshots of all deeper leases, so *)
(* winding the cursor back to a snapshot cuts off exactly the spans of the *)
(* lease released.                                                         *)
(*                                                                         *)
(* The assumption NoTruncation is what 32-bit rounding needs; the run      *)
(* backing_word shows what happens without it.                             *)
(***************************************************************************)
EXTENDS TemporaryBacking, TLAPS

NoTruncation == Bytes + Alignment <= Word

\* Rounding up moves a size by less than one unit of alignment.
LEMMA RoundUpBounds ==
  ASSUME NEW x \in Nat
  PROVE  RoundUp(x) \in Nat /\ x <= RoundUp(x) /\ RoundUp(x) <= x + Alignment - 1
<1> DEFINE y == x + Alignment - 1
<1>1. Alignment \in Nat \ {0} /\ y \in Nat
  BY SizeAssumption
<1>2. /\ (y \div Alignment) * Alignment <= y
      /\ y < (y \div Alignment) * Alignment + Alignment
      /\ (y \div Alignment) * Alignment \in Nat
  <2> HIDE DEF y
  <2> QED
    BY <1>1
<1>3. RoundUp(x) = (y \div Alignment) * Alignment
  BY DEF RoundUp
<1> HIDE DEF y
<1>4. RoundUp(x) \in Nat /\ RoundUp(x) <= y /\ y < RoundUp(x) + Alignment
  BY <1>2, <1>3
<1> QED
  BY <1>1, <1>4 DEF y

\* A request that fits is rounded without losing bits.
LEMMA RoundedCovers ==
  ASSUME NoTruncation, NEW n \in Request, NEW c \in Nat, Base <= c, n <= End - c
  PROVE  Rounded(n) \in Nat /\ n <= Rounded(n) /\ Rounded(n) <= n + Alignment - 1
<1>1. n \in Nat /\ n <= Bytes
  BY SizeAssumption DEF End
<1>2. RoundUp(n) \in Nat /\ n <= RoundUp(n) /\ RoundUp(n) <= n + Alignment - 1
  BY <1>1, RoundUpBounds
<1>3. RoundUp(n) < Word
  BY <1>1, <1>2, SizeAssumption DEF NoTruncation
<1>4. Rounded(n) = RoundUp(n)
  <2> DEFINE r == RoundUp(n)
  <2>1. r \in Nat /\ r < Word /\ Word \in Nat \ {0}
    BY <1>2, <1>3, SizeAssumption
  <2> HIDE DEF r
  <2>2. r % Word = r
    BY <2>1
  <2> QED
    BY <2>2 DEF Rounded, r
<1> QED
  BY <1>2, <1>4

SpansByDepth ==
  \A s \in live :
    /\ s.start + s.bytes <= cursor
    /\ \A l \in Held :
         /\ s.depth < lease[l].depth => s.start + s.bytes <= lease[l].snapshot
         /\ s.depth = lease[l].depth => lease[l].snapshot <= s.start

\* The first lease starts at the bottom of the arena, the others above it.
Bottom ==
  /\ Base <= cursor
  /\ \A l \in Held : Base <= lease[l].snapshot
  /\ \A l \in Held : lease[l].depth = 1 => lease[l].snapshot = RoundUp(Base)

BackingInv ==
  /\ TypeOK /\ LeasesNest /\ LiveSpansAreOwned /\ SpansByDepth /\ Bottom
  /\ OvershootIsBounded /\ NothingLeaks

LEMMA BackingInit == Init => BackingInv
<1> SUFFICES ASSUME Init PROVE BackingInv
  OBVIOUS
<1>1. cursor \in Nat /\ Base <= cursor /\ cursor <= Base + Alignment - 1
  BY SizeAssumption, RoundUpBounds DEF Init
<1>2. cursor <= End + Alignment - 1
  BY <1>1, SizeAssumption DEF End
<1>3. Held = {} /\ live = {} /\ activeLeases = 0 /\ reserved24 = 0
  BY DEF Init, Held, Empty
<1>4. TypeOK
  BY <1>1, <1>3 DEF Init, TypeOK, Empty
<1>5. LeasesNest
  BY <1>3 DEF LeasesNest
<1>6. LiveSpansAreOwned /\ SpansByDepth
  BY <1>3 DEF LiveSpansAreOwned, SpansByDepth
<1>7. Bottom /\ OvershootIsBounded /\ NothingLeaks
  BY <1>1, <1>2, <1>3 DEF Init, Bottom, OvershootIsBounded, NothingLeaks
<1> QED
  BY <1>4, <1>5, <1>6, <1>7 DEF BackingInv

-----------------------------------------------------------------------------

LEMMA AcquireInv ==
  ASSUME BackingInv, NEW l \in Lease, Acquire(l)
  PROVE  BackingInv'
<1>1. /\ cursor' = cursor /\ live' = live
      /\ activeLeases' = activeLeases + 1 /\ reserved24' = reserved24 + 1
      /\ activeLeases \in Nat /\ reserved24 \in Nat /\ cursor \in Nat
  BY DEF Acquire, Counted, BackingInv, TypeOK
<1>2. /\ lease'[l] = [held |-> TRUE, snapshot |-> cursor, depth |-> activeLeases + 1]
      /\ \A m \in Lease : m # l => lease'[m] = lease[m]
      /\ ~lease[l].held
  BY DEF Acquire, BackingInv, TypeOK
<1>3. Held' = Held \union {l} /\ l \notin Held
  BY <1>2 DEF Held
<1>4. \A m \in Held : m # l /\ lease'[m] = lease[m]
  BY <1>2, <1>3 DEF Held
<1>5. \A m \in Held : lease[m].depth \in Nat /\ lease[m].snapshot \in Nat
  BY DEF BackingInv, TypeOK, Held
<1>6. TypeOK'
  <2>1. [held |-> TRUE, snapshot |-> cursor, depth |-> activeLeases + 1]
          \in [held: BOOLEAN, snapshot: Nat, depth: Nat]
    BY <1>1
  <2> QED
    BY <1>1, <2>1 DEF BackingInv, TypeOK, Acquire
<1>7. LeasesNest'
  <2> USE DEF LeasesNest
  <2>0. LeasesNest
    BY DEF BackingInv
  <2>1. \A m \in Held' : lease'[m].depth \in 1 .. activeLeases' /\ lease'[m].snapshot <= cursor'
    BY <1>1, <1>2, <1>3, <1>4, <2>0
  <2>2. \A d \in 1 .. activeLeases' : \E m \in Held' : lease'[m].depth = d
    <3> TAKE d \in 1 .. activeLeases'
    <3>1. CASE d = activeLeases + 1
      BY <1>2, <1>3, <3>1
    <3>2. CASE d \in 1 .. activeLeases
      BY <1>3, <1>4, <2>0, <3>2
    <3> QED
      BY <1>1, <3>1, <3>2
  <2>3. \A m, k \in Held' : lease'[m].depth = lease'[k].depth => m = k
    BY <1>1, <1>2, <1>3, <1>4, <2>0
  <2>4. \A m, k \in Held' :
          lease'[m].depth <= lease'[k].depth => lease'[m].snapshot <= lease'[k].snapshot
    BY <1>1, <1>2, <1>3, <1>4, <2>0
  <2> QED
    BY <1>1, <2>0, <2>1, <2>2, <2>3, <2>4
<1>8. LiveSpansAreOwned'
  BY <1>1 DEF BackingInv, LiveSpansAreOwned, Disjoint, End
<1>9. SpansByDepth'
  <2> SUFFICES ASSUME NEW s \in live, NEW m \in Held'
               PROVE  /\ s.start + s.bytes <= cursor
                      /\ s.depth < lease'[m].depth => s.start + s.bytes <= lease'[m].snapshot
                      /\ s.depth = lease'[m].depth => lease'[m].snapshot <= s.start
    <3>1. \A s \in live : s.start + s.bytes <= cursor
      BY DEF BackingInv, SpansByDepth
    <3> QED
      BY <1>1, <3>1 DEF SpansByDepth
  <2>1. CASE m = l
    <3>1. s.depth \in 1 .. activeLeases
      BY DEF BackingInv, LiveSpansAreOwned
    <3> QED
      BY <1>1, <1>2, <2>1, <3>1 DEF BackingInv, SpansByDepth
  <2>2. CASE m \in Held
    BY <1>4, <2>2 DEF BackingInv, SpansByDepth
  <2> QED
    BY <1>3, <2>1, <2>2
<1>10. Bottom'
  <2>1. activeLeases = 0 => cursor = RoundUp(Base)
    BY DEF BackingInv, NothingLeaks
  <2>2. RoundUp(Base)' = RoundUp(Base)
    BY DEF RoundUp
  <2> QED
    BY <1>1, <1>2, <1>3, <1>4, <2>1, <2>2 DEF BackingInv, Bottom
<1>11. OvershootIsBounded' /\ NothingLeaks'
  BY <1>1 DEF BackingInv, OvershootIsBounded, NothingLeaks, End
<1> QED
  BY <1>6, <1>7, <1>8, <1>9, <1>10, <1>11 DEF BackingInv

LEMMA ReleaseInv ==
  ASSUME BackingInv, NEW l \in Lease, Release(l)
  PROVE  BackingInv'
<1> DEFINE d == lease[l].depth
<1>1. /\ l \in Held /\ d = activeLeases
      /\ cursor' = lease[l].snapshot
      /\ activeLeases' = activeLeases - 1 /\ reserved24' = reserved24 - 1
      /\ live' = {s \in live : s.depth # d}
  BY DEF Release, Innermost, CursorAfterRelease, Held
<1>2. /\ lease'[l] = Empty
      /\ \A m \in Lease : m # l => lease'[m] = lease[m]
  BY DEF Release, BackingInv, TypeOK
<1>3. Held' = Held \ {l} /\ \A m \in Held' : lease'[m] = lease[m]
  BY <1>2 DEF Held, Empty
<1>4. \A m \in Held : lease[m].depth \in Nat /\ lease[m].snapshot \in Nat
  BY DEF BackingInv, TypeOK, Held
<1>5. LeasesNest
  BY DEF BackingInv
<1>6. activeLeases \in Nat /\ d \in 1 .. activeLeases /\ reserved24 = activeLeases
  BY <1>1, <1>5 DEF LeasesNest, BackingInv, TypeOK
<1>7. \A m \in Held' : /\ lease[m].depth \in 1 .. activeLeases - 1
                       /\ lease[m].snapshot <= lease[l].snapshot
  <2> TAKE m \in Held'
  <2>1. m \in Held /\ m # l
    BY <1>3
  <2>2. lease[m].depth \in 1 .. activeLeases /\ lease[m].depth # d
    BY <1>1, <1>5, <2>1 DEF LeasesNest
  <2>3. lease[m].depth <= d
    BY <1>1, <1>6, <2>2
  <2> QED
    BY <1>1, <1>5, <1>6, <2>1, <2>2, <2>3 DEF LeasesNest
<1>8. \A s \in live' : /\ s \in live /\ s.depth \in 1 .. activeLeases - 1
                       /\ s.start + s.bytes <= lease[l].snapshot
  <2> TAKE s \in live'
  <2>1. s \in live /\ s.depth # d
    BY <1>1
  <2>2. s.depth \in 1 .. activeLeases
    BY <2>1 DEF BackingInv, LiveSpansAreOwned
  <2>3. s.depth < d
    BY <1>1, <1>6, <2>1, <2>2
  <2> QED
    BY <1>1, <1>6, <2>1, <2>2, <2>3 DEF BackingInv, SpansByDepth
<1>9. TypeOK'
  <2>1. cursor' \in Nat /\ activeLeases' \in Nat /\ reserved24' \in Nat
    BY <1>1, <1>4, <1>6
  <2>2. lease' \in [Lease -> [held: BOOLEAN, snapshot: Nat, depth: Nat]]
    BY DEF Release, BackingInv, TypeOK, Empty
  <2>3. live' \subseteq [start: Nat, bytes: Request, depth: Nat]
    BY <1>1 DEF BackingInv, TypeOK
  <2> QED
    BY <2>1, <2>2, <2>3 DEF TypeOK
<1>10. LeasesNest'
  <2>1. \A m \in Held' : lease'[m].depth \in 1 .. activeLeases' /\ lease'[m].snapshot <= cursor'
    BY <1>1, <1>3, <1>7
  <2>2. \A e \in 1 .. activeLeases' : \E m \in Held' : lease'[m].depth = e
    <3> TAKE e \in 1 .. activeLeases'
    <3>1. e \in 1 .. activeLeases /\ e # d
      BY <1>1, <1>6
    <3>2. PICK m \in Held : lease[m].depth = e
      BY <1>5, <3>1 DEF LeasesNest
    <3> QED
      BY <1>3, <3>1, <3>2
  <2>3. \A m, k \in Held' : lease'[m].depth = lease'[k].depth => m = k
    BY <1>3, <1>5 DEF LeasesNest
  <2>4. \A m, k \in Held' :
          lease'[m].depth <= lease'[k].depth => lease'[m].snapshot <= lease'[k].snapshot
    BY <1>3, <1>5 DEF LeasesNest
  <2>5. reserved24' = activeLeases'
    BY <1>1, <1>6
  <2> QED
    BY <2>1, <2>2, <2>3, <2>4, <2>5 DEF LeasesNest
<1>11. LiveSpansAreOwned'
  <2>1. \A s, t \in live' : s = t \/ Disjoint(s, t)
    BY <1>8 DEF BackingInv, LiveSpansAreOwned
  <2>2. \A s \in live' : /\ Base <= s.start /\ s.start + s.bytes <= End
                         /\ s.depth \in 1 .. activeLeases'
    BY <1>1, <1>8 DEF BackingInv, LiveSpansAreOwned
  <2> QED
    BY <2>1, <2>2 DEF LiveSpansAreOwned, Disjoint, End
<1>12. SpansByDepth'
  BY <1>1, <1>3, <1>8 DEF BackingInv, SpansByDepth
<1>13. Bottom'
  BY <1>1, <1>3 DEF BackingInv, Bottom, RoundUp
<1>14. OvershootIsBounded'
  <2>1. lease[l].snapshot <= cursor
    BY <1>1, <1>5 DEF LeasesNest
  <2>2. cursor \in Nat /\ End + Alignment - 1 \in Int
    BY SizeAssumption DEF BackingInv, TypeOK, End
  <2> QED
    BY <1>1, <1>4, <2>1, <2>2 DEF BackingInv, OvershootIsBounded, End
<1>15. NothingLeaks'
  <2> SUFFICES ASSUME activeLeases' = 0
               PROVE  cursor' = RoundUp(Base) /\ live' = {}
    BY DEF NothingLeaks, RoundUp
  <2>1. d = 1
    BY <1>1, <1>6
  <2>2. live' = {}
    BY <1>1, <1>6, <1>8
  <2> QED
    BY <1>1, <2>1, <2>2 DEF BackingInv, Bottom
<1> QED
  BY <1>9, <1>10, <1>11, <1>12, <1>13, <1>14, <1>15 DEF BackingInv

LEMMA AllocateInv ==
  ASSUME NoTruncation, BackingInv, NEW l \in Lease, NEW n \in Request, Allocate(l, n)
  PROVE  BackingInv'
<1> DEFINE new == [start |-> cursor, bytes |-> n, depth |-> lease[l].depth]
<1>1. /\ l \in Held /\ lease[l].depth = activeLeases
      /\ cursor' = cursor + Rounded(n)
      /\ live' = live \union {new}
      /\ lease' = lease /\ activeLeases' = activeLeases /\ reserved24' = reserved24
  BY DEF Allocate, Innermost, Held
<1>2. /\ cursor \in Nat /\ n \in Nat /\ activeLeases \in Nat /\ lease[l].depth \in Nat
      /\ Base \in Nat /\ End \in Nat /\ Alignment \in Nat \ {0}
  BY SizeAssumption DEF BackingInv, TypeOK, End
<1>3. Base <= cursor /\ n <= End - cursor /\ cursor <= End
  BY DEF BackingInv, Bottom, Allocate, Fits
<1>4. Rounded(n) \in Nat /\ n <= Rounded(n) /\ Rounded(n) <= n + Alignment - 1
  BY <1>2, <1>3, RoundedCovers
<1>5. cursor' \in Nat /\ cursor <= cursor' /\ cursor + n <= cursor'
  BY <1>1, <1>2, <1>4
<1>6. Held' = Held
  BY <1>1 DEF Held
<1>7. \A m \in Held : /\ lease[m].depth \in 1 .. activeLeases
                      /\ lease[m].snapshot <= cursor /\ lease[m].snapshot \in Nat
  BY DEF BackingInv, LeasesNest, TypeOK, Held
<1>8. \A s \in live : /\ s.start \in Nat /\ s.bytes \in Nat
                      /\ s.start + s.bytes <= cursor
  BY SizeAssumption DEF BackingInv, TypeOK, SpansByDepth
<1>9. new.start = cursor /\ new.bytes = n /\ new.depth = activeLeases
  BY <1>1
<1>10. new \in [start: Nat, bytes: Request, depth: Nat]
  BY <1>1, <1>2
<1> HIDE DEF new
<1>11. TypeOK'
  BY <1>1, <1>5, <1>10 DEF BackingInv, TypeOK
<1>12. LeasesNest'
  <2>1. \A m \in Held : lease[m].snapshot <= cursor'
    BY <1>2, <1>5, <1>7
  <2> QED
    BY <1>1, <1>6, <2>1 DEF BackingInv, LeasesNest
<1>13. LiveSpansAreOwned'
  <2>1. \A s, t \in live' : s = t \/ Disjoint(s, t)
    <3>1. \A s \in live : Disjoint(s, new) /\ Disjoint(new, s)
      BY <1>8, <1>9 DEF Disjoint
    <3> QED
      BY <1>1, <3>1 DEF BackingInv, LiveSpansAreOwned
  <2>2. activeLeases \in 1 .. activeLeases
    BY <1>1, <1>7
  <2>3. \A s \in live' : /\ Base <= s.start /\ s.start + s.bytes <= End
                         /\ s.depth \in 1 .. activeLeases
    BY <1>1, <1>2, <1>3, <1>9, <2>2 DEF BackingInv, LiveSpansAreOwned
  <2> QED
    BY <1>1, <2>1, <2>3 DEF LiveSpansAreOwned, Disjoint, End
<1>14. SpansByDepth'
  <2>1. \A s \in live' : s.start + s.bytes <= cursor'
    BY <1>1, <1>2, <1>5, <1>8, <1>9
  <2>2. \A m \in Held :
          /\ new.depth < lease[m].depth => new.start + new.bytes <= lease[m].snapshot
          /\ new.depth = lease[m].depth => lease[m].snapshot <= new.start
    BY <1>2, <1>7, <1>9
  <2> QED
    BY <1>1, <1>6, <2>1, <2>2 DEF BackingInv, SpansByDepth
<1>15. Bottom'
  BY <1>1, <1>2, <1>3, <1>5, <1>6 DEF BackingInv, Bottom, RoundUp
<1>16. OvershootIsBounded'
  BY <1>1, <1>2, <1>3, <1>4 DEF OvershootIsBounded, End
<1>17. NothingLeaks'
  BY <1>1, <1>7 DEF NothingLeaks
<1> QED
  BY <1>11, <1>12, <1>13, <1>14, <1>15, <1>16, <1>17 DEF BackingInv

LEMMA BackingNext == NoTruncation /\ BackingInv /\ [Next]_vars => BackingInv'
<1> SUFFICES ASSUME NoTruncation, BackingInv, [Next]_vars
             PROVE  BackingInv'
  OBVIOUS
<1>1. CASE Next
  BY <1>1, AcquireInv, ReleaseInv, AllocateInv DEF Next
<1>2. CASE UNCHANGED vars
  BY <1>2 DEF vars, BackingInv, TypeOK, LeasesNest, LiveSpansAreOwned, SpansByDepth, Bottom,
              OvershootIsBounded, NothingLeaks, Held, Disjoint, End, RoundUp
<1> QED
  BY <1>1, <1>2

-----------------------------------------------------------------------------

LEMMA BackingAlways ==
  ASSUME NoTruncation
  PROVE  Spec => []BackingInv
<1>1. BackingInv /\ [Next]_vars => BackingInv'
  BY BackingNext
<1> QED
  BY <1>1, BackingInit, PTL DEF Spec

(***************************************************************************)
(* Types: cursor, leases, spans and both counters, for every arena, every  *)
(* number of leases and whatever the word truncates: a release takes one   *)
(* off counters that are at least one and agree                            *)
(* (temporary_backing_allocator.cpp:30-41).                                *)
(***************************************************************************)
THEOREM TypeCorrect == Spec => []TypeOK
<1> DEFINE Counts == /\ TypeOK
                     /\ reserved24 = activeLeases
                     /\ \A l \in Lease : lease[l].held => lease[l].depth >= 1
<1>1. Init => Counts
  BY BackingInit DEF BackingInv, LeasesNest, Held
<1>2. Counts /\ [Next]_vars => Counts'
  <2> SUFFICES ASSUME Counts, [Next]_vars
               PROVE  Counts'
    OBVIOUS
  <2>1. ASSUME NEW l \in Lease, Acquire(l)
        PROVE  Counts'
    BY <2>1 DEF Acquire, Counted, TypeOK
  <2>2. ASSUME NEW l \in Lease, Release(l)
        PROVE  Counts'
    <3>1. activeLeases >= 1 /\ lease[l].snapshot \in Nat
      BY <2>2 DEF Release, Innermost, TypeOK
    <3>2. /\ lease' \in [Lease -> [held: BOOLEAN, snapshot: Nat, depth: Nat]]
          /\ \A m \in Lease : lease'[m].held => lease'[m].depth >= 1
      BY <2>2 DEF Release, TypeOK, Empty
    <3> QED
      BY <2>2, <3>1, <3>2 DEF Release, CursorAfterRelease, TypeOK
  <2>3. ASSUME NEW l \in Lease, NEW n \in Request, Allocate(l, n)
        PROVE  Counts'
    <3>1. Rounded(n) \in Nat
      <4>1. RoundUp(n) \in Nat /\ Word \in Nat \ {0}
        BY SizeAssumption, RoundUpBounds
      <4> QED
        BY <4>1 DEF Rounded
    <3>2. live' \subseteq [start: Nat, bytes: Request, depth: Nat]
      BY <2>3 DEF Allocate, TypeOK
    <3> QED
      BY <2>3, <3>1, <3>2 DEF Allocate, TypeOK
  <2>4. CASE UNCHANGED vars
    BY <2>4 DEF vars, TypeOK
  <2> QED
    BY <2>1, <2>2, <2>3, <2>4 DEF Next
<1>3. Counts => TypeOK
  OBVIOUS
<1> QED
  BY <1>1, <1>2, <1>3, PTL DEF Spec

(***************************************************************************)
(* For every arena and every request that 32-bit rounding leaves intact,   *)
(* no two live allocations overlap, none leaves the arena or outlives its  *)
(* lease (temporary_backing_allocator.cpp:32-58).                          *)
(***************************************************************************)
THEOREM LiveSpansStayOwned ==
  ASSUME NoTruncation
  PROVE  Spec => []LiveSpansAreOwned
<1>1. BackingInv => LiveSpansAreOwned
  BY DEF BackingInv
<1> QED
  BY <1>1, BackingAlways, PTL

(***************************************************************************)
(* Leases nest: acquiring and releasing keeps depths, snapshots and both   *)
(* counters consistent, so the innermost lease is always unique.           *)
(***************************************************************************)
THEOREM LeasesAlwaysNest ==
  ASSUME NoTruncation
  PROVE  Spec => []LeasesNest
<1>1. BackingInv => LeasesNest
  BY DEF BackingInv
<1> QED
  BY <1>1, BackingAlways, PTL

(***************************************************************************)
(* The cursor overshoots the limit by less than one alignment unit, and    *)
(* without leases the arena is whole again.                                *)
(***************************************************************************)
THEOREM CursorStaysNearLimit ==
  ASSUME NoTruncation
  PROVE  Spec => []CursorIsAccounted
<1>1. BackingInv => CursorIsAccounted
  BY DEF BackingInv, CursorIsAccounted
<1> QED
  BY <1>1, BackingAlways, PTL
=============================================================================
