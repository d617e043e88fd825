-------------------------- MODULE TemporaryBacking --------------------------
(***************************************************************************)
(* reverse::TemporaryBackingArena: one span of memory handed out by bumping *)
(* a cursor, under leases that nest.  A lease remembers where the cursor    *)
(* was and how deep it lies; only the innermost lease may allocate or be    *)
(* released, and its release gives back all it allocated at once.           *)
(*                                                                          *)
(* Sizes are 32-bit: the rounded size of a request is truncated to the word *)
(* before the cursor moves, and the capacity check looks at the raw size.   *)
(* Addresses are 64-bit and far from wrapping.                              *)
(***************************************************************************)
EXTENDS Integers, FiniteSets

CONSTANTS
  Lease,      \* the lease structures callers own, all of this arena
  Base,       \* arena.base
  Bytes,      \* arena.bytes
  Alignment,  \* 1 << (alignment_shift & 31)
  Word,       \* 2^32
  Request     \* sizes callers ask for

ASSUME SizeAssumption ==
  /\ Base \in Nat /\ Bytes \in Nat
  /\ Alignment \in Nat \ {0} /\ Word \in Nat \ {0}
  /\ Request \subseteq Nat

VARIABLES
  cursor,        \* arena.cursor
  activeLeases,  \* arena.active_leases
  reserved24,    \* arena.reserved_24
  lease,         \* by lease: is it held, its cursor snapshot and its depth
  live           \* history: what was allocated and not given back

vars == <<cursor, activeLeases, reserved24, lease, live>>

RoundUp(x) == ((x + Alignment - 1) \div Alignment) * Alignment

End == Base + Bytes

Empty == [held |-> FALSE, snapshot |-> 0, depth |-> 0]

Init ==
  /\ cursor = RoundUp(Base)
  /\ activeLeases = 0
  /\ reserved24 = 0
  /\ lease = [l \in Lease |-> Empty]
  /\ live = {}

\* Mutant of Counted: the second counter is not maintained on acquire.
NotCounted(counter) == counter

Counted(counter) == counter + 1

Acquire(l) ==
  /\ ~lease[l].held
  /\ activeLeases' = activeLeases + 1
  /\ lease' = [lease EXCEPT ![l] =
       [held |-> TRUE, snapshot |-> cursor, depth |-> activeLeases + 1]]
  /\ reserved24' = Counted(reserved24)
  /\ UNCHANGED <<cursor, live>>

\* Mutant of Innermost: any held lease will do.
AnyHeld(l) == lease[l].held

Innermost(l) == lease[l].held /\ lease[l].depth = activeLeases

CursorAfterRelease(l) == lease[l].snapshot

\* Releasing an outer lease is refused and changes nothing.
Release(l) ==
  /\ Innermost(l)
  /\ reserved24' = reserved24 - 1
  /\ activeLeases' = activeLeases - 1
  /\ cursor' = CursorAfterRelease(l)
  /\ lease' = [lease EXCEPT ![l] = Empty]
  /\ live' = {s \in live : s.depth # lease[l].depth}

\* Mutant of Rounded: down to the alignment.
RoundedDown(n) == (n \div Alignment) * Alignment

Rounded(n) == RoundUp(n) % Word

\* Mutant of Fits: the end of the arena is forgotten once the cursor passed it.
FitsIgnoringEnd(n) == n <= Bytes

Fits(n) == cursor <= End /\ n <= End - cursor

Allocate(l, n) ==
  /\ Innermost(l)
  /\ Fits(n)
  /\ cursor' = cursor + Rounded(n)
  /\ live' = live \union {[start |-> cursor, bytes |-> n, depth |-> lease[l].depth]}
  /\ UNCHANGED <<activeLeases, reserved24, lease>>

Next ==
  \E l \in Lease :
    \/ Acquire(l)
    \/ Release(l)
    \/ \E n \in Request : Allocate(l, n)

Spec == Init /\ [][Next]_vars

-----------------------------------------------------------------------------

Held == {l \in Lease : lease[l].held}

TypeOK ==
  /\ cursor \in Nat
  /\ activeLeases \in Nat
  /\ reserved24 \in Nat
  /\ lease \in [Lease -> [held: BOOLEAN, snapshot: Nat, depth: Nat]]
  /\ live \subseteq [start: Nat, bytes: Request, depth: Nat]

(***************************************************************************)
(* Leases nest: depths tell the held leases apart and run from 1 to the    *)
(* counter (so some lease can always be released), deeper leases start     *)
(* where the shallower ones had already allocated, and both counters agree.*)
(***************************************************************************)
LeasesNest ==
  /\ reserved24 = activeLeases
  /\ \A l \in Held : lease[l].depth \in 1 .. activeLeases /\ lease[l].snapshot <= cursor
  /\ \A d \in 1 .. activeLeases : \E l \in Held : lease[l].depth = d
  /\ \A l, m \in Held : lease[l].depth = lease[m].depth => l = m
  /\ \A l, m \in Held :
       lease[l].depth <= lease[m].depth => lease[l].snapshot <= lease[m].snapshot

Disjoint(s, t) == s.start + s.bytes <= t.start \/ t.start + t.bytes <= s.start

(***************************************************************************)
(* Memory handed out and not given back is never handed out again, lies    *)
(* inside the arena and belongs to a lease that is still held: a release   *)
(* gives back the inner lease's spans and no other's.                      *)
(***************************************************************************)
LiveSpansAreOwned ==
  /\ \A s, t \in live : s = t \/ Disjoint(s, t)
  /\ \A s \in live : /\ Base <= s.start /\ s.start + s.bytes <= End
                     /\ s.depth \in 1 .. activeLeases

(***************************************************************************)
(* Nothing leaks: with no lease held the whole arena is free again, however *)
(* the leases that came and went were nested.                               *)
(***************************************************************************)
NothingLeaks == activeLeases = 0 => cursor = RoundUp(Base) /\ live = {}

(***************************************************************************)
(* docs/research/dmc3-ptx-temporary-backing-2026-09-23.md:43-45: the check *)
(* before rounding lets the cursor pass the limit, but by less than one    *)
(* alignment unit.                                                         *)
(***************************************************************************)
OvershootIsBounded == cursor <= End + Alignment - 1

(***************************************************************************)
(* Both ends of the cursor's range: with no lease held it is back at the   *)
(* start, however leases came and went, and it passes the end by less than *)
(* an alignment unit (allocate_temporary_backing rounds after its test).   *)
(***************************************************************************)
CursorIsAccounted == NothingLeaks /\ OvershootIsBounded

(***************************************************************************)
(* temporary_backing_allocator.hpp:38-39, "rounds each request up to the      *)
(* backing alignment": the cursor moves at least by what was asked for, so *)
(* every span a caller holds ends before the cursor.                       *)
(***************************************************************************)
RequestsAreRoundedUp == \A s \in live : s.start + s.bytes <= cursor
=============================================================================
