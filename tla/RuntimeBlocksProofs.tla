------------------------- MODULE RuntimeBlocksProofs -------------------------
(***************************************************************************)
(* Theorems about RuntimeBlocks for all arenas, nodes, sizes and requests.  *)
(* Two invariants carry them.  SearchInv is the loop invariant of the       *)
(* search: no run fits before the place where it looks, except for the one  *)
(* place it may have passed over.  BlockInv says which cells are whose; it  *)
(* needs of the search only that the run it found is free.                  *)
(***************************************************************************)
EXTENDS RuntimeBlocks, FiniteSetTheorems, TLAPS

-----------------------------------------------------------------------------
(* Arithmetic                                                               *)

\* Division rounds down to a multiple.
LEMMA Quotient ==
  ASSUME NEW x \in Int, NEW u \in Nat \ {0}
  PROVE  /\ x \div u \in Int
         /\ (x \div u) * u <= x
         /\ x < (x \div u) * u + u
         /\ x >= 0 => x \div u \in Nat
         /\ x < u => x \div u <= 0
  OBVIOUS

\* Rounding up to a multiple moves a size by less than the unit.
LEMMA RoundUpBounds ==
  ASSUME NEW x \in Nat, NEW u \in Nat \ {0}
  PROVE  RoundUp(x, u) \in Nat /\ x <= RoundUp(x, u) /\ RoundUp(x, u) <= x + u - 1
<1> DEFINE y == x + u - 1
<1>1. y \in Nat
  OBVIOUS
<1> HIDE DEF y
<1>2. /\ y \div u \in Nat /\ (y \div u) * u <= y /\ y < (y \div u) * u + u
  BY <1>1, Quotient
<1> DEFINE q == y \div u
<1>3. RoundUp(x, u) = q * u
  BY DEF RoundUp, y
<1> HIDE DEF q
<1>4. q \in Nat /\ q * u <= y /\ y < q * u + u /\ q * u \in Nat
  BY <1>2 DEF q
<1> QED
  BY <1>3, <1>4 DEF y

\* Products grow with their factors.
LEMMA Grows ==
  ASSUME NEW p \in Nat, NEW q \in Nat, NEW u \in Nat, p <= q
  PROVE  p * u <= q * u
  OBVIOUS

\* A multiple below another is below it by a whole unit.
LEMMA NextMultiple ==
  ASSUME NEW p \in Nat, NEW q \in Nat, NEW u \in Nat \ {0}, p * u < q * u
  PROVE  p * u + u <= q * u
<1>1. p < q
  <2>1. CASE q <= p
    <3>1. q * u <= p * u
      BY <2>1, Grows
    <3> QED
      BY <3>1
  <2> QED
    BY <2>1
<1>2. (p + 1) * u <= q * u
  BY <1>1, Grows
<1>3. (p + 1) * u = p * u + u
  OBVIOUS
<1> QED
  BY <1>2, <1>3

\* What initialize_runtime_block_arena makes of a backing.
LEMMA BlockSize ==
  ASSUME NEW a \in Arena
  PROVE  /\ Backing[a].address \in Nat /\ Backing[a].bytes \in Nat
         /\ Backing[a].bytes < Word
         /\ Backing[a].block \in Nat \ {0} /\ Backing[a].alignment \in Nat \ {0}
         /\ BlockBytes[a] \in Nat \ {0} /\ Backing[a].block <= BlockBytes[a]
         /\ Capacity[a] \in Int
         /\ Capacity[a] * (BlockBytes[a] + 1) <= Backing[a].bytes - Backing[a].alignment
         /\ ~LargeEnough(a) => Capacity[a] <= 0
         /\ LargeEnough(a) => Capacity[a] \in Nat
<1>1. /\ Backing[a].address \in Nat /\ Backing[a].bytes \in Nat
      /\ Backing[a].bytes < Word
      /\ Backing[a].block \in Nat \ {0} /\ Backing[a].alignment \in Nat \ {0}
  BY BackingAssumption, ArenaAssumption
<1>2. BlockBytes[a] \in Nat \ {0} /\ Backing[a].block <= BlockBytes[a]
  <2> DEFINE b == Backing[a].block
             u == Backing[a].alignment
  <2>1. BlockBytes[a] = RoundUp(b, u)
    BY DEF BlockBytes
  <2>2. b \in Nat \ {0} /\ u \in Nat \ {0}
    BY <1>1
  <2> HIDE DEF b, u
  <2>3. RoundUp(b, u) \in Nat /\ b <= RoundUp(b, u)
    BY <2>2, RoundUpBounds
  <2> QED
    BY <2>1, <2>2, <2>3 DEF b
<1> DEFINE room == Backing[a].bytes - Backing[a].alignment
           unit == BlockBytes[a] + 1
<1>3. room \in Int /\ unit \in Nat \ {0}
  BY <1>1, <1>2
<1>4. Capacity[a] = room \div unit
  BY DEF Capacity
<1>5. LargeEnough(a) <=> Backing[a].block <= room
  BY <1>1 DEF LargeEnough
<1> HIDE DEF room, unit
<1>6. Capacity[a] \in Int /\ Capacity[a] * unit <= room
  BY <1>3, <1>4, Quotient
<1>7. ~LargeEnough(a) => Capacity[a] <= 0
  <2>1. SUFFICES ASSUME ~LargeEnough(a) PROVE room < unit
    BY <1>3, <1>4, Quotient
  <2>2. room < Backing[a].block
    BY <1>1, <1>3, <1>5, <2>1
  <2> QED
    BY <1>1, <1>2, <1>3, <2>2 DEF unit
<1>8. LargeEnough(a) => Capacity[a] \in Nat
  <2>1. LargeEnough(a) => room >= 0
    BY <1>1, <1>3, <1>5
  <2> QED
    BY <1>3, <1>4, <2>1, Quotient
<1> QED
  BY <1>1, <1>2, <1>6, <1>7, <1>8 DEF room, unit

LEMMA Geometry ==
  ASSUME NEW a \in Arena, Capacity[a] \in Nat
  PROVE  /\ Data[a] \in Nat
         /\ Backing[a].address + Capacity[a] <= Data[a]
         /\ Data[a] + Capacity[a] * BlockBytes[a] <= Backing[a].address + Backing[a].bytes
         /\ Capacity[a] * BlockBytes[a] < Word
<1> DEFINE c == Capacity[a]
           s == BlockBytes[a]
           A == Backing[a].alignment
           B == Backing[a].bytes
           P == Backing[a].address
<1>1. /\ c \in Nat /\ s \in Nat \ {0} /\ A \in Nat \ {0} /\ B \in Nat /\ P \in Nat
      /\ B < Word /\ Word \in Nat
      /\ c * (s + 1) <= B - A
  BY BlockSize, ArenaAssumption
<1>2. Data[a] = RoundUp(P + c, A)
  BY DEF Data
<1> DEFINE base == P + c
<1>3. base \in Nat
  BY <1>1
<1> HIDE DEF base
<1>4. RoundUp(base, A) \in Nat /\ base <= RoundUp(base, A) /\ RoundUp(base, A) <= base + A - 1
  BY <1>1, <1>3, RoundUpBounds
<1>5. Data[a] \in Nat /\ P + c <= Data[a] /\ Data[a] <= P + c + A - 1
  BY <1>2, <1>4 DEF base
<1> HIDE DEF c, s, A, B, P
<1>6. c * (s + 1) = c * s + c /\ c * s \in Nat
  BY <1>1
<1> DEFINE cs == c * s
<1>7. cs \in Nat /\ cs + c <= B - A
  BY <1>1, <1>6
<1> HIDE DEF cs
<1>8. P + c <= Data[a] /\ Data[a] + cs <= P + B /\ cs < Word
  BY <1>1, <1>5, <1>7
<1> QED
  BY <1>5, <1>8 DEF cs, c, s, A, B, P

\* The number of blocks asked for is positive.
LEMMA BlocksPositive ==
  ASSUME NEW a \in Arena, NEW bytes \in Nat \ {0}
  PROVE  BlocksFor(a, bytes) \in Nat \ {0}
<1>1. BlockBytes[a] \in Nat \ {0}
  BY BlockSize
<1> DEFINE u == BlockBytes[a]
           x == bytes + u - 1
<1>2. x \in Nat /\ x >= u
  BY <1>1
<1>3. u \in Nat \ {0}
  BY <1>1
<1> HIDE DEF x, u
<1>4. x \div u \in Nat /\ x < (x \div u) * u + u
  BY <1>2, <1>3, Quotient
<1>5. x \div u # 0
  BY <1>2, <1>3, <1>4
<1> QED
  BY <1>4, <1>5 DEF BlocksFor, x, u

-----------------------------------------------------------------------------
(* The search                                                               *)

NoFitBelow(c) == \A s \in Nat : s < c => ~Fits(s)
OnlyOverlookedBelow(c) == \A s \in Nat : s < c /\ Fits(s) => Overlooked(s)

\* Where the group of the cursor begins.
Base == scan.group * Group

\* The cursor is in its group.  It is at its start or its second cell, or the
\* search has just broken off behind a free cell of the group.
InGroups ==
  /\ Base <= scan.cursor /\ scan.cursor < Base + Group
  /\ \/ /\ NoFitBelow(scan.cursor)
        /\ scan.cursor > Base + 1 =>
             scan.cursor - 2 \in Cells[At] /\ ~Taken(scan.cursor - 2)
     \/ /\ scan.cursor = Base + 1
        /\ NoFitBelow(Base)
        /\ 0 < Base /\ Base <= Rounded[At]
        /\ \A i \in Base - Group .. Base - 1 : Taken(i)

\* The attempt has not been refused.
Open == ~InPhase("failed") /\ ~InPhase("refused")

CallInv ==
  /\ Idle => call.node = None
  /\ ~Idle => /\ call.node \in Node \ Releasing
              /\ call.arena \in Arena /\ call.bytes \in Nat \ {0}
              /\ InPhase("refused") => Vacant(call.node)
              /\ Open => Searchable(At)

SearchInv ==
  /\ CallInv
  /\ InPhase("groups") => InGroups
  /\ InPhase("probe") =>
       scan.start <= Capacity[At] /\ scan.seen < Group /\ NoFitBelow(scan.start)
  /\ InPhase("tail") => OnlyOverlookedBelow(scan.cursor)
  /\ InPhase("tailprobe") =>
       scan.start <= Capacity[At] /\ OnlyOverlookedBelow(scan.start)
  /\ InPhase("found") => Fits(scan.start) /\ OnlyOverlookedBelow(scan.start)
  /\ InPhase("failed") /\ Searchable(At) => OnlyOverlookedBelow(Capacity[At])

\* What a node names lies in its arena.
Named(n) ==
  /\ node[n].arena \in Arena
  /\ node[n].blocks \in Nat \ {0} /\ node[n].first \in Nat
  /\ node[n].first + node[n].blocks <= Capacity[node[n].arena]
  /\ node[n].data = Data[node[n].arena] + BlockBytes[node[n].arena] * node[n].first

BlockInv ==
  /\ \A n \in Node : n # call.node /\ ~Vacant(n) => Named(n)
  /\ \A n \in Releasing : ~Vacant(n)
  /\ \A j, k \in DOMAIN releasing : releasing[j] = releasing[k] => j = k
  /\ OccupancyIsOwned

\* TypeOK, except that the counters may be negative: their type follows from OccupancyIsOwned.
Typed ==
  /\ DOMAIN cell = Arena /\ \A a \in Arena : cell[a] \in [Cells[a] -> {0, 1}]
  /\ live \in [Arena -> Int]
  /\ node \in [Node -> [arena: Arena \union {None}, data: Nat,
                        first: Nat \union {-1}, blocks: Nat]]
  /\ releasing \in Seq(Node)
  /\ call \in [phase: Phase, node: Node \union {None}, arena: Arena \union {None},
               again: Arena \union {None}, bytes: Nat]
  /\ scan \in [cursor: Nat, group: Nat, start: Nat, seen: Nat]

IInv == Typed /\ SearchInv /\ BlockInv

\* The sizes the search works with.
LEMMA SearchContext ==
  ASSUME Typed, CallInv, ~Idle, Searchable(At)
  PROVE  /\ At \in Arena /\ Needed \in Nat \ {0}
         /\ Capacity[At] \in Nat /\ Rounded[At] \in Nat /\ Rounded[At] <= Capacity[At]
         /\ Cells[At] = 0 .. Capacity[At] - 1
         /\ Group \in Nat \ {0, 1}
         /\ scan.cursor \in Nat /\ scan.group \in Nat /\ scan.start \in Nat /\ scan.seen \in Nat
         /\ scan = [cursor |-> scan.cursor, group |-> scan.group,
                    start |-> scan.start, seen |-> scan.seen]
         /\ Base \in Nat
         /\ Base < Rounded[At] => Base + Group <= Rounded[At]
<1>1. At \in Arena /\ call.bytes \in Nat \ {0}
  BY DEF CallInv, At
<1>2. Needed \in Nat \ {0}
  BY <1>1, BlocksPositive DEF Needed
<1>3. LargeEnough(At)
  BY DEF Searchable
<1>4. Capacity[At] \in Nat
  BY <1>1, <1>3, BlockSize
<1>5. Group \in Nat \ {0, 1}
  BY GroupAssumption
<1> DEFINE q == Capacity[At] \div Group
<1>6. q \in Nat /\ q * Group <= Capacity[At]
  <2> DEFINE c == Capacity[At]
  <2>1. c \in Nat /\ c \in Int /\ c >= 0 /\ Group \in Nat \ {0}
    BY <1>4, <1>5
  <2> HIDE DEF c
  <2>2. c \div Group \in Nat /\ (c \div Group) * Group <= c
    BY <2>1, Quotient
  <2> QED
    BY <2>2 DEF c, q
<1>7. Rounded[At] = q * Group
  BY <1>1 DEF Rounded
<1> HIDE DEF q
<1>8. Rounded[At] \in Nat /\ Rounded[At] <= Capacity[At]
  BY <1>5, <1>6, <1>7
<1>9. /\ scan.cursor \in Nat /\ scan.group \in Nat /\ scan.start \in Nat /\ scan.seen \in Nat
      /\ scan = [cursor |-> scan.cursor, group |-> scan.group,
                 start |-> scan.start, seen |-> scan.seen]
  BY DEF Typed
<1>10. Base \in Nat
  BY <1>5, <1>9 DEF Base
<1>11. Base < Rounded[At] => Base + Group <= Rounded[At]
  BY <1>5, <1>6, <1>7, <1>9, NextMultiple DEF Base
<1>12. Cells[At] = 0 .. Capacity[At] - 1
  BY <1>1 DEF Cells
<1> QED
  BY <1>1, <1>2, <1>4, <1>5, <1>8, <1>9, <1>10, <1>11, <1>12

\* What the search looks at stays as it is while it runs.
LEMMA SameView ==
  ASSUME Searching, call'.arena = call.arena, call'.bytes = call.bytes
  PROVE  /\ At' = At /\ Needed' = Needed
         /\ \A i : Taken(i)' <=> Taken(i)
         /\ \A s : (Fits(s))' <=> Fits(s)
         /\ \A s : (Overlooked(s))' <=> Overlooked(s)
         /\ \A n : (Vacant(n))' <=> Vacant(n)
         /\ Releasing' = Releasing
         /\ Searchable(At)' <=> Searchable(At)
<1>1. At' = At
  BY DEF At
<1>2. Needed' = Needed
  BY <1>1 DEF Needed
<1>3. \A i : Taken(i)' <=> Taken(i)
  BY <1>1 DEF Taken, Searching
<1>4. \A s : (Fits(s))' <=> Fits(s)
  BY <1>1, <1>2, <1>3 DEF Fits
<1>5. \A s : (Overlooked(s))' <=> Overlooked(s)
  BY <1>1, <1>3 DEF Overlooked
<1>6. \A n : (Vacant(n))' <=> Vacant(n)
  BY DEF Vacant, Searching
<1>7. Searchable(At)' <=> Searchable(At)
  BY <1>1
<1>8. Releasing' = Releasing
  BY DEF Releasing, Searching
<1> QED
  BY <1>1, <1>2, <1>3, <1>4, <1>5, <1>6, <1>7, <1>8

\* A phase follows another within one call.
LEMMA PhaseStep ==
  ASSUME Typed, CallInv, ~Idle, Open, Searching,
         NEW p \in Phase \ {"idle", "refused"}, call' = [call EXCEPT !.phase = p]
  PROVE  /\ CallInv' /\ ~Idle' /\ call'.phase = p
         /\ call'.arena = call.arena /\ call'.bytes = call.bytes
         /\ call' \in [phase: Phase, node: Node \union {None}, arena: Arena \union {None},
                       again: Arena \union {None}, bytes: Nat]
         /\ Searchable(At)
<1>1. /\ call' \in [phase: Phase, node: Node \union {None}, arena: Arena \union {None},
                     again: Arena \union {None}, bytes: Nat]
      /\ call'.phase = p /\ call'.arena = call.arena /\ call'.bytes = call.bytes
      /\ call'.node = call.node
  BY DEF Typed, Phase
<1>2. Searchable(At)
  BY DEF CallInv
<1>3. At' = At /\ ~Idle' /\ ~(InPhase("refused"))'
  BY <1>1 DEF At, Idle, InPhase
<1>4. /\ call.node \in Node \ Releasing /\ call.arena \in Arena
      /\ call.bytes \in Nat \ {0}
  BY DEF CallInv
<1>5. Releasing' = Releasing
  BY DEF Searching, Releasing
<1>6. Searchable(At)'
  BY <1>2, <1>3
<1>7. CallInv'
  BY <1>1, <1>3, <1>4, <1>5, <1>6 DEF CallInv
<1> QED
  BY <1>1, <1>2, <1>3, <1>7

\* A fit begins with a free cell of the map.
LEMMA FitStartsFree ==
  ASSUME Needed \in Nat \ {0}, Capacity[At] \in Nat, NEW s \in Nat, Fits(s)
  PROVE  ~Taken(s) /\ s < Capacity[At] /\ s + Needed <= Capacity[At]
BY DEF Fits, FirstBlocks

LEMMA GroupsEndStep ==
  ASSUME Typed, SearchInv, GroupsEnd
  PROVE  Typed' /\ SearchInv'
<1>1. CallInv /\ ~Idle /\ Open /\ InGroups /\ Searching
  BY DEF SearchInv, GroupsEnd, Open, InPhase, Idle
<1>2. /\ CallInv' /\ call'.phase = "tail" /\ Searchable(At)
      /\ call'.arena = call.arena /\ call'.bytes = call.bytes
      /\ call' \in [phase: Phase, node: Node \union {None}, arena: Arena \union {None},
                    again: Arena \union {None}, bytes: Nat]
  <2>1. "tail" \in Phase \ {"idle", "refused"} /\ call' = [call EXCEPT !.phase = "tail"]
    BY DEF Phase, GroupsEnd, Goto
  <2> QED
    BY <1>1, <2>1, PhaseStep
<1>3. Typed'
  BY <1>1, <1>2 DEF Typed, Searching, GroupsEnd
<1>4. OnlyOverlookedBelow(scan.cursor)
  <2> SUFFICES ASSUME NEW s \in Nat, s < scan.cursor, Fits(s) PROVE Overlooked(s)
    BY DEF OnlyOverlookedBelow
  <2>1. /\ scan.cursor = Base + 1 /\ NoFitBelow(Base)
        /\ 0 < Base /\ Base <= Rounded[At]
        /\ \A i \in Base - Group .. Base - 1 : Taken(i)
    BY <1>1 DEF InGroups, NoFitBelow
  <2>2. s = Base
    BY <1>1, <1>2, <2>1, SearchContext DEF NoFitBelow
  <2>3. Base = Rounded[At]
    BY <1>1, <1>2, <2>1, SearchContext DEF GroupsEnd
  <2> QED
    BY <2>1, <2>2, <2>3 DEF Overlooked
<1>5. OnlyOverlookedBelow(scan.cursor)'
  BY <1>1, <1>2, <1>4, SameView DEF OnlyOverlookedBelow, GroupsEnd
<1> QED
  BY <1>2, <1>3, <1>5 DEF SearchInv, InPhase

LEMMA SkipGroupStep ==
  ASSUME Typed, SearchInv, SkipGroup
  PROVE  Typed' /\ SearchInv'
<1>1. CallInv /\ ~Idle /\ InGroups /\ Searching /\ Searchable(At)
  BY DEF SearchInv, SkipGroup, Open, InPhase, Idle, CallInv
<1>2. /\ scan.cursor \in Nat /\ scan.group \in Nat /\ Base \in Nat /\ Group \in Nat \ {0, 1}
      /\ Capacity[At] \in Nat /\ Rounded[At] \in Nat /\ Rounded[At] <= Capacity[At]
      /\ Needed \in Nat \ {0} /\ Cells[At] = 0 .. Capacity[At] - 1
      /\ scan.start \in Nat /\ scan.seen \in Nat
  BY <1>1, SearchContext
<1>3. /\ scan'.cursor = scan.cursor + Group /\ scan'.group = scan.group + 1
      /\ scan' \in [cursor: Nat, group: Nat, start: Nat, seen: Nat]
  <2>1. scan \in [cursor: Nat, group: Nat, start: Nat, seen: Nat]
    BY DEF Typed
  <2>2. scan' = [scan EXCEPT !.group = @ + 1, !.cursor = @ + Group]
    BY DEF SkipGroup
  <2>3. scan.cursor + Group \in Nat /\ scan.group + 1 \in Nat
    BY <1>2
  <2> QED
    BY <2>1, <2>2, <2>3
<1>4. Typed'
  BY <1>1, <1>3 DEF Typed, Searching, SkipGroup
<1>5. Base' = Base + Group
  BY <1>2, <1>3 DEF Base
<1>6. Base + Group <= Rounded[At]
  BY <1>1, <1>2, SearchContext DEF SkipGroup, InGroups
<1>7. \A i \in Base .. Base + Group - 1 : Taken(i)
  BY DEF SkipGroup, GroupCells, FirstBlocks, Base
<1>8. scan.cursor \in {Base, Base + 1} /\ NoFitBelow(Base)
  <2>1. NoFitBelow(Base)
    BY <1>1, <1>2 DEF InGroups, NoFitBelow
  <2>2. ASSUME scan.cursor > Base + 1 PROVE FALSE
    <3>1. ~Taken(scan.cursor - 2)
      BY <1>1, <1>2, <2>2 DEF InGroups
    <3>2. scan.cursor - 2 \in Base .. Base + Group - 1
      BY <1>1, <1>2, <2>2 DEF InGroups
    <3> QED
      BY <1>7, <3>1, <3>2
  <2> QED
    BY <1>1, <1>2, <2>1, <2>2 DEF InGroups
<1>9. NoFitBelow(Base + Group)
  <2> SUFFICES ASSUME NEW s \in Nat, s < Base + Group, Fits(s) PROVE FALSE
    BY DEF NoFitBelow
  <2>1. ~Taken(s)
    BY <1>2, FitStartsFree
  <2>2. s >= Base
    BY <1>2, <1>8 DEF NoFitBelow
  <2> QED
    BY <1>2, <1>7, <2>1, <2>2
<1>10. InGroups'
  <2> DEFINE b == Base + Group
             c == scan.cursor + Group
  <2>1. At' = At /\ Base' = b /\ scan'.cursor = c /\ (NoFitBelow(b) => (NoFitBelow(Base))')
    <3>1. At' = At /\ \A s : (Fits(s))' <=> Fits(s)
      BY <1>1, SameView DEF SkipGroup
    <3> QED
      BY <1>3, <1>5, <3>1 DEF NoFitBelow
  <2>2. \A i : Taken(i)' <=> Taken(i)
    BY <1>1, SameView DEF SkipGroup
  <2>3. CASE scan.cursor = Base
    <3>1. NoFitBelow(scan.cursor)'
      BY <1>2, <1>3, <1>5, <1>9, <2>1, <2>3 DEF NoFitBelow
    <3>2. scan'.cursor = Base' /\ Base' \in Nat
      BY <1>2, <1>3, <1>5, <2>3
    <3>3. ~(scan'.cursor > Base' + 1) /\ Base' <= scan'.cursor /\ scan'.cursor < Base' + Group
      <4> DEFINE x == scan'.cursor
                 y == Base'
      <4>1. x = y /\ y \in Nat /\ Group \in Nat \ {0}
        BY <3>2, GroupAssumption
      <4> HIDE DEF x, y
      <4>2. ~(x > y + 1) /\ y <= x /\ x < y + Group
        BY <4>1
      <4> QED
        BY <4>2 DEF x, y
    <3> QED
      BY <3>1, <3>3 DEF InGroups
  <2>4. CASE scan.cursor = Base + 1
    <3>1. scan'.cursor = Base' + 1 /\ Base' \in Nat /\ 0 < Base' /\ Base' <= Rounded[At]
      <4> DEFINE x == Base
                 y == scan.cursor
                 size == Rounded[At]
      <4>1. /\ x \in Nat /\ y = x + 1 /\ Group \in Nat \ {0} /\ x + Group <= size
            /\ scan'.cursor = y + Group /\ Base' = x + Group
        BY <1>2, <1>3, <1>5, <1>6, <2>4
      <4> HIDE DEF x, y, size
      <4>2. /\ y + Group = (x + Group) + 1 /\ x + Group \in Nat /\ 0 < x + Group
            /\ x + Group <= size
        BY <4>1
      <4> QED
        BY <4>1, <4>2 DEF size
    <3>2. \A i \in Base' - Group .. Base' - 1 : Taken(i)'
      BY <1>2, <1>5, <1>7, <2>2
    <3>3. NoFitBelow(Base)'
      BY <1>9, <2>1
    <3> QED
      BY <1>2, <2>1, <3>1, <3>2, <3>3 DEF InGroups
  <2> QED
    BY <1>8, <2>3, <2>4
<1>11. CallInv'
  BY <1>1, SameView DEF CallInv, Open, SkipGroup, Idle, InPhase
<1>12. call'.phase = "groups"
  BY DEF SkipGroup, InPhase
<1> QED
  BY <1>4, <1>10, <1>11, <1>12 DEF SearchInv, InPhase

LEMMA EnterGroupStep ==
  ASSUME Typed, SearchInv, EnterGroup
  PROVE  Typed' /\ SearchInv'
<1>1. CallInv /\ ~Idle /\ Open /\ InGroups /\ Searching
  BY DEF SearchInv, EnterGroup, Open, InPhase, Idle
<1>2. /\ CallInv' /\ call'.phase = "probe" /\ Searchable(At)
      /\ call'.arena = call.arena /\ call'.bytes = call.bytes
      /\ call' \in [phase: Phase, node: Node \union {None}, arena: Arena \union {None},
                    again: Arena \union {None}, bytes: Nat]
  <2>1. "probe" \in Phase \ {"idle", "refused"} /\ call' = [call EXCEPT !.phase = "probe"]
    BY DEF Phase, EnterGroup, Goto
  <2> QED
    BY <1>1, <2>1, PhaseStep
<1>3. /\ scan.cursor \in Nat /\ scan.group \in Nat /\ Base \in Nat /\ Group \in Nat \ {0, 1}
      /\ Capacity[At] \in Nat /\ Rounded[At] \in Nat /\ Rounded[At] <= Capacity[At]
      /\ Needed \in Nat \ {0}
      /\ Base < Rounded[At] => Base + Group <= Rounded[At]
  BY <1>1, <1>2, SearchContext
<1>4. PICK i \in GroupCells(scan.group) :
        /\ FirstFree(scan.group * Group, i)
        /\ scan' = [scan EXCEPT !.start = i, !.seen = 0]
  BY DEF EnterGroup
<1>5. i \in Base .. Base + Group - 1 /\ \A j \in Base .. i - 1 : Taken(j)
  BY <1>4 DEF GroupCells, FirstBlocks, FirstFree, Base
<1>6. i \in Nat /\ i <= Capacity[At]
  <2>1. scan.cursor < Rounded[At] /\ Base <= scan.cursor
    BY <1>1 DEF EnterGroup, InGroups
  <2> QED
    BY <1>3, <1>5, <2>1
<1>7. /\ scan'.start = i /\ scan'.seen = 0
      /\ scan' \in [cursor: Nat, group: Nat, start: Nat, seen: Nat]
  <2>1. scan \in [cursor: Nat, group: Nat, start: Nat, seen: Nat]
    BY DEF Typed
  <2> QED
    BY <1>4, <1>6, <2>1
<1>8. Typed'
  BY <1>1, <1>2, <1>7 DEF Typed, Searching
<1>9. NoFitBelow(i)
  <2> SUFFICES ASSUME NEW s \in Nat, s < i, Fits(s) PROVE FALSE
    BY DEF NoFitBelow
  <2>1. ~Taken(s)
    BY <1>3, FitStartsFree
  <2>2. NoFitBelow(Base)
    BY <1>1, <1>3 DEF InGroups, NoFitBelow
  <2>3. s >= Base
    BY <1>3, <2>2 DEF NoFitBelow
  <2> QED
    BY <1>3, <1>5, <1>6, <2>1, <2>3
<1>10. At' = At /\ \A s : (Fits(s))' <=> Fits(s)
  BY <1>1, <1>2, SameView
<1>11. NoFitBelow(scan.start)' /\ scan'.start <= Capacity[At]' /\ scan'.seen < Group
  BY <1>3, <1>6, <1>7, <1>9, <1>10 DEF NoFitBelow
<1> QED
  BY <1>2, <1>8, <1>11 DEF SearchInv, InPhase

\* Where a run breaks, no fit begins before the cell behind the break.
LEMMA NoFitAcrossBreak ==
  ASSUME Needed \in Nat \ {0}, scan.start \in Nat, NEW i \in Nat, BreaksAt(i),
         NEW s \in Nat, scan.start <= s, s <= i
  PROVE  ~Fits(s)
<1>1. i < scan.start + Needed /\ Taken(i)
  BY DEF BreaksAt, FirstBlocks
<1>2. i \in FirstBlocks(s, Needed)
  BY <1>1 DEF FirstBlocks
<1> QED
  BY <1>1, <1>2 DEF Fits

LEMMA ProbeBreaksStep ==
  ASSUME Typed, SearchInv, ProbeBreaks
  PROVE  Typed' /\ SearchInv'
<1>1. /\ CallInv /\ ~Idle /\ Open /\ Searching /\ Searchable(At)
      /\ scan.start <= Capacity[At] /\ scan.seen < Group /\ NoFitBelow(scan.start)
  BY DEF SearchInv, ProbeBreaks, Open, InPhase, Idle, CallInv
<1>2. /\ Group \in Nat \ {0, 1} /\ Capacity[At] \in Nat /\ Needed \in Nat \ {0}
      /\ Cells[At] = 0 .. Capacity[At] - 1
      /\ scan.start \in Nat /\ scan.seen \in Nat
  BY <1>1, SearchContext
<1>3. PICK i \in Cells[At] :
        /\ BreaksAt(i)
        /\ IF Seen(i) >= Group
           THEN /\ scan' = [scan EXCEPT !.cursor = Behind(i), !.group = Behind(i) \div Group]
                /\ Goto("groups")
           ELSE /\ scan' = [scan EXCEPT !.start = Behind(i), !.seen = Seen(i)]
                /\ UNCHANGED call
  BY DEF ProbeBreaks
<1>4. /\ i \in Nat /\ i + 1 \in Nat /\ i < Capacity[At] /\ scan.start <= i /\ Behind(i) = i + 1
      /\ \A j \in scan.start .. i - 1 : ~Taken(j)
      /\ Seen(i) \in Nat /\ Seen(i) = scan.seen + (i - scan.start)
  <2>1. i \in Nat /\ i + 1 \in Nat /\ i < Capacity[At]
    BY <1>2
  <2>2. i \in FirstBlocks(scan.start, Needed) /\ \A j \in scan.start .. i - 1 : ~Taken(j)
    BY <1>3 DEF BreaksAt
  <2>3. scan.start <= i
    BY <1>2, <2>1, <2>2 DEF FirstBlocks
  <2>4. i - scan.start \in Nat
    BY <1>2, <2>1, <2>3
  <2>5. Seen(i) \in Nat /\ Seen(i) = scan.seen + (i - scan.start)
    BY <1>2, <2>4 DEF Seen
  <2>6. Behind(i) = i + 1
    BY DEF Behind
  <2> QED
    BY <2>1, <2>2, <2>3, <2>5, <2>6
<1>5. NoFitBelow(i + 1)
  <2> SUFFICES ASSUME NEW s \in Nat, s < i + 1 PROVE ~Fits(s)
    BY DEF NoFitBelow
  <2>1. CASE s < scan.start
    BY <1>1, <2>1 DEF NoFitBelow
  <2>2. CASE scan.start <= s
    BY <1>2, <1>3, <1>4, <2>2, NoFitAcrossBreak
  <2> QED
    BY <1>2, <2>1, <2>2
<1>6. scan \in [cursor: Nat, group: Nat, start: Nat, seen: Nat]
  BY DEF Typed
<1>7. CASE Seen(i) >= Group
  <2>1. /\ CallInv' /\ call'.phase = "groups"
        /\ call'.arena = call.arena /\ call'.bytes = call.bytes
        /\ call' \in [phase: Phase, node: Node \union {None}, arena: Arena \union {None},
                      again: Arena \union {None}, bytes: Nat]
    <3>1. "groups" \in Phase \ {"idle", "refused"} /\ call' = [call EXCEPT !.phase = "groups"]
      BY <1>3, <1>7 DEF Phase, Goto
    <3> QED
      BY <1>1, <3>1, PhaseStep
  <2> DEFINE c == i + 1
             g == c \div Group
  <2>2. c \in Nat /\ Group \in Nat \ {0} /\ c \in Int /\ c >= 0
    BY <1>2, <1>4
  <2>3. g \in Nat /\ g * Group <= c /\ c < g * Group + Group
    <3> HIDE DEF c
    <3> QED
      BY <2>2, Quotient
  <2>4. scan' = [scan EXCEPT !.cursor = c, !.group = g]
    BY <1>3, <1>4, <1>7
  <2> HIDE DEF g
  <2>5. /\ scan'.cursor = c /\ scan'.group = g
        /\ scan' \in [cursor: Nat, group: Nat, start: Nat, seen: Nat]
    BY <1>6, <2>2, <2>3, <2>4
  <2>6. Typed'
    BY <1>1, <2>1, <2>5 DEF Typed, Searching
  <2>7. At' = At /\ (\A s : (Fits(s))' <=> Fits(s)) /\ (\A j : Taken(j)' <=> Taken(j))
    BY <1>1, <2>1, SameView
  <2>8. NoFitBelow(scan.cursor)'
    BY <1>5, <2>5, <2>7 DEF NoFitBelow
  <2>9. scan.start <= i - 1 /\ ~Taken(i - 1) /\ i - 1 \in Cells[At]
    BY <1>1, <1>2, <1>4, <1>7
  <2>10. scan'.cursor - 2 \in Cells[At'] /\ ~Taken(scan.cursor - 2)'
    <3>1. scan'.cursor - 2 = i - 1
      BY <1>4, <2>5
    <3> QED
      BY <2>7, <2>9, <3>1 DEF Taken
  <2>11. Base' = g * Group
    BY <2>5 DEF Base
  <2>12. InGroups'
    BY <2>3, <2>5, <2>8, <2>10, <2>11 DEF InGroups
  <2> QED
    BY <2>1, <2>6, <2>12 DEF SearchInv, InPhase
<1>8. CASE ~(Seen(i) >= Group)
  <2>1. scan' = [scan EXCEPT !.start = i + 1, !.seen = Seen(i)] /\ UNCHANGED call
    BY <1>3, <1>4, <1>8
  <2>2. /\ scan'.start = i + 1 /\ scan'.seen = Seen(i)
        /\ scan' \in [cursor: Nat, group: Nat, start: Nat, seen: Nat]
    BY <1>4, <1>6, <2>1
  <2>3. Typed'
    BY <1>1, <2>1, <2>2 DEF Typed, Searching
  <2>4. /\ At' = At /\ (\A s : (Fits(s))' <=> Fits(s)) /\ (\A n : (Vacant(n))' <=> Vacant(n))
        /\ Releasing' = Releasing
        /\ (Searchable(At)' <=> Searchable(At))
    BY <1>1, <2>1, SameView
  <2>5. NoFitBelow(scan.start)'
    BY <1>5, <2>2, <2>4 DEF NoFitBelow
  <2>6. scan'.start <= Capacity[At'] /\ scan'.seen < Group
    BY <1>2, <1>4, <1>8, <2>2, <2>4
  <2>7. CallInv'
    BY <1>1, <2>1, <2>4 DEF CallInv, Open, Idle, InPhase
  <2>8. call'.phase = "probe"
    BY <2>1 DEF ProbeBreaks, InPhase
  <2> QED
    BY <2>3, <2>5, <2>6, <2>7, <2>8 DEF SearchInv, InPhase
<1> QED
  BY <1>7, <1>8

LEMMA TailEndsStep ==
  ASSUME Typed, SearchInv, TailEnds
  PROVE  Typed' /\ SearchInv'
<1>1. /\ CallInv /\ ~Idle /\ Open /\ Searching
      /\ OnlyOverlookedBelow(scan.cursor)
  BY DEF SearchInv, TailEnds, Open, InPhase, Idle
<1>2. /\ CallInv' /\ call'.phase = "failed" /\ Searchable(At)
      /\ call'.arena = call.arena /\ call'.bytes = call.bytes
      /\ call' \in [phase: Phase, node: Node \union {None}, arena: Arena \union {None},
                    again: Arena \union {None}, bytes: Nat]
  <2>1. "failed" \in Phase \ {"idle", "refused"} /\ call' = [call EXCEPT !.phase = "failed"]
    BY DEF Phase, TailEnds, Goto
  <2> QED
    BY <1>1, <2>1, PhaseStep
<1>3. Typed'
  BY <1>1, <1>2 DEF Typed, Searching, TailEnds
<1>4. OnlyOverlookedBelow(Capacity[At])
  <2> SUFFICES ASSUME NEW s \in Nat, s < Capacity[At], Fits(s) PROVE Overlooked(s)
    BY DEF OnlyOverlookedBelow
  <2>1. ~Taken(s) /\ s \in Cells[At] /\ scan.cursor \in Nat
    BY <1>1, <1>2, SearchContext, FitStartsFree
  <2>2. s < scan.cursor
    BY <2>1 DEF TailEnds
  <2> QED
    BY <1>1, <2>2 DEF OnlyOverlookedBelow
<1>5. OnlyOverlookedBelow(Capacity[At])'
  BY <1>1, <1>2, <1>4, SameView DEF OnlyOverlookedBelow
<1> QED
  BY <1>2, <1>3, <1>5 DEF SearchInv, InPhase

LEMMA TailEntersStep ==
  ASSUME Typed, SearchInv, TailEnters
  PROVE  Typed' /\ SearchInv'
<1>1. /\ CallInv /\ ~Idle /\ Open /\ Searching
      /\ OnlyOverlookedBelow(scan.cursor)
  BY DEF SearchInv, TailEnters, Open, InPhase, Idle
<1>2. /\ CallInv' /\ call'.phase = "tailprobe" /\ Searchable(At)
      /\ call'.arena = call.arena /\ call'.bytes = call.bytes
      /\ call' \in [phase: Phase, node: Node \union {None}, arena: Arena \union {None},
                    again: Arena \union {None}, bytes: Nat]
  <2>1. "tailprobe" \in Phase \ {"idle", "refused"} /\ call' = [call EXCEPT !.phase = "tailprobe"]
    BY DEF Phase, TailEnters, Goto
  <2> QED
    BY <1>1, <2>1, PhaseStep
<1>3. /\ Capacity[At] \in Nat /\ Needed \in Nat \ {0} /\ scan.cursor \in Nat
      /\ Cells[At] = 0 .. Capacity[At] - 1
  BY <1>1, <1>2, SearchContext
<1>4. PICK i \in Cells[At] :
        FirstFree(scan.cursor, i) /\ scan' = [scan EXCEPT !.start = i]
  BY DEF TailEnters
<1>5. /\ i \in Nat /\ i <= Capacity[At] /\ scan.cursor <= i
      /\ \A j \in scan.cursor .. i - 1 : Taken(j)
  BY <1>3, <1>4 DEF FirstFree
<1>6. /\ scan'.start = i
      /\ scan' \in [cursor: Nat, group: Nat, start: Nat, seen: Nat]
  <2>1. scan \in [cursor: Nat, group: Nat, start: Nat, seen: Nat]
    BY DEF Typed
  <2> QED
    BY <1>4, <1>5, <2>1
<1>7. Typed'
  BY <1>1, <1>2, <1>6 DEF Typed, Searching
<1>8. OnlyOverlookedBelow(i)
  <2> SUFFICES ASSUME NEW s \in Nat, s < i, Fits(s) PROVE Overlooked(s)
    BY DEF OnlyOverlookedBelow
  <2>1. ~Taken(s)
    BY <1>3, FitStartsFree
  <2>2. s < scan.cursor
    BY <1>3, <1>5, <2>1
  <2> QED
    BY <1>1, <2>2 DEF OnlyOverlookedBelow
<1>9. /\ At' = At /\ (\A s : (Fits(s))' <=> Fits(s))
      /\ (\A s : (Overlooked(s))' <=> Overlooked(s))
  BY <1>1, <1>2, SameView
<1>10. OnlyOverlookedBelow(scan.start)' /\ scan'.start <= Capacity[At']
  BY <1>5, <1>6, <1>8, <1>9 DEF OnlyOverlookedBelow
<1> QED
  BY <1>2, <1>7, <1>10 DEF SearchInv, InPhase

LEMMA TailBreaksStep ==
  ASSUME Typed, SearchInv, TailBreaks
  PROVE  Typed' /\ SearchInv'
<1>1. /\ CallInv /\ ~Idle /\ Open /\ Searching
      /\ scan.start <= Capacity[At] /\ OnlyOverlookedBelow(scan.start)
  BY DEF SearchInv, TailBreaks, Open, InPhase, Idle
<1>2. /\ CallInv' /\ call'.phase = "tail" /\ Searchable(At)
      /\ call'.arena = call.arena /\ call'.bytes = call.bytes
      /\ call' \in [phase: Phase, node: Node \union {None}, arena: Arena \union {None},
                    again: Arena \union {None}, bytes: Nat]
  <2>1. "tail" \in Phase \ {"idle", "refused"} /\ call' = [call EXCEPT !.phase = "tail"]
    BY DEF Phase, TailBreaks, Goto
  <2> QED
    BY <1>1, <2>1, PhaseStep
<1>3. /\ Capacity[At] \in Nat /\ Needed \in Nat \ {0} /\ scan.start \in Nat
      /\ Cells[At] = 0 .. Capacity[At] - 1
  BY <1>1, <1>2, SearchContext
<1>4. PICK i \in Cells[At] : BreaksAt(i) /\ scan' = [scan EXCEPT !.cursor = Behind(i)]
  BY DEF TailBreaks
<1>5. i \in Nat /\ Behind(i) = i + 1 /\ i + 1 \in Nat
  BY <1>3, <1>4 DEF Behind
<1>6. /\ scan'.cursor = i + 1
      /\ scan' \in [cursor: Nat, group: Nat, start: Nat, seen: Nat]
  <2>1. scan \in [cursor: Nat, group: Nat, start: Nat, seen: Nat]
    BY DEF Typed
  <2> QED
    BY <1>4, <1>5, <2>1
<1>7. Typed'
  BY <1>1, <1>2, <1>6 DEF Typed, Searching
<1>8. OnlyOverlookedBelow(i + 1)
  <2> SUFFICES ASSUME NEW s \in Nat, s < i + 1, Fits(s) PROVE Overlooked(s)
    BY DEF OnlyOverlookedBelow
  <2>1. s < scan.start
    BY <1>3, <1>4, <1>5, NoFitAcrossBreak
  <2> QED
    BY <1>1, <2>1 DEF OnlyOverlookedBelow
<1>9. /\ (\A s : (Fits(s))' <=> Fits(s))
      /\ (\A s : (Overlooked(s))' <=> Overlooked(s))
  BY <1>1, <1>2, SameView
<1>10. OnlyOverlookedBelow(scan.cursor)'
  BY <1>6, <1>8, <1>9 DEF OnlyOverlookedBelow
<1> QED
  BY <1>2, <1>7, <1>10 DEF SearchInv, InPhase

LEMMA FoundStep ==
  ASSUME Typed, SearchInv, Found
  PROVE  Typed' /\ SearchInv'
<1>1. /\ CallInv /\ ~Idle /\ Open /\ Searching
      /\ OnlyOverlookedBelow(scan.start) /\ Fits(scan.start)
  BY DEF SearchInv, Found, Probing, Open, InPhase, Idle, OnlyOverlookedBelow, NoFitBelow
<1>2. /\ CallInv' /\ call'.phase = "found" /\ Searchable(At)
      /\ call'.arena = call.arena /\ call'.bytes = call.bytes
      /\ call' \in [phase: Phase, node: Node \union {None}, arena: Arena \union {None},
                    again: Arena \union {None}, bytes: Nat]
  <2>1. "found" \in Phase \ {"idle", "refused"} /\ call' = [call EXCEPT !.phase = "found"]
    BY DEF Phase, Found, Goto
  <2> QED
    BY <1>1, <2>1, PhaseStep
<1>3. Typed' /\ scan' = scan
  BY <1>1, <1>2 DEF Typed, Searching, Found
<1>4. /\ (\A s : (Fits(s))' <=> Fits(s))
      /\ (\A s : (Overlooked(s))' <=> Overlooked(s))
  BY <1>1, <1>2, SameView
<1>5. OnlyOverlookedBelow(scan.start)' /\ Fits(scan.start)'
  <2>1. OnlyOverlookedBelow(scan.start)'
    BY <1>1, <1>3, <1>4 DEF OnlyOverlookedBelow
  <2>2. Fits(scan.start)'
    BY <1>1, <1>2, <1>3, SameView DEF Fits
  <2> QED
    BY <2>1, <2>2
<1> QED
  BY <1>2, <1>3, <1>5 DEF SearchInv, InPhase

LEMMA RunsOutStep ==
  ASSUME Typed, SearchInv, RunsOut
  PROVE  Typed' /\ SearchInv'
<1>1. /\ CallInv /\ ~Idle /\ Open /\ Searching
      /\ OnlyOverlookedBelow(scan.start) /\ scan.start <= Capacity[At]
  BY DEF SearchInv, RunsOut, Probing, Open, InPhase, Idle, OnlyOverlookedBelow, NoFitBelow
<1>2. /\ CallInv' /\ call'.phase = "failed" /\ Searchable(At)
      /\ call'.arena = call.arena /\ call'.bytes = call.bytes
      /\ call' \in [phase: Phase, node: Node \union {None}, arena: Arena \union {None},
                    again: Arena \union {None}, bytes: Nat]
  <2>1. "failed" \in Phase \ {"idle", "refused"} /\ call' = [call EXCEPT !.phase = "failed"]
    BY DEF Phase, RunsOut, Goto
  <2> QED
    BY <1>1, <2>1, PhaseStep
<1>3. /\ Capacity[At] \in Nat /\ Needed \in Nat \ {0} /\ scan.start \in Nat
      /\ Cells[At] = 0 .. Capacity[At] - 1
  BY <1>1, <1>2, SearchContext
<1>4. Typed'
  BY <1>1, <1>2 DEF Typed, Searching, RunsOut
\* All cells from the start on are free, yet the run does not fit: the map ends.
<1>5. Capacity[At] < scan.start + Needed
  <2> SUFFICES ASSUME scan.start + Needed <= Capacity[At] PROVE FALSE
    BY <1>3
  <2>1. PICK i \in FirstBlocks(scan.start, Needed) : Taken(i)
    BY DEF RunsOut, Fits
  <2>2. i \in Cells[At] /\ i >= scan.start
    BY <1>3, <2>1 DEF FirstBlocks
  <2> QED
    BY <2>1, <2>2 DEF RunsOut
<1>6. OnlyOverlookedBelow(Capacity[At])
  <2> SUFFICES ASSUME NEW s \in Nat, s < Capacity[At], Fits(s) PROVE Overlooked(s)
    BY DEF OnlyOverlookedBelow
  <2>1. s + Needed <= Capacity[At]
    BY DEF Fits
  <2>2. s < scan.start
    BY <1>3, <1>5, <2>1
  <2> QED
    BY <1>1, <2>2 DEF OnlyOverlookedBelow
<1>7. OnlyOverlookedBelow(Capacity[At])'
  BY <1>1, <1>2, <1>6, SameView DEF OnlyOverlookedBelow
<1> QED
  BY <1>2, <1>4, <1>7 DEF SearchInv, InPhase

LEMMA SearchStep ==
  ASSUME Typed, SearchInv, Search
  PROVE  Typed' /\ SearchInv'
BY GroupsEndStep, SkipGroupStep, EnterGroupStep, ProbeBreaksStep, TailEndsStep,
   TailEntersStep, TailBreaksStep, FoundStep, RunsOutStep DEF Search

\* Between two calls there is no search to speak of.
LEMMA IdleSearch ==
  ASSUME Idle', call'.node = None
  PROVE  SearchInv'
BY DEF SearchInv, CallInv, Open, Idle, InPhase

-----------------------------------------------------------------------------
(* The call around the search                                               *)

\* The step concerns the allocation for node m only, which holds nothing
\* before and after it.
CallsFor(m) ==
  /\ m \in Node \ Releasing
  /\ UNCHANGED <<cell, live, releasing>>
  /\ \A n \in Node \ {m} : node'[n] = node[n]
  /\ call.node = m \/ (call.node = None /\ Vacant(m))
  /\ call'.node = m \/ (call'.node = None /\ node'[m].arena = None)

\* An attempt starts with the first group, or is refused already.
LEMMA AttemptStep ==
  ASSUME Typed, NEW n \in Node \ Releasing, Vacant(n), NEW bytes \in Nat \ {0}, NEW a \in Arena,
         NEW again \in Arena \union {None}, Attempt(n, bytes, a, again)
  PROVE  /\ Typed' /\ SearchInv' /\ call'.node = n
         /\ \A k \in Node \ {n} : node'[k] = node[k]
<1>1. PICK phase \in {"groups", "failed", "refused"} :
        /\ call' = [phase |-> phase, node |-> n, arena |-> a, again |-> again, bytes |-> bytes]
        /\ phase = "groups" => Searchable(a)
        /\ phase = "failed" => ~Searchable(a)
        /\ phase = "refused" => node' = node
        /\ node' = node \/ node' = [node EXCEPT ![n].arena = a]
  BY DEF Attempt
<1>2. /\ scan' = [cursor |-> 0, group |-> 0, start |-> 0, seen |-> 0]
      /\ cell' = cell /\ live' = live /\ releasing' = releasing
  BY DEF Attempt, NoScan
<1>3. node \in [Node -> [arena: Arena \union {None}, data: Nat,
                         first: Nat \union {-1}, blocks: Nat]]
  BY DEF Typed
<1>4. /\ node' \in [Node -> [arena: Arena \union {None}, data: Nat,
                             first: Nat \union {-1}, blocks: Nat]]
      /\ \A k \in Node \ {n} : node'[k] = node[k]
  BY <1>1, <1>3
<1>5. Typed'
  BY <1>1, <1>2, <1>4 DEF Typed, Phase
<1>6. At' = a /\ Releasing' = Releasing
  BY <1>1, <1>2 DEF At, Releasing
<1>7. call'.phase = "refused" => Vacant(n)'
  BY <1>1 DEF Vacant
<1>8. CallInv'
  BY <1>1, <1>6, <1>7 DEF CallInv, Open, InPhase, Idle, Vacant
<1>9. InGroups'
  <2>1. Base' = 0
    BY <1>2, GroupAssumption DEF Base
  <2>2. NoFitBelow(scan.cursor)'
    BY <1>2 DEF NoFitBelow
  <2> QED
    BY <1>2, <2>1, <2>2, GroupAssumption DEF InGroups
<1>10. (InPhase("failed"))' => ~Searchable(At)'
  BY <1>1, <1>6 DEF InPhase
<1> QED
  BY <1>1, <1>4, <1>5, <1>8, <1>9, <1>10 DEF SearchInv, InPhase

LEMMA AllocateRoutedStep ==
  ASSUME Typed, SearchInv, BlockInv, NEW n \in Node, NEW r \in Demand[n], AllocateRouted(n, r)
  PROVE  Typed' /\ SearchInv' /\ CallsFor(n)
<1>1. r \in Request /\ r.bytes \in Nat \ {0}
  <2>1. r \in Request
    BY DemandAssumption
  <2> QED
    BY <2>1, ArenaAssumption DEF Request, AllocateRouted
<1>2. {0, 1, 2} \subseteq Arena
  BY ArenaAssumption
<1>3. Routed(r) \in Arena
  BY <1>1, <1>2 DEF Request, Routed
<1>4. Other(Routed(r)) \in Arena
  BY <1>2, <1>3 DEF Other
<1> DEFINE again == IF FallsBack(r) THEN Other(Routed(r)) ELSE None
<1>5. again \in Arena \union {None}
  BY <1>4
<1>6. Vacant(n) /\ Attempt(n, r.bytes, Routed(r), again)
  BY DEF AllocateRouted
<1> HIDE DEF again
<1>7. n \in Node \ Releasing /\ call.node = None
  BY <1>6 DEF BlockInv, SearchInv, CallInv, AllocateRouted
<1>8. /\ Typed' /\ SearchInv' /\ call'.node = n
      /\ \A k \in Node \ {n} : node'[k] = node[k]
  BY <1>1, <1>3, <1>5, <1>6, <1>7, AttemptStep
<1>9. UNCHANGED <<cell, live, releasing>>
  BY <1>6 DEF Attempt
<1> QED
  BY <1>6, <1>7, <1>8, <1>9 DEF CallsFor

LEMMA RefuseStep ==
  ASSUME Typed, SearchInv, Refuse
  PROVE  Typed' /\ SearchInv' /\ CallsFor(call.node)
<1> DEFINE m == call.node
<1>1. /\ m \in Node \ Releasing /\ call.arena \in Arena /\ call.bytes \in Nat \ {0}
  BY DEF Refuse, InPhase, Idle, SearchInv, CallInv
<1>2. /\ node \in [Node -> [arena: Arena \union {None}, data: Nat,
                            first: Nat \union {-1}, blocks: Nat]]
      /\ call \in [phase: Phase, node: Node \union {None}, arena: Arena \union {None},
                   again: Arena \union {None}, bytes: Nat]
  BY DEF Typed
<1>3. /\ node' = [node EXCEPT ![m].arena = None, ![m].first = -1]
      /\ call' = [call EXCEPT !.phase = "refused"]
      /\ UNCHANGED <<cell, live, releasing, scan>>
  BY DEF Refuse, Withdrawn, Goto
<1>4. /\ call'.phase = "refused" /\ call'.node = m /\ call'.arena = call.arena
      /\ call'.bytes = call.bytes
      /\ call' \in [phase: Phase, node: Node \union {None}, arena: Arena \union {None},
                    again: Arena \union {None}, bytes: Nat]
  BY <1>2, <1>3 DEF Phase
<1> HIDE DEF m
<1>5. /\ node' \in [Node -> [arena: Arena \union {None}, data: Nat,
                             first: Nat \union {-1}, blocks: Nat]]
      /\ node'[m].arena = None
      /\ \A k \in Node \ {m} : node'[k] = node[k]
  BY <1>1, <1>2, <1>3
<1>6. Typed'
  BY <1>3, <1>4, <1>5 DEF Typed
<1>7. Releasing' = Releasing
  BY <1>3 DEF Releasing
<1>8. SearchInv'
  BY <1>1, <1>4, <1>5, <1>7 DEF SearchInv, CallInv, Open, InPhase, Idle, Vacant
<1> QED
  BY <1>1, <1>3, <1>4, <1>5, <1>6, <1>8 DEF CallsFor, m

LEMMA TryOtherStep ==
  ASSUME Typed, SearchInv, TryOther
  PROVE  Typed' /\ SearchInv' /\ CallsFor(call.node)
<1>1. call.node \in Node \ Releasing /\ Vacant(call.node) /\ call.bytes \in Nat \ {0}
  BY DEF TryOther, InPhase, Idle, SearchInv, CallInv
<1>2. call.again \in Arena /\ None \in Arena \union {None}
  BY DEF Typed, TryOther
<1>3. Attempt(call.node, call.bytes, call.again, None)
  BY DEF TryOther
<1>4. /\ Typed' /\ SearchInv' /\ call'.node = call.node
      /\ \A k \in Node \ {call.node} : node'[k] = node[k]
  BY <1>1, <1>2, <1>3, AttemptStep
<1>5. UNCHANGED <<cell, live, releasing>>
  BY <1>3 DEF Attempt
<1> QED
  BY <1>1, <1>4, <1>5 DEF CallsFor

LEMMA GiveUpStep ==
  ASSUME Typed, SearchInv, GiveUp
  PROVE  Typed' /\ SearchInv' /\ CallsFor(call.node)
<1>1. call.node \in Node \ Releasing /\ Vacant(call.node)
  BY DEF GiveUp, InPhase, Idle, SearchInv, CallInv
<1>2. call' = NoCall /\ scan' = NoScan /\ Searching
  BY DEF GiveUp
<1>3. Typed'
  BY <1>2 DEF Typed, NoCall, NoScan, Searching, Phase
<1>4. Idle' /\ call'.node = None
  BY <1>2 DEF Idle, NoCall
<1>5. Vacant(call.node) <=> node'[call.node].arena = None
  BY <1>2 DEF Vacant, Searching
<1>6. CallsFor(call.node)
  BY <1>1, <1>2, <1>4, <1>5 DEF CallsFor, Searching, Vacant
<1> QED
  BY <1>3, <1>4, <1>6, IdleSearch

\* A step of the search is a step of the call's node, which stays as it is.
LEMMA SearchCallsFor ==
  ASSUME Typed, SearchInv, Search
  PROVE  CallsFor(call.node)
<1>1. Searching /\ ~Idle /\ call'.node = call.node
  BY DEF Search, GroupsEnd, SkipGroup, EnterGroup, ProbeBreaks, TailEnds, TailEnters,
         TailBreaks, Found, RunsOut, Probing, InPhase, Idle, Goto, Typed
<1> QED
  BY <1>1 DEF SearchInv, CallInv, CallsFor, Searching

-----------------------------------------------------------------------------
(* The blocks                                                               *)

\* An allocation in progress leaves the holders what they have.
LEMMA BlocksKept ==
  ASSUME Typed, BlockInv, NEW m \in Node, CallsFor(m)
  PROVE  /\ BlockInv'
         /\ \A a \in Arena : /\ Holders(a)' = Holders(a)
                            /\ \A n \in Holders(a) : Freed(n)' = Freed(n)
<1>1. /\ m \in Node \ Releasing
      /\ cell' = cell /\ live' = live /\ releasing' = releasing /\ Releasing' = Releasing
      /\ \A n \in Node \ {m} : node'[n] = node[n]
      /\ call.node = m \/ (call.node = None /\ Vacant(m))
      /\ call'.node = m \/ (call'.node = None /\ Vacant(m)')
  BY DEF CallsFor, Releasing, Vacant
<1>2. \A n \in Node : n # m =>
        Freed(n)' = Freed(n) /\ (Named(n)' <=> Named(n)) /\ (Vacant(n)' <=> Vacant(n))
  BY <1>1 DEF Vacant, Named, Freed
<1>3. \A a \in Arena : m \notin Holders(a) /\ m \notin Holders(a)'
  BY <1>1, ArenaAssumption DEF Holders, Settled, Vacant
<1>4. \A a \in Arena : Holders(a)' = Holders(a)
  <2> SUFFICES ASSUME NEW a \in Arena, NEW n \in Node \ {m}
               PROVE  n \in Holders(a)' <=> n \in Holders(a)
    BY <1>3 DEF Holders, Settled
  <2>1. n # call.node /\ n # call'.node
    BY <1>1, NodeAssumption
  <2> QED
    BY <1>1, <2>1 DEF Holders, Settled
<1>5. \A a \in Arena : \A n \in Holders(a) : n \in Node /\ n # m /\ node'[n] = node[n]
  BY <1>1, <1>3 DEF Holders, Settled
<1>6. OccupancyIsOwned'
  <2>1. cell' = cell /\ live' = live
    BY <1>1
  <2> QED
    BY <1>2, <1>4, <1>5, <2>1 DEF BlockInv, OccupancyIsOwned
<1>7. \A n \in Node : n # call'.node /\ ~Vacant(n)' => Named(n)'
  <2>1. \A n \in Node : n # call'.node /\ ~Vacant(n)' => n # m /\ n # call.node
    BY <1>1, NodeAssumption DEF Vacant
  <2> QED
    BY <1>2, <2>1 DEF BlockInv
<1>8. \A n \in Releasing' : ~Vacant(n)'
  <2> SUFFICES ASSUME NEW n \in Releasing PROVE ~Vacant(n)'
    BY <1>1
  <2>1. n \in Node \ {m}
    BY <1>1 DEF Typed, Releasing
  <2> QED
    BY <1>1, <2>1 DEF BlockInv, Vacant
<1> QED
  <2>1. \A j, k \in DOMAIN releasing' : releasing'[j] = releasing'[k] => j = k
    BY <1>1 DEF BlockInv
  <2>2. BlockInv'
    BY <1>6, <1>7, <1>8, <2>1 DEF BlockInv
  <2> QED
    BY <1>2, <1>4, <1>5, <2>2

\* So does the allocation in progress when the node it is for is known.
LEMMA CallKeepsBlocks ==
  ASSUME Typed, BlockInv, CallsFor(call.node)
  PROVE  /\ BlockInv'
         /\ \A a \in Arena : /\ Holders(a)' = Holders(a)
                            /\ \A n \in Holders(a) : Freed(n)' = Freed(n)
<1>1. PICK m : m = call.node
  OBVIOUS
<1>2. m \in Node /\ CallsFor(m)
  BY <1>1 DEF CallsFor
<1> QED
  BY <1>2, BlocksKept

\* Writing a run of one arena's map.
LEMMA FilledRun ==
  ASSUME Typed, NEW a \in Arena, NEW run, NEW v \in {0, 1}, cell' = Filled(a, run, v)
  PROVE  /\ DOMAIN cell' = Arena
         /\ \A b \in Arena : cell'[b] \in [Cells[b] -> {0, 1}]
         /\ \A b \in Arena : \A i \in Cells[b] :
              cell'[b][i] = IF b = a /\ i \in run THEN v ELSE cell[b][i]
<1>1. DOMAIN cell = Arena /\ \A b \in Arena : cell[b] \in [Cells[b] -> {0, 1}]
  BY DEF Typed
<1>2. cell' = [cell EXCEPT ![a] = [i \in Cells[a] |-> IF i \in run THEN v ELSE cell[a][i]]]
  BY DEF Filled
<1>3. DOMAIN cell' = Arena
  BY <1>1, <1>2
<1>4. cell'[a] = [i \in Cells[a] |-> IF i \in run THEN v ELSE cell[a][i]]
  BY <1>1, <1>2
<1>5. \A b \in Arena : b # a => cell'[b] = cell[b]
  BY <1>1, <1>2
<1> QED
  BY <1>1, <1>3, <1>4, <1>5

LEMMA HoldersFinite ==
  ASSUME NEW a
  PROVE  IsFiniteSet(Holders(a)) /\ Cardinality(Holders(a)) \in Nat
<1>1. Holders(a) \subseteq Node
  BY DEF Holders, Settled
<1>2. IsFiniteSet(Holders(a))
  BY <1>1, NodeAssumption, FS_Subset
<1> QED
  BY <1>2, FS_CardinalityType

\* The step binds node m to a run of arena at.
BindsTo(m, at, first, count) ==
  LET run == FirstBlocks(first, count)
  IN  /\ m = call.node /\ at = At /\ first = scan.start /\ count = Needed
      /\ m \notin Releasing /\ Releasing' = Releasing
      /\ first + count <= Capacity[at]
      /\ run \subseteq Cells[at] /\ first \in run
      /\ \A i \in run : cell[at][i] = 0
      /\ node' = [node EXCEPT ![m] = [arena |-> at, first |-> first, blocks |-> count,
                                     data |-> Data[at] + BlockBytes[at] * first]]
      /\ Data[at] + BlockBytes[at] * first \in Nat
      /\ \A a \in Arena :
           /\ Holders(a)' = IF a = at THEN Holders(a) \union {m} ELSE Holders(a)
           /\ m \notin Holders(a)
      /\ Freed(m)' = run /\ \A n \in Node : n # m => Freed(n)' = Freed(n)

\* Whom a bound run belongs to.
LEMMA BindEffect ==
  ASSUME Typed, SearchInv, BlockInv, Bind
  PROVE  \E m \in Node, at \in Arena, first \in Nat, count \in Nat \ {0} :
           BindsTo(m, at, first, count)
<1>0. PICK m, at, first, count :
         m = call.node /\ at = At /\ first = scan.start /\ count = Needed
  OBVIOUS
<1> DEFINE run == FirstBlocks(first, count)
           place == Data[at] + BlockBytes[at] * first
<1>1. /\ m \in Node \ Releasing /\ at \in Arena /\ Searchable(at)
      /\ Capacity[at] \in Nat /\ count \in Nat \ {0} /\ first \in Nat
      /\ Fits(first) /\ Cells[at] = 0 .. Capacity[at] - 1
  <2>1. ~Idle /\ CallInv /\ InPhase("found") /\ Fits(first)
    BY <1>0 DEF Bind, InPhase, Idle, SearchInv
  <2>2. Searchable(At)
    BY <2>1 DEF CallInv, Open, InPhase
  <2> QED
    BY <1>0, <2>1, <2>2, SearchContext DEF CallInv
<1>2. /\ first + count <= Capacity[at]
      /\ run \subseteq Cells[at] /\ first \in run
      /\ \A i \in run : cell[at][i] = 0
  <2>1. first + count <= Capacity[at] /\ \A i \in run : cell[at][i] # 1
    BY <1>0, <1>1 DEF Fits, Taken
  <2>2. run \subseteq Cells[at] /\ first \in run
    BY <1>1, <2>1 DEF FirstBlocks
  <2>3. cell[at] \in [Cells[at] -> {0, 1}]
    BY <1>1 DEF Typed
  <2> QED
    BY <2>1, <2>2, <2>3
\* The offset of the run is below the word size: the product does not wrap.
<1>3. (BlockBytes[at] * first) % Word = BlockBytes[at] * first /\ place \in Nat
  <2> DEFINE u == BlockBytes[at]
             c == Capacity[at]
             x == u * first
  <2>1. u \in Nat /\ c \in Nat /\ first <= c /\ Data[at] \in Nat /\ c * u < Word /\ Word \in Nat \ {0}
    BY <1>1, <1>2, BlockSize, Geometry, ArenaAssumption
  <2>2. x \in Nat /\ x < Word
    <3> HIDE DEF u, c
    <3>1. first * u <= c * u
      BY <1>1, <2>1, Grows
    <3>2. first * u = u * first /\ u * first \in Nat
      BY <1>1, <2>1
    <3>3. c * u \in Nat
      BY <2>1
    <3> QED
      BY <2>1, <3>1, <3>2, <3>3
  <2>3. place = Data[at] + x
    OBVIOUS
  <2> HIDE DEF x
  <2>4. x % Word = x /\ Data[at] + x \in Nat
    BY <2>1, <2>2
  <2> QED
    BY <2>3, <2>4 DEF x
<1>4. node' = [node EXCEPT ![m] =
                 [arena |-> at, first |-> first, blocks |-> count, data |-> place]]
  BY <1>0, <1>3 DEF Bind
<1>5. releasing' = releasing
  BY DEF Bind
<1> HIDE DEF place
<1>6. /\ node'[m] = [arena |-> at, first |-> first, blocks |-> count, data |-> place]
      /\ \A n \in Node : n # m => node'[n] = node[n]
  BY <1>1, <1>4 DEF Typed
<1>7. m \notin Releasing /\ Releasing' = Releasing /\ call'.node = None
  BY <1>1, <1>5 DEF Bind, NoCall, Releasing
<1>8. \A a \in Arena : Holders(a)' = IF a = at THEN Holders(a) \union {m} ELSE Holders(a)
  <2> SUFFICES ASSUME NEW a \in Arena, NEW n \in Node
               PROVE  n \in Holders(a)' <=> n \in Holders(a) \/ (a = at /\ n = m)
    BY <1>1 DEF Holders, Settled
  <2>1. n # call'.node /\ (n # m => n # call.node)
    BY <1>0, <1>7, NodeAssumption
  <2>2. m \notin Settled
    BY <1>0 DEF Settled
  <2> QED
    BY <1>6, <1>7, <2>1, <2>2 DEF Holders, Settled
<1>9. \A a \in Arena : m \notin Holders(a)
  BY <1>0 DEF Holders, Settled
<1>10. Freed(m)' = run /\ \A n \in Node : n # m => Freed(n)' = Freed(n)
  BY <1>6 DEF Freed
<1> QED
  <2>1. BindsTo(m, at, first, count)
    BY <1>0, <1>1, <1>2, <1>3, <1>4, <1>7, <1>8, <1>9, <1>10 DEF BindsTo, place
  <2> QED
    BY <1>1, <2>1

LEMMA BindStep ==
  ASSUME Typed, SearchInv, BlockInv, Bind
  PROVE  Typed' /\ SearchInv' /\ BlockInv'
<1>0. PICK m \in Node, at \in Arena, first \in Nat, count \in Nat \ {0} :
           BindsTo(m, at, first, count)
  BY BindEffect
<1> DEFINE run == FirstBlocks(first, count)
           place == Data[at] + BlockBytes[at] * first
<1>1. /\ m = call.node /\ at = At /\ first = scan.start /\ count = Needed
      /\ m \notin Releasing /\ Releasing' = Releasing
      /\ first + count <= Capacity[at]
      /\ run \subseteq Cells[at] /\ first \in run
      /\ \A i \in run : cell[at][i] = 0
      /\ node' = [node EXCEPT ![m] = [arena |-> at, first |-> first, blocks |-> count, data |-> place]]
      /\ place \in Nat
  BY <1>0 DEF BindsTo
<1>2. /\ \A a \in Arena :
           /\ Holders(a)' = IF a = at THEN Holders(a) \union {m} ELSE Holders(a)
           /\ m \notin Holders(a)
      /\ Freed(m)' = run /\ \A n \in Node : n # m => Freed(n)' = Freed(n)
  BY <1>0 DEF BindsTo
<1>5. cell' = Filled(at, run, 1) /\ releasing' = releasing
  BY <1>1, <1>2 DEF Bind
<1>6. live' = [live EXCEPT ![at] = @ + 1]
  BY <1>1, <1>2 DEF Bind, Counted
<1>7. call' = NoCall /\ scan' = NoScan
  BY <1>1, <1>2 DEF Bind
<1> HIDE DEF place
<1>8. /\ DOMAIN cell' = Arena
      /\ \A b \in Arena : cell'[b] \in [Cells[b] -> {0, 1}]
      /\ \A b \in Arena : \A i \in Cells[b] :
           cell'[b][i] = IF b = at /\ i \in run THEN 1 ELSE cell[b][i]
  <2> HIDE DEF run
  <2> QED
    BY <1>1, <1>2, <1>5, FilledRun
<1>9. /\ node'[m] = [arena |-> at, first |-> first, blocks |-> count, data |-> place]
      /\ \A n \in Node : n # m => node'[n] = node[n]
  BY <1>1, <1>2 DEF Typed
<1>10. Typed'
  <2>1. node' \in [Node -> [arena: Arena \union {None}, data: Nat,
                            first: Nat \union {-1}, blocks: Nat]]
    <3>1. node \in [Node -> [arena: Arena \union {None}, data: Nat,
                            first: Nat \union {-1}, blocks: Nat]]
      BY DEF Typed
    <3>2. [arena |-> at, first |-> first, blocks |-> count, data |-> place]
            \in [arena: Arena \union {None}, data: Nat, first: Nat \union {-1}, blocks: Nat]
      BY <1>1, <1>2
    <3> QED
      BY <1>1, <1>2, <3>1, <3>2
  <2>2. live' \in [Arena -> Int]
    <3>1. live \in [Arena -> Int]
      BY DEF Typed
    <3>2. live[at] + 1 \in Int
      BY <1>1, <1>2, <3>1
    <3> QED
      BY <1>6, <3>1, <3>2
  <2> QED
    BY <1>5, <1>7, <1>8, <2>1, <2>2 DEF Typed, NoCall, NoScan, Phase
<1>11. SearchInv'
  <2>1. Idle' /\ call'.node = None
    BY <1>7 DEF Idle, NoCall
  <2> QED
    BY <2>1, IdleSearch
<1>16. OccupancyIsOwned'
  <2> SUFFICES ASSUME NEW a \in Arena
               PROVE  /\ \A n \in Holders(a)' : node'[n].blocks > 0 /\ Freed(n)' \subseteq Cells[a]
                      /\ \A i \in Cells[a] : cell'[a][i] = 1 <=> \E n \in Holders(a)' : i \in Freed(n)'
                      /\ \A k, n \in Holders(a)' : k = n \/ Freed(k)' \intersect Freed(n)' = {}
                      /\ live'[a] = Cardinality(Holders(a)')
    BY DEF OccupancyIsOwned
  <2>1. /\ \A n \in Holders(a) : node[n].blocks > 0 /\ Freed(n) \subseteq Cells[a]
        /\ \A i \in Cells[a] : cell[a][i] = 1 <=> \E n \in Holders(a) : i \in Freed(n)
        /\ \A k, n \in Holders(a) : k = n \/ Freed(k) \intersect Freed(n) = {}
        /\ live[a] = Cardinality(Holders(a))
    BY DEF BlockInv, OccupancyIsOwned
  <2>2. \A n \in Holders(a) : n \in Node /\ n # m /\ Freed(n)' = Freed(n) /\ node'[n] = node[n]
    BY <1>9, <1>1, <1>2 DEF Holders, Settled
  <2>3. CASE a # at
    <3>1. Holders(a)' = Holders(a) /\ live'[a] = live[a]
      BY <1>6, <1>1, <1>2, <2>3 DEF Typed
    <3>2. \A i \in Cells[a] : cell'[a][i] = cell[a][i]
      BY <1>8, <2>3
    <3> QED
      BY <2>1, <2>2, <3>1, <3>2
  <2>4. CASE a = at
    <3>1. Holders(a)' = Holders(a) \union {m} /\ live'[a] = live[a] + 1
      BY <1>6, <1>1, <1>2, <2>4 DEF Typed
    <3>2. Cardinality(Holders(a) \union {m}) = Cardinality(Holders(a)) + 1
      BY <1>1, <1>2, HoldersFinite, FS_AddElement
    <3>3. \A i \in run : i \in Cells[a] /\ cell[a][i] = 0
      BY <1>1, <1>2, <2>4
    <3>4. \A n \in Holders(a) : Freed(n) \intersect run = {}
      BY <2>1, <3>3
    <3>5. \A i \in Cells[a] : cell'[a][i] = IF i \in run THEN 1 ELSE cell[a][i]
      BY <1>8, <2>4
    <3>6. node'[m].blocks > 0 /\ Freed(m)' \subseteq Cells[a]
      BY <1>1, <1>2, <1>9, <2>4
    <3> HIDE DEF run
    <3>7. \A i \in Cells[a] : cell'[a][i] = 1 <=> \E n \in Holders(a)' : i \in Freed(n)'
      BY <1>1, <1>2, <2>1, <2>2, <3>1, <3>5
    <3>8. \A k, n \in Holders(a)' : k = n \/ Freed(k)' \intersect Freed(n)' = {}
      BY <1>1, <1>2, <2>1, <2>2, <3>1, <3>4
    <3>9. live'[a] = Cardinality(Holders(a)')
      BY <2>1, <3>1, <3>2
    <3> QED
      BY <2>1, <2>2, <3>1, <3>6, <3>7, <3>8, <3>9
  <2> QED
    BY <2>3, <2>4
<1>17. Named(m)' /\ \A n \in Node : n # m => (Named(n)' <=> Named(n)) /\ (Vacant(n)' <=> Vacant(n))
  <2>1. Named(m)'
    BY <1>1, <1>2, <1>9 DEF Named, place
  <2> QED
    BY <1>9, <2>1 DEF Named, Vacant
<1>18. \A n \in Releasing : n \in Node /\ n # m
  BY <1>1, <1>2 DEF Typed, Releasing
<1> QED
  BY <1>5, <1>10, <1>11, <1>1, <1>2, <1>16, <1>17, <1>18 DEF BlockInv

LEMMA ReleaseStep ==
  ASSUME Typed, SearchInv, BlockInv, NEW n \in Node, Release(n)
  PROVE  Typed' /\ SearchInv' /\ BlockInv'
<1> DEFINE at == node[n].arena
           run == Freed(n)
<1>0. call.node = None
  BY DEF Release, SearchInv, CallInv
<1>1. /\ n \notin Releasing /\ ~Vacant(n) /\ at \in Arena /\ releasing \in Seq(Node)
  BY <1>0, NodeAssumption DEF Release, BlockInv, Named, Typed
<1>2. /\ cell' = Filled(at, run, 0)
      /\ live' = [live EXCEPT ![at] = @ - 1]
      /\ releasing' = Append(releasing, n)
      /\ node' = node /\ call' = call /\ scan' = scan
  BY DEF Release
<1> HIDE DEF at, run
<1>3. /\ DOMAIN cell' = Arena
      /\ \A b \in Arena : cell'[b] \in [Cells[b] -> {0, 1}]
      /\ \A b \in Arena : \A i \in Cells[b] :
           cell'[b][i] = IF b = at /\ i \in run THEN 0 ELSE cell[b][i]
  BY <1>1, <1>2, FilledRun
<1>4. Typed'
  <2>1. releasing' \in Seq(Node)
    BY <1>1, <1>2
  <2>2. live' \in [Arena -> Int]
    <3>1. live \in [Arena -> Int] /\ live[at] - 1 \in Int
      BY <1>1 DEF Typed
    <3> QED
      BY <1>2, <3>1
  <2> QED
    BY <1>2, <1>3, <2>1, <2>2 DEF Typed
<1>5. SearchInv'
  <2>1. Idle' /\ call'.node = None
    BY <1>2 DEF Release, Idle, SearchInv, CallInv
  <2> QED
    BY <2>1, IdleSearch
<1>6. Releasing' = Releasing \union {n}
  <2>1. /\ Len(releasing) \in Nat /\ DOMAIN releasing = 1 .. Len(releasing)
        /\ DOMAIN releasing' = 1 .. Len(releasing) + 1
        /\ \A k \in DOMAIN releasing : releasing'[k] = releasing[k]
        /\ releasing'[Len(releasing) + 1] = n
    BY <1>1, <1>2
  <2> QED
    BY <2>1 DEF Releasing
<1>7. \A j, k \in DOMAIN releasing' : releasing'[j] = releasing'[k] => j = k
  <2>1. /\ Len(releasing) \in Nat /\ DOMAIN releasing = 1 .. Len(releasing)
        /\ DOMAIN releasing' = 1 .. Len(releasing) + 1
        /\ \A k \in DOMAIN releasing : releasing'[k] = releasing[k]
        /\ releasing'[Len(releasing) + 1] = n
    BY <1>1, <1>2
  <2>2. \A k \in DOMAIN releasing : releasing[k] # n
    BY <1>1 DEF Releasing
  <2> QED
    BY <2>1, <2>2 DEF BlockInv
<1>8. \A a \in Arena : Holders(a)' = IF a = at THEN Holders(a) \ {n} ELSE Holders(a)
  BY <1>2, <1>6 DEF Holders, Settled, at
<1>9. n \in Holders(at)
  BY <1>0, <1>1, NodeAssumption DEF Holders, Settled, at
<1>10. \A k : Freed(k)' = Freed(k) /\ (Named(k)' <=> Named(k)) /\ (Vacant(k)' <=> Vacant(k))
  BY <1>2 DEF Freed, Named, Vacant
<1>11. OccupancyIsOwned'
  <2> SUFFICES ASSUME NEW a \in Arena
               PROVE  /\ \A k \in Holders(a)' : node[k].blocks > 0 /\ Freed(k) \subseteq Cells[a]
                      /\ \A i \in Cells[a] : cell'[a][i] = 1 <=> \E k \in Holders(a)' : i \in Freed(k)
                      /\ \A j, k \in Holders(a)' : j = k \/ Freed(j) \intersect Freed(k) = {}
                      /\ live'[a] = Cardinality(Holders(a)')
    BY <1>2, <1>10 DEF OccupancyIsOwned
  <2>1. /\ \A k \in Holders(a) : node[k].blocks > 0 /\ Freed(k) \subseteq Cells[a]
        /\ \A i \in Cells[a] : cell[a][i] = 1 <=> \E k \in Holders(a) : i \in Freed(k)
        /\ \A j, k \in Holders(a) : j = k \/ Freed(j) \intersect Freed(k) = {}
        /\ live[a] = Cardinality(Holders(a))
    BY DEF BlockInv, OccupancyIsOwned
  <2>2. CASE a # at
    <3>1. Holders(a)' = Holders(a) /\ live'[a] = live[a]
      BY <1>2, <1>8, <2>2 DEF Typed
    <3>2. \A i \in Cells[a] : cell'[a][i] = cell[a][i]
      BY <1>3, <2>2
    <3> QED
      BY <2>1, <3>1, <3>2
  <2>3. CASE a = at
    <3>1. Holders(a)' = Holders(a) \ {n} /\ live'[a] = live[a] - 1
      BY <1>2, <1>8, <2>3 DEF Typed
    <3>2. Cardinality(Holders(a) \ {n}) = Cardinality(Holders(a)) - 1
      BY <1>9, <2>3, HoldersFinite, FS_RemoveElement
    <3>3. \A i \in Cells[a] : cell'[a][i] = IF i \in Freed(n) THEN 0 ELSE cell[a][i]
      BY <1>3, <2>3 DEF run
    <3>4. \A k \in Holders(a) \ {n} : Freed(k) \intersect Freed(n) = {}
      BY <1>9, <2>1, <2>3
    <3>5. \A i \in Cells[a] : cell'[a][i] = 1 <=> \E k \in Holders(a)' : i \in Freed(k)
      BY <2>1, <3>1, <3>3, <3>4
    <3> QED
      BY <2>1, <3>1, <3>2, <3>5
  <2> QED
    BY <2>2, <2>3
<1> QED
  BY <1>1, <1>2, <1>4, <1>5, <1>6, <1>7, <1>10, <1>11 DEF BlockInv

LEMMA ReleaseEndsStep ==
  ASSUME Typed, SearchInv, BlockInv, ReleaseEnds
  PROVE  /\ Typed' /\ SearchInv' /\ BlockInv'
         /\ \A a \in Arena : /\ Holders(a)' = Holders(a)
                            /\ \A n \in Holders(a) : Freed(n)' = Freed(n)
<1>0. PICK last, p : last = Len(releasing) /\ p = releasing[last]
  OBVIOUS
<1>1. /\ releasing \in Seq(Node) /\ releasing # <<>>
      /\ last \in Nat \ {0} /\ DOMAIN releasing = 1 .. last
      /\ p \in Node /\ p \in Releasing
  <2>1. releasing \in Seq(Node) /\ releasing # <<>>
    BY DEF ReleaseEnds, Typed
  <2>2. last \in Nat \ {0} /\ DOMAIN releasing = 1 .. last
    BY <1>0, <2>1
  <2>3. p \in Node /\ p \in Releasing
    BY <1>0, <2>1, <2>2 DEF Releasing
  <2> QED
    BY <2>1, <2>2, <2>3
<1>2. /\ node' = [node EXCEPT ![p] = Unbound]
      /\ releasing' = SubSeq(releasing, 1, last - 1)
      /\ cell' = cell /\ live' = live /\ call' = call /\ scan' = scan
  BY <1>0 DEF ReleaseEnds
<1>3. /\ releasing' \in Seq(Node) /\ DOMAIN releasing' = 1 .. last - 1
      /\ \A k \in 1 .. last - 1 : releasing'[k] = releasing[k]
  BY <1>0, <1>1, <1>2
<1>4. node'[p] = Unbound /\ \A n \in Node : n # p => node'[n] = node[n]
  BY <1>1, <1>2 DEF Typed
<1>5. Typed'
  <2>1. node' \in [Node -> [arena: Arena \union {None}, data: Nat,
                            first: Nat \union {-1}, blocks: Nat]]
    BY <1>2 DEF Typed, Unbound
  <2> QED
    BY <1>2, <1>3, <2>1 DEF Typed
<1>6. SearchInv'
  <2>1. Idle' /\ call'.node = None
    BY <1>2 DEF ReleaseEnds, Idle, SearchInv, CallInv
  <2> QED
    BY <2>1, IdleSearch
<1>7. Releasing' = Releasing \ {p}
  <2>1. \A k \in 1 .. last - 1 : releasing[k] # p
    BY <1>0, <1>1 DEF BlockInv
  <2>2. Releasing' = {releasing[k] : k \in 1 .. last - 1}
    BY <1>3 DEF Releasing
  <2>3. Releasing = {releasing[k] : k \in 1 .. last}
    BY <1>1 DEF Releasing
  <2>4. \A k \in 1 .. last : k \in 1 .. last - 1 \/ k = last
    BY <1>1
  <2>5. \A k \in 1 .. last - 1 : k \in 1 .. last
    BY <1>1
  <2> QED
    BY <1>0, <2>1, <2>2, <2>3, <2>4, <2>5
<1>8. \A a \in Arena : Holders(a)' = Holders(a)
  <2> SUFFICES ASSUME NEW a \in Arena, NEW n \in Node
               PROVE  n \in Holders(a)' <=> n \in Holders(a)
    BY DEF Holders, Settled
  <2>1. CASE n = p
    <3>1. n \notin Holders(a)
      BY <1>1, <2>1 DEF Holders, Settled
    <3>2. node'[n].arena = None
      BY <1>4, <2>1 DEF Unbound
    <3> QED
      BY <3>1, <3>2, ArenaAssumption DEF Holders, Settled
  <2>2. CASE n # p
    BY <1>2, <1>4, <1>7, <2>2 DEF Holders, Settled
  <2> QED
    BY <2>1, <2>2
<1>9. \A n \in Node : n # p =>
        Freed(n)' = Freed(n) /\ (Named(n)' <=> Named(n)) /\ (Vacant(n)' <=> Vacant(n))
  BY <1>4 DEF Freed, Named, Vacant
<1>10. \A a : \A n \in Holders(a) : n \in Node /\ n # p /\ node'[n] = node[n]
  BY <1>1, <1>4 DEF Holders, Settled
<1>11. OccupancyIsOwned'
  BY <1>2, <1>8, <1>9, <1>10 DEF BlockInv, OccupancyIsOwned
<1>12. \A n \in Releasing' : ~Vacant(n)'
  <2> SUFFICES ASSUME NEW n \in Releasing, n # p PROVE ~Vacant(n)'
    BY <1>7
  <2>1. n \in Node
    BY <1>1 DEF Releasing
  <2> QED
    BY <1>9, <2>1 DEF BlockInv
<1>13. \A n \in Node : n # call'.node /\ ~Vacant(n)' => Named(n)'
  <2>1. Vacant(p)'
    BY <1>4 DEF Vacant, Unbound
  <2> QED
    BY <1>2, <1>9, <2>1 DEF BlockInv
<1>14. \A j, k \in DOMAIN releasing' : releasing'[j] = releasing'[k] => j = k
  BY <1>1, <1>3 DEF BlockInv
<1> QED
  BY <1>5, <1>6, <1>8, <1>9, <1>10, <1>11, <1>12, <1>13, <1>14 DEF BlockInv

-----------------------------------------------------------------------------
(* The invariants                                                           *)

LEMMA InitEstablishes ==
  ASSUME Init
  PROVE  IInv
<1>1. Typed
  BY DEF Init, Typed, Unbound, NoCall, NoScan, Phase
<1>2. SearchInv
  BY DEF Init, NoCall, SearchInv, CallInv, Open, Idle, InPhase
<1>3. Releasing = {} /\ \A n \in Node : Vacant(n)
  BY DEF Init, Releasing, Vacant, Unbound
<1>4. \A a \in Arena : Holders(a) = {}
  BY <1>3, ArenaAssumption DEF Holders, Settled, Vacant
<1>5. OccupancyIsOwned
  <2>1. Cardinality({}) = 0
    BY FS_EmptySet
  <2>2. \A a \in Arena : live[a] = 0 /\ \A i \in Cells[a] : cell[a][i] = 0
    BY DEF Init
  <2> QED
    BY <1>4, <2>1, <2>2 DEF OccupancyIsOwned
<1>6. \A j, k \in DOMAIN releasing : releasing[j] = releasing[k] => j = k
  BY DEF Init
<1> QED
  BY <1>1, <1>2, <1>3, <1>5, <1>6 DEF IInv, BlockInv

LEMMA NextPreserves ==
  ASSUME IInv, [Next]_vars
  PROVE  IInv'
<1>1. ASSUME NEW n \in Node, Release(n)
      PROVE  IInv'
  BY <1>1, ReleaseStep DEF IInv
<1>2. ASSUME NEW n \in Node, NEW r \in Demand[n], AllocateRouted(n, r)
      PROVE  IInv'
  BY <1>2, AllocateRoutedStep, BlocksKept DEF IInv
<1>3. CASE Search
  <2>1. CallsFor(call.node)
    BY <1>3, SearchCallsFor DEF IInv
  <2> QED
    BY <1>3, <2>1, SearchStep, CallKeepsBlocks DEF IInv
<1>4. CASE Bind
  BY <1>4, BindStep DEF IInv
<1>5. CASE Refuse
  BY <1>5, RefuseStep, CallKeepsBlocks DEF IInv
<1>8. CASE TryOther
  BY <1>8, TryOtherStep, CallKeepsBlocks DEF IInv
<1>9. CASE GiveUp
  BY <1>9, GiveUpStep, CallKeepsBlocks DEF IInv
<1>6. CASE ReleaseEnds
  BY <1>6, ReleaseEndsStep DEF IInv
<1>7. CASE UNCHANGED vars
  <2>1. Searching /\ UNCHANGED <<call, scan>>
    BY <1>7 DEF vars, Searching
  <2>2. Typed'
    BY <2>1 DEF IInv, Typed, Searching
  <2>3. call'.arena = call.arena /\ call'.bytes = call.bytes
    BY <2>1
  <2>4. SearchInv'
    <3>1. /\ CallInv' <=> CallInv
          /\ \A p : (InPhase(p))' <=> InPhase(p)
      BY <2>1, <2>3, SameView DEF CallInv, Open, Idle, InPhase
    <3>2. Base' = Base
      BY <2>1 DEF Base
    <3>3. InGroups' <=> InGroups
      BY <2>1, <2>3, <3>2, SameView DEF InGroups, NoFitBelow
    <3>4. \A c : (OnlyOverlookedBelow(c))' <=> OnlyOverlookedBelow(c)
      BY <2>1, <2>3, SameView DEF OnlyOverlookedBelow
    <3>5. \A c : (NoFitBelow(c))' <=> NoFitBelow(c)
      BY <2>1, <2>3, SameView DEF NoFitBelow
    <3>6. /\ NoFitBelow(scan.start)' <=> NoFitBelow(scan.start)
          /\ OnlyOverlookedBelow(scan.cursor)' <=> OnlyOverlookedBelow(scan.cursor)
          /\ OnlyOverlookedBelow(scan.start)' <=> OnlyOverlookedBelow(scan.start)
          /\ OnlyOverlookedBelow(Capacity[At])' <=> OnlyOverlookedBelow(Capacity[At])
          /\ Fits(scan.start)' <=> Fits(scan.start)
      BY <2>1, <2>3, SameView DEF NoFitBelow, OnlyOverlookedBelow, Fits
    <3> QED
      BY <2>1, <2>3, <3>1, <3>3, <3>6, SameView DEF IInv, SearchInv
  <2>5. BlockInv'
    <3>1. /\ \A n : Vacant(n)' <=> Vacant(n)
          /\ \A n : Named(n)' <=> Named(n)
          /\ \A n : Freed(n)' = Freed(n)
          /\ Releasing' = Releasing /\ call' = call
      BY <2>1 DEF Searching, Vacant, Named, Freed, Releasing
    <3>2. \A a : Holders(a)' = Holders(a)
      BY <2>1, <3>1 DEF Holders, Settled, Searching
    <3> QED
      BY <2>1, <3>1, <3>2 DEF IInv, BlockInv, OccupancyIsOwned, Searching
  <2> QED
    BY <2>2, <2>4, <2>5 DEF IInv
<1> QED
  BY <1>1, <1>2, <1>3, <1>4, <1>5, <1>6, <1>7, <1>8, <1>9 DEF Next

\* The invariant of all theorems below.
THEOREM BlocksInvariant == Spec => []IInv
<1>1. Init => IInv
  BY InitEstablishes
<1>2. IInv /\ [Next]_vars => IInv'
  BY NextPreserves
<1> QED
  BY <1>1, <1>2, PTL DEF Spec

(***************************************************************************)
(* Every variable keeps its type; the counters of live allocations, which   *)
(* a release decrements without a check, never fall below zero.             *)
(***************************************************************************)
THEOREM TypeCorrect == Spec => []TypeOK
<1>1. IInv => TypeOK
  <2> SUFFICES ASSUME IInv PROVE TypeOK
    OBVIOUS
  <2>1. \A a \in Arena : live[a] \in Nat
    BY HoldersFinite DEF IInv, BlockInv, OccupancyIsOwned
  <2>2. live \in [Arena -> Nat]
    BY <2>1 DEF IInv, BlockInv, Typed
  <2> QED
    BY <2>2 DEF IInv, Typed, TypeOK
<1> QED
  BY <1>1, BlocksInvariant, PTL

(***************************************************************************)
(* The search returns a run that is free and long enough, and passes over   *)
(* no other before it than the one at the first cell of the tail.           *)
(***************************************************************************)
THEOREM SearchIsFirstFit == Spec => []SearchFindsFirstFit
<1>1. IInv => SearchFindsFirstFit
  <2> SUFFICES ASSUME IInv PROVE SearchFindsFirstFit
    OBVIOUS
  <2>1. CASE InPhase("found")
    <3>1. Fits(scan.start) /\ OnlyOverlookedBelow(scan.start)
      BY <2>1 DEF IInv, SearchInv
    <3>2. scan.start \in Nat
      BY DEF IInv, Typed
    <3>3. \A s \in 0 .. scan.start - 1 : s \in Nat /\ s < scan.start
      BY <3>2
    <3> QED
      BY <2>1, <3>1, <3>3 DEF SearchFindsFirstFit, OnlyOverlookedBelow, InPhase
  <2>2. CASE InPhase("failed") /\ Searchable(At)
    <3>1. OnlyOverlookedBelow(Capacity[At])
      BY <2>2 DEF IInv, SearchInv
    <3>2. At \in Arena /\ Cells[At] = 0 .. Capacity[At] - 1 /\ Capacity[At] \in Nat
      <4>1. ~Idle
        BY <2>2 DEF InPhase, Idle
      <4> QED
        BY <2>2, <4>1, SearchContext DEF IInv, SearchInv
    <3>3. \A s \in Cells[At] : s \in Nat /\ s < Capacity[At]
      BY <3>2
    <3> QED
      BY <2>2, <3>1, <3>3 DEF SearchFindsFirstFit, OnlyOverlookedBelow, InPhase
  <2>3. CASE ~InPhase("found") /\ ~(InPhase("failed") /\ Searchable(At))
    BY <2>3 DEF SearchFindsFirstFit
  <2> QED
    BY <2>1, <2>2, <2>3
<1> QED
  BY <1>1, BlocksInvariant, PTL

(***************************************************************************)
(* The occupancy maps, the counters and the nodes agree on who holds what.  *)
(***************************************************************************)
THEOREM OccupancyStaysOwned == Spec => []OccupancyIsOwned
<1>1. IInv => OccupancyIsOwned
  BY DEF IInv, BlockInv
<1> QED
  BY <1>1, BlocksInvariant, PTL

\* The bytes of two runs of one arena that do not meet do not meet either.
LEMMA RunsApart ==
  ASSUME NEW base \in Nat, NEW u \in Nat, NEW f \in Nat, NEW k \in Nat, NEW g \in Nat,
         f + k <= g
  PROVE  base + u * f + k * u <= base + u * g
<1>1. (f + k) * u <= g * u
  BY Grows
<1>2. (f + k) * u = u * f + k * u
  OBVIOUS
<1>3. g * u = u * g
  OBVIOUS
<1> QED
  BY <1>1, <1>2, <1>3

\* The blocks of one node.
LEMMA MemoryOf ==
  ASSUME IInv, NEW n \in Settled, ~Vacant(n)
  PROVE  /\ node[n].arena \in Arena /\ n \in Holders(node[n].arena)
         /\ Backing[node[n].arena].address \in Nat /\ Backing[node[n].arena].bytes \in Nat
         /\ Capacity[node[n].arena] \in Nat
         /\ BlockBytes[node[n].arena] \in Nat /\ Data[node[n].arena] \in Nat
         /\ node[n].first \in Nat /\ node[n].blocks \in Nat \ {0}
         /\ node[n].data = Data[node[n].arena] + BlockBytes[node[n].arena] * node[n].first
         /\ node[n].data \in Nat /\ Bytes(n) \in Nat
         /\ Backing[node[n].arena].address + Capacity[node[n].arena] <= node[n].data
         /\ node[n].data + Bytes(n) <=
              Backing[node[n].arena].address + Backing[node[n].arena].bytes
<1> DEFINE a == node[n].arena
           f == node[n].first
           k == node[n].blocks
           u == BlockBytes[a]
           c == Capacity[a]
           D == Data[a]
           P == Backing[a].address
           B == Backing[a].bytes
<1>1. /\ a \in Arena /\ k \in Nat \ {0} /\ f \in Nat /\ f + k <= c
      /\ node[n].data = D + u * f
  BY DEF IInv, BlockInv, Named, Settled
<1>2. c \in Int /\ u \in Nat /\ P \in Nat /\ B \in Nat
  BY <1>1, BlockSize
<1>3. c \in Nat
  <2> HIDE DEF c, f, k
  <2> QED
    BY <1>1, <1>2
<1>4. D \in Nat /\ P + c <= D /\ D + c * u <= P + B
  BY <1>1, <1>3, Geometry
<1>5. Bytes(n) = k * u
  BY DEF Bytes
<1>6. n \in Holders(a)
  BY <1>1 DEF Holders, Settled
<1>7. D + u * f + k * u <= D + u * c
  <2> HIDE DEF a, f, k, u, c, D
  <2> QED
    BY <1>1, <1>2, <1>3, <1>4, RunsApart
<1> HIDE DEF a, f, k, u, c, D, P, B
<1>8. u * c = c * u /\ u * f \in Nat /\ k * u \in Nat /\ c * u \in Nat
  BY <1>1, <1>2, <1>3
<1> DEFINE uf == u * f
           ku == k * u
           cu == c * u
<1>9. /\ uf \in Nat /\ ku \in Nat /\ cu \in Nat
      /\ D + uf + ku <= D + cu /\ D + cu <= P + B /\ P + c <= D
      /\ node[n].data = D + uf /\ Bytes(n) = ku
  BY <1>1, <1>4, <1>5, <1>7, <1>8
<1> HIDE DEF uf, ku, cu
<1>10. /\ node[n].data \in Nat /\ Bytes(n) \in Nat
       /\ P + c <= node[n].data /\ node[n].data + Bytes(n) <= P + B
  BY <1>2, <1>3, <1>4, <1>9
<1> QED
  BY <1>1, <1>2, <1>3, <1>4, <1>6, <1>10 DEF a, f, k, u, c, D, P, B

(***************************************************************************)
(* What a holder may write lies behind its arena's map and inside the       *)
(* arena's backing, apart from what other holders may write.                *)
(***************************************************************************)
THEOREM MemoryStaysOwned == Spec => []MemoryIsOwned
<1>1. IInv => MemoryIsOwned
  <2> SUFFICES ASSUME IInv PROVE MemoryIsOwned
    OBVIOUS
  <2>1. \A n \in Bound :
          LET b == Backing[node[n].arena]
          IN  /\ b.address + Capacity[node[n].arena] <= node[n].data
              /\ node[n].data + Bytes(n) <= b.address + b.bytes
    BY MemoryOf DEF Bound
  <2>2. ASSUME NEW m \in Bound, NEW n \in Bound, m # n
        PROVE  \/ node[m].data + Bytes(m) <= node[n].data
               \/ node[n].data + Bytes(n) <= node[m].data
    <3>1. m \in Settled /\ n \in Settled /\ ~Vacant(m) /\ ~Vacant(n)
      BY DEF Bound
    <3>2. CASE node[m].arena = node[n].arena
      <4> DEFINE a == node[n].arena
                 u == BlockBytes[a]
                 D == Data[a]
                 f == node[m].first
                 k == node[m].blocks
                 g == node[n].first
                 l == node[n].blocks
      <4>1. /\ a \in Arena /\ m \in Holders(a) /\ n \in Holders(a)
            /\ u \in Nat /\ D \in Nat
            /\ f \in Nat /\ g \in Nat /\ k \in Nat \ {0} /\ l \in Nat \ {0}
            /\ node[m].data = D + u * f /\ node[n].data = D + u * g
        BY <3>1, <3>2, MemoryOf
      <4>2. Freed(m) \intersect Freed(n) = {}
        BY <2>2, <4>1 DEF IInv, BlockInv, OccupancyIsOwned
      <4>3. Freed(m) = f .. f + k - 1 /\ Freed(n) = g .. g + l - 1
        BY DEF Freed, FirstBlocks
      <4>4. Bytes(m) = k * u /\ Bytes(n) = l * u
        BY <3>2 DEF Bytes
      <4> HIDE DEF a, u, D, f, k, g, l
      <4>5. f + k <= g \/ g + l <= f
        <5>1. f \notin g .. g + l - 1 \/ g \notin f .. f + k - 1
          BY <4>2, <4>3, <4>1
        <5>2. f \in f .. f + k - 1 /\ g \in g .. g + l - 1
          BY <4>1
        <5>3. f \notin g .. g + l - 1 /\ g \notin f .. f + k - 1
          BY <4>2, <4>3, <5>2
        <5> QED
          BY <4>1, <5>3
      <4>6. CASE f + k <= g
        BY <4>1, <4>4, <4>6, RunsApart
      <4>7. CASE g + l <= f
        BY <4>1, <4>4, <4>7, RunsApart
      <4> QED
        BY <4>5, <4>6, <4>7
    <3>3. CASE node[m].arena # node[n].arena
      <4> DEFINE p == Backing[node[m].arena].address
                 q == Backing[node[n].arena].address
                 x == Backing[node[m].arena].bytes
                 y == Backing[node[n].arena].bytes
                 i == Capacity[node[m].arena]
                 j == Capacity[node[n].arena]
      <4>1. /\ p \in Nat /\ q \in Nat /\ x \in Nat /\ y \in Nat /\ i \in Nat /\ j \in Nat
            /\ node[m].data \in Nat /\ node[n].data \in Nat
            /\ Bytes(m) \in Nat /\ Bytes(n) \in Nat
            /\ p + i <= node[m].data /\ node[m].data + Bytes(m) <= p + x
            /\ q + j <= node[n].data /\ node[n].data + Bytes(n) <= q + y
            /\ node[m].arena \in Arena /\ node[n].arena \in Arena
        BY <3>1, MemoryOf
      <4>2. p + x <= q \/ q + y <= p
        BY <3>3, <4>1, BackingAssumption
      <4> HIDE DEF p, q, x, y, i, j
      <4> QED
        BY <4>1, <4>2
    <3> QED
      BY <3>2, <3>3
  <2> QED
    BY <2>1, <2>2 DEF MemoryIsOwned
<1> QED
  BY <1>1, BlocksInvariant, PTL

-----------------------------------------------------------------------------
(* The refinement                                                           *)

\* The one member of a set of holders.
TheOne(holders) == IF holders = {} THEN None ELSE CHOOSE n \in holders : TRUE

LEMMA BlockParts ==
  ASSUME NEW b \in Block
  PROVE  b[1] \in Arena /\ b[2] \in Cells[b[1]] /\ b = <<b[1], b[2]>>
BY DEF Block

\* A block belongs to the one holder whose run it lies in.
LEMMA OwnerIs ==
  ASSUME OccupancyIsOwned, NEW b \in Block
  PROVE  /\ \A n \in Holders(b[1]) : b[2] \in Freed(n) => Owner[b] = n
         /\ (\A n \in Holders(b[1]) : b[2] \notin Freed(n)) => Owner[b] = None
         /\ Owner[b] # None => Owner[b] \in Holders(b[1]) /\ b[2] \in Freed(Owner[b])
<1> DEFINE holders == {n \in Holders(b[1]) : b[2] \in Freed(n)}
<1>1. Owner[b] = IF holders = {} THEN None ELSE CHOOSE n \in holders : TRUE
  BY DEF Owner
<1>2. b[1] \in Arena
  BY BlockParts
<1>3. \A m, n \in holders : m = n
  BY <1>2 DEF OccupancyIsOwned
<1>4. holders # {} => (CHOOSE n \in holders : TRUE) \in holders
  OBVIOUS
<1> QED
  BY <1>1, <1>3, <1>4

\* The owners after a step whose holders name the same runs as before.
LEMMA OwnersKept ==
  ASSUME \A a \in Arena : Holders(a)' = Holders(a),
         \A a \in Arena : \A n \in Holders(a) : Freed(n)' = Freed(n)
  PROVE  Owner' = Owner
<1>1. /\ Owner = [b \in Block |-> TheOne({n \in Holders(b[1]) : b[2] \in Freed(n)})]
      /\ Owner' = [b \in Block |-> TheOne({n \in Holders(b[1])' : b[2] \in Freed(n)'})]
  BY DEF Owner, TheOne
<1>2. ASSUME NEW b \in Block
      PROVE  {n \in Holders(b[1])' : b[2] \in Freed(n)'}
               = {n \in Holders(b[1]) : b[2] \in Freed(n)}
  BY BlockParts
<1> QED
  BY <1>1, <1>2

LEMMA BindTakes ==
  ASSUME IInv, IInv', Bind
  PROVE  Store!Next
<1>0. PICK m \in Node, at \in Arena, first \in Nat, count \in Nat \ {0} :
           BindsTo(m, at, first, count)
  BY BindEffect DEF IInv
<1> DEFINE run == FirstBlocks(first, count)
<1>1. /\ m \notin Releasing /\ first + count <= Capacity[at]
      /\ run \subseteq Cells[at] /\ first \in run
      /\ \A i \in run : cell[at][i] = 0
      /\ \A a \in Arena :
           /\ Holders(a)' = IF a = at THEN Holders(a) \union {m} ELSE Holders(a)
           /\ m \notin Holders(a)
      /\ Freed(m)' = run /\ \A n \in Node : n # m => Freed(n)' = Freed(n)
  BY <1>0 DEF BindsTo
<1> DEFINE blocks == {at} \X run
<1>2. blocks \subseteq Block /\ <<at, first>> \in blocks
  BY <1>1 DEF Block
<1>3. \A b \in Block : b \in blocks <=> b[1] = at /\ b[2] \in run
  BY BlockParts
<1>4. \A a \in Arena : \A n \in Holders(a) : n \in Node /\ n # m /\ n # None
  BY <1>1, NodeAssumption DEF Holders, Settled
<1>5. OccupancyIsOwned /\ OccupancyIsOwned'
  BY DEF IInv, BlockInv
<1>6. \A b \in blocks : Owner[b] = None
  <2> SUFFICES ASSUME NEW b \in blocks PROVE Owner[b] = None
    OBVIOUS
  <2>1. b \in Block /\ b[1] = at /\ b[2] \in run /\ b[2] \in Cells[at]
    BY <1>1, <1>2, <1>3
  <2>2. cell[at][b[2]] = 0
    BY <1>1, <2>1
  <2>3. \A n \in Holders(at) : b[2] \notin Freed(n)
    BY <1>5, <2>1, <2>2 DEF OccupancyIsOwned
  <2> QED
    BY <1>5, <2>1, <2>3, OwnerIs
<1>7. \A b \in Block : Owner'[b] = IF b \in blocks THEN m ELSE Owner[b]
  <2> SUFFICES ASSUME NEW b \in Block PROVE Owner'[b] = IF b \in blocks THEN m ELSE Owner[b]
    OBVIOUS
  <2> DEFINE before == {n \in Holders(b[1]) : b[2] \in Freed(n)}
             after == {n \in Holders(b[1])' : b[2] \in Freed(n)'}
  <2>1. b[1] \in Arena
    BY BlockParts
  <2>2. Owner[b] = TheOne(before)
    BY DEF Owner, TheOne
  <2>3. Owner'[b] = TheOne(after)
    BY DEF Owner, TheOne
  <2>4. CASE b \in blocks
    <3>1. b[1] = at /\ b[2] \in run
      BY <1>3, <2>4
    <3>2. before = {}
      <4> SUFFICES ASSUME NEW n \in Holders(at), b[2] \in Freed(n) PROVE FALSE
        BY <3>1
      <4>1. Owner[b] = n
        BY <1>5, <3>1, OwnerIs
      <4> QED
        BY <1>4, <1>6, <2>4, <4>1
    <3>3. after = {m}
      BY <1>1, <1>4, <2>1, <3>1, <3>2
    <3> QED
      BY <2>3, <2>4, <3>3 DEF TheOne
  <2>5. CASE b \notin blocks
    <3>1. after = before
      BY <1>1, <1>3, <1>4, <2>1, <2>5
    <3> HIDE DEF before, after, blocks
    <3> QED
      BY <2>2, <2>3, <2>5, <3>1
  <2> QED
    BY <2>4, <2>5
<1>8. \A b \in Block : Owner[b] # m
  <2> SUFFICES ASSUME NEW b \in Block, Owner[b] = m PROVE FALSE
    OBVIOUS
  <2>1. m # None
    BY NodeAssumption
  <2>2. b[1] \in Arena /\ m \in Holders(b[1])
    BY <1>5, <2>1, OwnerIs, BlockParts
  <2> QED
    BY <1>1, <2>2
<1>9. {b \in Block : Owner'[b] = m} = blocks
  BY <1>2, <1>7, <1>8
<1>10. blocks \in Runs
  <2>1. \A b, c \in blocks : b[1] = c[1] /\ {b[1]} \X (b[2] .. c[2]) \subseteq blocks
    <3> SUFFICES ASSUME NEW b \in blocks, NEW c \in blocks, NEW i \in b[2] .. c[2]
                 PROVE  b[1] = at /\ c[1] = at /\ i \in run
      OBVIOUS
    <3> QED
      BY DEF FirstBlocks
  <2> QED
    BY <1>2, <2>1 DEF Runs
<1>11. Owner' = [b \in Block |-> IF b \in blocks THEN m ELSE Owner[b]]
  <2>1. Owner' = [b \in Block |-> Owner'[b]]
    BY DEF Owner
  <2> QED
    BY <1>7, <2>1
<1>12. Store!Held(m) = {}
  BY <1>8 DEF Store!Held
<1>13. Store!Take(m)
  <2> HIDE DEF blocks
  <2> QED
    BY <1>6, <1>9, <1>10, <1>11, <1>12 DEF Store!Take
<1>14. Owner' # Owner
  <2>1. <<at, first>> \in Block /\ Owner'[<<at, first>>] = m /\ Owner[<<at, first>>] # m
    BY <1>2, <1>7, <1>8
  <2> QED
    BY <2>1
<1> QED
  BY <1>13, <1>14 DEF Store!Next

LEMMA ReleaseGives ==
  ASSUME IInv, IInv', NEW n \in Node, Release(n)
  PROVE  Store!Next
<1>0. call.node = None /\ call' = call
  BY DEF Release, IInv, SearchInv, CallInv
<1>1. n \notin Releasing /\ ~Vacant(n) /\ Named(n) /\ OccupancyIsOwned
  BY <1>0, NodeAssumption DEF Release, IInv, BlockInv
<1>2. \A k : Freed(k)' = Freed(k)
  BY DEF Release, Freed
<1>3. Releasing' = Releasing \union {n}
  <2>1. releasing \in Seq(Node) /\ releasing' = Append(releasing, n)
    BY DEF Release, IInv, Typed
  <2>2. /\ Len(releasing) \in Nat /\ DOMAIN releasing = 1 .. Len(releasing)
        /\ DOMAIN releasing' = 1 .. Len(releasing) + 1
        /\ \A k \in DOMAIN releasing : releasing'[k] = releasing[k]
        /\ releasing'[Len(releasing) + 1] = n
    BY <2>1
  <2> QED
    BY <2>2 DEF Releasing
<1>4. \A a : Holders(a)' = Holders(a) \ {n}
  BY <1>0, <1>3 DEF Holders, Settled, Release
<1>5. \A b \in Block : Owner'[b] = IF Owner[b] = n THEN None ELSE Owner[b]
  <2> SUFFICES ASSUME NEW b \in Block PROVE Owner'[b] = IF Owner[b] = n THEN None ELSE Owner[b]
    OBVIOUS
  <2> DEFINE before == {k \in Holders(b[1]) : b[2] \in Freed(k)}
             after == {k \in Holders(b[1])' : b[2] \in Freed(k)'}
  <2>1. Owner[b] = TheOne(before)
    BY DEF Owner, TheOne
  <2>2. Owner'[b] = TheOne(after)
    BY DEF Owner, TheOne
  <2>3. after = before \ {n}
    BY <1>2, <1>4
  <2>4. \A j, k \in before : j = k
    BY <1>1, BlockParts DEF OccupancyIsOwned
  <2>5. before # {} => Owner[b] \in before
    BY <2>1 DEF TheOne
  <2>6. CASE Owner[b] = n
    <3>1. n # None
      BY NodeAssumption
    <3>2. before = {n}
      BY <2>1, <2>4, <2>5, <2>6, <3>1 DEF TheOne
    <3> QED
      BY <2>2, <2>3, <2>6, <3>2 DEF TheOne
  <2>7. CASE Owner[b] # n
    <3>1. n \notin before
      BY <2>4, <2>5, <2>7
    <3>2. after = before
      BY <2>3, <3>1
    <3> HIDE DEF before, after
    <3> QED
      BY <2>1, <2>2, <2>7, <3>2
  <2> QED
    BY <2>6, <2>7
<1>6. Owner' = [b \in Block |-> IF Owner[b] = n THEN None ELSE Owner[b]]
  <2>1. Owner' = [b \in Block |-> Owner'[b]]
    BY DEF Owner
  <2> QED
    BY <1>5, <2>1
<1>7. Store!Give(n)
  BY <1>6 DEF Store!Give
<1>8. Owner' # Owner
  <2> DEFINE b == <<node[n].arena, node[n].first>>
  <2>1. node[n].arena \in Arena /\ n \in Holders(node[n].arena)
    BY <1>0, <1>1, NodeAssumption DEF Named, Holders, Settled
  <2>2. node[n].first \in Freed(n)
    BY <1>1 DEF Named, Freed, FirstBlocks
  <2>3. Freed(n) \subseteq Cells[node[n].arena]
    BY <1>1, <2>1 DEF OccupancyIsOwned
  <2>4. b \in Block
    BY <2>1, <2>2, <2>3 DEF Block
  <2>5. Owner[b] = n
    BY <1>1, <2>1, <2>2, <2>4, OwnerIs
  <2>6. Owner'[b] = None
    BY <1>5, <2>4, <2>5
  <2> QED
    BY <2>5, <2>6, NodeAssumption
<1> QED
  BY <1>7, <1>8 DEF Store!Next

(***************************************************************************)
(* Whatever is called in whatever order, also from within callbacks, the    *)
(* arenas behave as a block store: a run is handed over as a whole when it  *)
(* is free, and taken back as a whole.                                      *)
(***************************************************************************)
THEOREM ImplementsBlockStore == Spec => RefinesBlockStore
<1>1. Init => Store!Init
  <2> SUFFICES ASSUME Init PROVE Store!Init
    OBVIOUS
  <2>1. \A a \in Arena : Holders(a) = {}
    BY ArenaAssumption DEF Init, Holders, Settled, Unbound
  <2>2. \A b \in Block : Owner[b] = None
    BY <2>1, BlockParts DEF Owner
  <2> QED
    BY <2>2 DEF Store!Init, Owner
<1>2. IInv /\ IInv' /\ [Next]_vars => [Store!Next]_Owner
  <2> SUFFICES ASSUME IInv, IInv', [Next]_vars PROVE [Store!Next]_Owner
    OBVIOUS
  <2>1. ASSUME NEW n \in Node, Release(n)
        PROVE  Store!Next
    BY <2>1, ReleaseGives
  <2>2. ASSUME NEW n \in Node, NEW r \in Demand[n], AllocateRouted(n, r)
        PROVE  UNCHANGED Owner
    BY <2>2, AllocateRoutedStep, BlocksKept, OwnersKept DEF IInv
  <2>3. CASE Search \/ Refuse \/ TryOther \/ GiveUp
    <3>1. CallsFor(call.node)
      BY <2>3, SearchCallsFor, RefuseStep, TryOtherStep, GiveUpStep DEF IInv
    <3> QED
      BY <3>1, CallKeepsBlocks, OwnersKept DEF IInv
  <2>6. CASE UNCHANGED vars
    <3>1. \A a \in Arena : /\ Holders(a)' = Holders(a)
                          /\ \A n \in Holders(a) : Freed(n)' = Freed(n)
      BY <2>6 DEF vars, Holders, Settled, Releasing, Freed
    <3> QED
      BY <3>1, OwnersKept
  <2>4. CASE Bind
    BY <2>4, BindTakes
  <2>5. CASE ReleaseEnds
    <3>1. \A a \in Arena : /\ Holders(a)' = Holders(a)
                          /\ \A n \in Holders(a) : Freed(n)' = Freed(n)
      BY <2>5, ReleaseEndsStep DEF IInv
    <3> QED
      BY <3>1, OwnersKept
  <2> QED
    BY <2>1, <2>2, <2>3, <2>4, <2>5, <2>6 DEF Next
<1> QED
  BY <1>1, <1>2, BlocksInvariant, PTL DEF Spec, RefinesBlockStore, Store!Spec
=============================================================================
