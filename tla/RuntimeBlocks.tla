---------------------------- MODULE RuntimeBlocks ----------------------------
(***************************************************************************)
(* reverse::BlockArenaState and BlockAllocationState: arenas of equal       *)
(* blocks with one occupancy cell per block, and the nodes that name the    *)
(* run of blocks they were given.                                           *)
(*                                                                          *)
(* The search for a free run is told in steps, one for each place where its *)
(* loops turn, so that what it returns is a consequence of its loop         *)
(* invariants.  Nothing else happens while it runs.  A release, however,    *)
(* frees the run first, then calls back, and clears its node last: the      *)
(* callbacks may allocate from and release to the same arenas meanwhile.    *)
(*                                                                          *)
(* Cells are only ever filled with 0 and 1, so the branches the search has  *)
(* for other values are not taken.                                          *)
(***************************************************************************)
EXTENDS Integers, Sequences, FiniteSets

CONSTANTS
  Arena,       \* indices of the represented arenas
  Node,        \* the allocation nodes callers own
  None,        \* a null arena
  Backing,     \* by arena: address, bytes, block (bytes asked for), alignment
  Group,       \* cells the search looks at in one word: 8
  Word,        \* 2^32
  Threshold,   \* largest request that mode -1 sends to arena 1
  Demand,      \* by node: the requests of its owner, of type Request
  MaxNesting   \* bound: releases running inside each other

Request == [bytes: 0 .. Word - 1, mode: {-2, -1} \union Arena,
            fallback: BOOLEAN, forced: BOOLEAN]

ASSUME GroupAssumption == Group \in Nat \ {0, 1}
ASSUME ArenaAssumption ==
  /\ Arena \subseteq Nat /\ {0, 1, 2} \subseteq Arena /\ None \notin Arena
  /\ Word \in Nat \ {0} /\ Threshold \in Nat /\ MaxNesting \in Nat
ASSUME NodeAssumption == IsFiniteSet(Node) /\ None \notin Node
ASSUME DemandAssumption == Demand \in [Node -> SUBSET Request]
ASSUME BackingAssumption ==
  /\ Backing \in [Arena -> [address: Nat, bytes: 0 .. Word - 1,
                            block: Nat \ {0}, alignment: Nat \ {0}]]
  /\ \A a, b \in Arena :
       \/ a = b
       \/ Backing[a].address + Backing[a].bytes <= Backing[b].address
       \/ Backing[b].address + Backing[b].bytes <= Backing[a].address

VARIABLES
  cell,       \* by arena and block: its byte of the occupancy map
  live,       \* by arena: live_allocations
  node,       \* by node: arena, data, first, blocks
  releasing,  \* the nodes whose releases wait for their callbacks, outermost first
  call,       \* the allocation in progress
  scan        \* the variables of its search

vars == <<cell, live, node, releasing, call, scan>>

-----------------------------------------------------------------------------
(* initialize_runtime_block_arena                                           *)

RoundUp(x, unit) == ((x + unit - 1) \div unit) * unit

BlockBytes == [a \in Arena |-> RoundUp(Backing[a].block, Backing[a].alignment)]

\* Mutant of Capacity: the cell that every block needs is not counted.
CapacityWithoutMap == [a \in Arena |-> (Backing[a].bytes - Backing[a].alignment) \div BlockBytes[a]]

Capacity == [a \in Arena |-> (Backing[a].bytes - Backing[a].alignment) \div (BlockBytes[a] + 1)]

Data == [a \in Arena |-> RoundUp(Backing[a].address + Capacity[a], Backing[a].alignment)]

Cells == [a \in Arena |-> 0 .. Capacity[a] - 1]

\* A backing that is too small is refused, and its arena stays without one.
LargeEnough(a) == Backing[a].alignment + Backing[a].block <= Backing[a].bytes

-----------------------------------------------------------------------------
(* allocate_routed_blocks and the start of allocate_runtime_blocks          *)

Unbound == [arena |-> None, data |-> 0, first |-> -1, blocks |-> 0]

NoCall == [phase |-> "idle", node |-> None, arena |-> None, again |-> None, bytes |-> 0]
NoScan == [cursor |-> 0, group |-> 0, start |-> 0, seen |-> 0]

Idle == call.phase = "idle"

\* Sizes from 2^31 on are negative in the comparison.
Small(bytes) == bytes <= Threshold \/ bytes >= Word \div 2

Routed(r) ==
  IF r.forced THEN 2
  ELSE IF r.mode = -2 THEN 1
  ELSE IF r.mode = -1 THEN IF Small(r.bytes) THEN 1 ELSE 0
  ELSE r.mode

\* Whether to try again is decided by the mode before routing.
FallsBack(r) == r.fallback /\ r.mode # 0

Other(a) == IF a = 1 THEN 0 ELSE IF a = 0 THEN 1 ELSE a

\* The search looks at the map in words and refuses one that is not aligned.
Searchable(a) == LargeEnough(a) /\ Backing[a].address % Group = 0

\* A node that names an arena is refused, also while its release calls back.
Vacant(n) == node[n].arena = None

\* An attempt in arena a, with the arena to try after it.  The node names its
\* arena before the search has found anything in it.
Attempt(n, bytes, a, again) ==
  LET Calls(phase) == call' = [phase |-> phase, node |-> n, arena |-> a,
                               again |-> again, bytes |-> bytes]
  IN  /\ IF LargeEnough(a) /\ Vacant(n)
         THEN /\ node' = [node EXCEPT ![n].arena = a]
              /\ Calls(IF Searchable(a) THEN "groups" ELSE "failed")
         ELSE Calls("refused") /\ UNCHANGED node
      /\ scan' = NoScan
      /\ UNCHANGED <<cell, live, releasing>>

AllocateRouted(n, r) ==
  /\ Idle
  /\ Vacant(n)
  /\ r.bytes # 0
  /\ Attempt(n, r.bytes, Routed(r), IF FallsBack(r) THEN Other(Routed(r)) ELSE None)

-----------------------------------------------------------------------------
(* find_runtime_block_run                                                   *)

BlocksFor(a, bytes) == (bytes + BlockBytes[a] - 1) \div BlockBytes[a]

At == call.arena
Needed == BlocksFor(At, call.bytes)
Rounded == [a \in Arena |-> (Capacity[a] \div Group) * Group]
Taken(i) == cell[At][i] = 1
FirstBlocks(first, count) == first .. first + count - 1

InPhase(p) == call.phase = p
Goto(p) == call' = [call EXCEPT !.phase = p]
Searching == UNCHANGED <<cell, live, node, releasing>>

GroupsEnd ==
  /\ InPhase("groups")
  /\ scan.cursor >= Rounded[At]
  /\ Goto("tail")
  /\ Searching /\ UNCHANGED scan

GroupCells(g) == FirstBlocks(g * Group, Group)

SkipGroup ==
  /\ InPhase("groups")
  /\ scan.cursor < Rounded[At]
  /\ \A i \in GroupCells(scan.group) : Taken(i)
  /\ scan' = [scan EXCEPT !.group = @ + 1, !.cursor = @ + Group]
  /\ Searching /\ UNCHANGED call

\* i is the first free cell from f on.
FirstFree(f, i) == f <= i /\ ~Taken(i) /\ \A j \in f .. i - 1 : Taken(j)

\* The probe starts at the first free cell of the group, which may lie before
\* the cursor.
EnterGroup ==
  /\ InPhase("groups")
  /\ scan.cursor < Rounded[At]
  /\ \E i \in GroupCells(scan.group) :
       /\ FirstFree(scan.group * Group, i)
       /\ scan' = [scan EXCEPT !.start = i, !.seen = 0]
  /\ Goto("probe")
  /\ Searching

TailEnds ==
  /\ InPhase("tail")
  /\ \A i \in Cells[At] : i >= scan.cursor => Taken(i)
  /\ Goto("failed")
  /\ Searching /\ UNCHANGED scan

TailEnters ==
  /\ InPhase("tail")
  /\ \E i \in Cells[At] :
       /\ FirstFree(scan.cursor, i)
       /\ scan' = [scan EXCEPT !.start = i]
  /\ Goto("tailprobe")
  /\ Searching

Probing == InPhase("probe") \/ InPhase("tailprobe")

\* A run of the needed length could start at s.
Fits(s) ==
  /\ s + Needed <= Capacity[At]
  /\ \A i \in FirstBlocks(s, Needed) : ~Taken(i)

Found ==
  /\ Probing
  /\ Fits(scan.start)
  /\ Goto("found")
  /\ Searching /\ UNCHANGED scan

\* A run that reaches the end of the map ends the search.
RunsOut ==
  /\ Probing
  /\ ~Fits(scan.start)
  /\ \A i \in Cells[At] : i >= scan.start => ~Taken(i)
  /\ Goto("failed")
  /\ Searching /\ UNCHANGED scan

\* i is the taken cell that breaks the run.
BreaksAt(i) ==
  /\ i \in FirstBlocks(scan.start, Needed) /\ Taken(i)
  /\ \A j \in scan.start .. i - 1 : ~Taken(j)

\* The count of free cells goes on over all runs of a probe.
Seen(i) == scan.seen + (i - scan.start)

\* Mutant of Behind: the search resumes at the next whole group.
NextGroup(i) == ((i \div Group) + 1) * Group

Behind(i) == i + 1

\* The probe goes on behind the cell that broke the run or, having seen a
\* group's worth of free cells, returns to whole groups.
ProbeBreaks ==
  /\ InPhase("probe")
  /\ \E i \in Cells[At] :
       /\ BreaksAt(i)
       /\ IF Seen(i) >= Group
          THEN /\ scan' = [scan EXCEPT !.cursor = Behind(i), !.group = Behind(i) \div Group]
               /\ Goto("groups")
          ELSE /\ scan' = [scan EXCEPT !.start = Behind(i), !.seen = Seen(i)]
               /\ UNCHANGED call
  /\ Searching

TailBreaks ==
  /\ InPhase("tailprobe")
  /\ \E i \in Cells[At] : BreaksAt(i) /\ scan' = [scan EXCEPT !.cursor = Behind(i)]
  /\ Goto("tail")
  /\ Searching

Search ==
  \/ GroupsEnd \/ SkipGroup \/ EnterGroup \/ ProbeBreaks
  \/ TailEnds \/ TailEnters \/ TailBreaks \/ Found \/ RunsOut

-----------------------------------------------------------------------------
(* The end of allocate_runtime_blocks, and release_runtime_blocks           *)

\* Mutant of Filled: the loop over the run stops a cell early.
FilledButLast(a, run, value) ==
  [cell EXCEPT ![a] = [i \in Cells[a] |-> IF i \in run /\ i + 1 \in run THEN value ELSE @[i]]]

Filled(a, run, value) ==
  [cell EXCEPT ![a] = [i \in Cells[a] |-> IF i \in run THEN value ELSE @[i]]]

\* Mutant of Counted: the allocation is not counted.
NotCounted(count) == count

Counted(count) == count + 1

\* The requested bytes at the address returned are zeroed.
Bind ==
  /\ InPhase("found")
  /\ node' = [node EXCEPT ![call.node] =
       [arena |-> At, first |-> scan.start, blocks |-> Needed,
        data |-> Data[At] + ((BlockBytes[At] * scan.start) % Word)]]
  /\ cell' = Filled(At, FirstBlocks(scan.start, Needed), 1)
  /\ live' = [live EXCEPT ![At] = Counted(@)]
  /\ call' = NoCall
  /\ scan' = NoScan
  /\ UNCHANGED releasing

\* Mutant of Withdrawn: the node keeps the arena that had no room for it.
KeepsArena(n) == [node EXCEPT ![n].first = -1]

\* The node's data and blocks stay.
Withdrawn(n) == [node EXCEPT ![n].arena = None, ![n].first = -1]

Refuse ==
  /\ InPhase("failed")
  /\ node' = Withdrawn(call.node)
  /\ Goto("refused")
  /\ UNCHANGED <<cell, live, releasing, scan>>

\* The one fallback attempt tests and searches all over again.
TryOther ==
  /\ InPhase("refused")
  /\ call.again # None
  /\ Attempt(call.node, call.bytes, call.again, None)

GiveUp ==
  /\ InPhase("refused")
  /\ call.again = None
  /\ call' = NoCall
  /\ scan' = NoScan
  /\ Searching

Releasing == {releasing[k] : k \in DOMAIN releasing}

Freed(n) == FirstBlocks(node[n].first, node[n].blocks)

\* The run is free from here on; the node still names it while callbacks run.
\* Releasing the node again from its own callback would call that callback
\* again, and again: callers are assumed not to.
Release(n) ==
  /\ Idle
  /\ ~Vacant(n)
  /\ n \notin Releasing
  /\ Len(releasing) < MaxNesting
  /\ cell' = Filled(node[n].arena, Freed(n), 0)
  /\ live' = [live EXCEPT ![node[n].arena] = @ - 1]
  /\ releasing' = Append(releasing, n)
  /\ UNCHANGED <<node, call, scan>>

\* The callbacks have returned.
ReleaseEnds ==
  /\ Idle
  /\ releasing # <<>>
  /\ node' = [node EXCEPT ![releasing[Len(releasing)]] = Unbound]
  /\ releasing' = SubSeq(releasing, 1, Len(releasing) - 1)
  /\ UNCHANGED <<cell, live, call, scan>>

Init ==
  /\ cell = [a \in Arena |-> [i \in Cells[a] |-> 0]]
  /\ live = [a \in Arena |-> 0]
  /\ node = [n \in Node |-> Unbound]
  /\ releasing = <<>>
  /\ call = NoCall
  /\ scan = NoScan

Next ==
  \/ \E n \in Node : Release(n) \/ \E r \in Demand[n] : AllocateRouted(n, r)
  \/ Search \/ Bind \/ Refuse \/ TryOther \/ GiveUp \/ ReleaseEnds

Spec == Init /\ [][Next]_vars

-----------------------------------------------------------------------------

Phase == {"idle", "groups", "probe", "tail", "tailprobe", "found", "failed", "refused"}

TypeOK ==
  /\ DOMAIN cell = Arena /\ \A a \in Arena : cell[a] \in [Cells[a] -> {0, 1}]
  /\ live \in [Arena -> Nat]
  /\ node \in [Node -> [arena: Arena \union {None}, data: Nat,
                        first: Nat \union {-1}, blocks: Nat]]
  /\ releasing \in Seq(Node)
  /\ call \in [phase: Phase, node: Node \union {None}, arena: Arena \union {None},
               again: Arena \union {None}, bytes: Nat]
  /\ scan \in [cursor: Nat, group: Nat, start: Nat, seen: Nat]

\* The place the search may pass over: the first cell behind the last whole
\* group, when that group is taken.
Overlooked(s) ==
  /\ Rounded[At] > 0 /\ s = Rounded[At]
  /\ \A i \in Rounded[At] - Group .. Rounded[At] - 1 : Taken(i)

(***************************************************************************)
(* runtime_block_allocator.cpp:29-58: the search returns the first run that *)
(* is long enough and free, and refuses only when there is none, although   *)
(* its count of free cells runs on over several runs and throws it back     *)
(* into groups it had begun.  One place escapes it: after such a jump onto  *)
(* the second cell of a group that is taken, the cursor is one cell ahead   *)
(* of the groups, and the tail is searched from its second cell.            *)
(***************************************************************************)
SearchFindsFirstFit ==
  /\ InPhase("found") =>
       /\ Fits(scan.start)
       /\ \A s \in 0 .. scan.start - 1 : Fits(s) => Overlooked(s)
  /\ InPhase("failed") /\ Searchable(At) =>
       \A s \in Cells[At] : Fits(s) => Overlooked(s)

\* A node that an allocation in progress has marked holds nothing yet.
Settled == Node \ (Releasing \union {call.node})

Holders(a) == {n \in Settled : node[n].arena = a}

(***************************************************************************)
(* runtime_block_allocator.cpp:105-113, 138-140: the map, the counter and   *)
(* the nodes tell the same: a cell is taken exactly if it lies in the run   *)
(* of a node that holds it, no two runs meet, and as many allocations are   *)
(* live as there are holders.  A node whose release is calling back holds   *)
(* nothing, though it still names its run and others may be given it; one   *)
(* that was marked for an arena which then refused it names none any more.  *)
(***************************************************************************)
OccupancyIsOwned ==
  \A a \in Arena :
    /\ \A n \in Holders(a) : node[n].blocks > 0 /\ Freed(n) \subseteq Cells[a]
    /\ \A i \in Cells[a] : cell[a][i] = 1 <=> \E n \in Holders(a) : i \in Freed(n)
    /\ \A m, n \in Holders(a) : m = n \/ Freed(m) \intersect Freed(n) = {}
    /\ live[a] = Cardinality(Holders(a))

Bytes(n) == node[n].blocks * BlockBytes[node[n].arena]
Bound == {n \in Settled : ~Vacant(n)}

(***************************************************************************)
(* runtime_block_allocator.cpp:80-86, 114-115: what a holder may write lies *)
(* behind the occupancy map of its arena and inside the arena's backing,    *)
(* and does not meet what another holder may write.                         *)
(***************************************************************************)
MemoryIsOwned ==
  /\ \A n \in Bound :
       LET b == Backing[node[n].arena]
       IN  /\ b.address + Capacity[node[n].arena] <= node[n].data
           /\ node[n].data + Bytes(n) <= b.address + b.bytes
  /\ \A m, n \in Bound :
       m = n \/ node[m].data + Bytes(m) <= node[n].data
             \/ node[n].data + Bytes(n) <= node[m].data

Block == UNION {{a} \X Cells[a] : a \in Arena}

Owner ==
  [b \in Block |->
     LET holders == {n \in Holders(b[1]) : b[2] \in Freed(n)}
     IN  IF holders = {} THEN None ELSE CHOOSE n \in holders : TRUE]

Runs ==
  {run \in SUBSET Block :
     /\ run # {}
     /\ \A b, c \in run : b[1] = c[1] /\ {b[1]} \X (b[2] .. c[2]) \subseteq run}

Store == INSTANCE BlockStore WITH
  Holder <- Node, Nobody <- None, Run <- Runs, owner <- Owner

\* Allocation, with its search, its fallback and its callbacks, is a block store.
RefinesBlockStore == Store!Spec
=============================================================================
