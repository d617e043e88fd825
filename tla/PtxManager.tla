----------------------------- MODULE PtxManager -----------------------------
(***************************************************************************)
(* The reconstructed texture manager: a table of counted resources, the    *)
(* pool of records their textures are made of, the map of the cells the    *)
(* records are placed in, and the context of palettes shared by records.   *)
(*                                                                         *)
(* Loading a resource and setting up the palette context go step by step,  *)
(* because they may fail at each step and undo different parts of what     *)
(* they did; nothing else runs meanwhile.  The parser, the finalizer and   *)
(* the memory of the palettes belong to others: they succeed or fail.      *)
(*                                                                         *)
(* A payload is the set of records it names.  A cell is one byte of the    *)
(* occupancy map, counted from the pool base; the limit is in cells too.   *)
(***************************************************************************)
EXTENDS Integers, FiniteSets, Sequences

CONSTANTS
  Keys,        \* resource keys other than zero
  NoKey,       \* the key zero
  NumSlots,    \* entries of the table
  NumRecords,  \* records of the pool
  Word,        \* 2^32
  MaxHolds,    \* bound of this model: acquisitions of a key not yet released
  Bundles,     \* contents of a resource, one list of textures each
  Limits,      \* upper ends of the map a reservation leaves
  Counts       \* positive sizes of a palette bank

Slots == 1 .. NumSlots
Records == 1 .. NumRecords
Null == 0
Bank == {"bank13", "bank14"}

\* A palette is absent, lies in a cell of its own, or is copied to a bank.
Texture == [levels : Nat, palette : {"none", "own"} \union Bank]

ASSUME PtxAssumption ==
  /\ NoKey \notin Keys
  /\ NumSlots \in Nat /\ NumRecords \in Nat
  /\ Word \in Nat /\ MaxHolds \in Nat /\ 1 < Word /\ MaxHolds < Word
  /\ Bundles \subseteq Seq(Texture)
  /\ Limits \subseteq Nat /\ Counts \subseteq Nat \ {0}

VARIABLES
  entry,      \* by slot: key, references and payload
  record,     \* by record: its state, first cell and number of cells
  occupied,   \* the cells marked in the map
  limit,      \* the cell a run found behind an occupied cell must start before
  bank,       \* by bank: its record, next and capacity, and whether it has memory
  job,        \* the load or set-up in progress
  holds,      \* history, by key: acquisitions since the keys were last reset
  forgotten,  \* history, by key: acquisitions from before, not yet released
  stray       \* history: did one of those release an entry made after the reset?

cache == <<entry, holds, forgotten, stray>>
pool == <<record, occupied>>
vars == <<entry, record, occupied, limit, bank, job, holds, forgotten, stray>>

Blank == [state |-> "free", at |-> 0, cells |-> 0]
Vacant == [key |-> NoKey, references |-> 0, payload |-> {}]
Bare == [record |-> Null, next |-> 0, capacity |-> 0, memory |-> FALSE]
Idle == [op |-> "idle"]

Init ==
  /\ entry = [s \in Slots |-> Vacant]
  /\ record = [r \in Records |-> Blank]
  /\ occupied = {}
  /\ limit = 0
  /\ bank = [b \in Bank |-> Bare]
  /\ job = Idle
  /\ holds = [k \in Keys |-> 0]
  /\ forgotten = [k \in Keys |-> 0]
  /\ stray = FALSE

-----------------------------------------------------------------------------
(* The pool. *)

Span(r) ==
  IF record[r].state = "placed"
  THEN record[r].at .. record[r].at + record[r].cells - 1
  ELSE {}

IsFirstFree(r) ==
  record[r].state = "free" /\ \A q \in Records : q < r => record[q].state # "free"

Exhausted == \A r \in Records : record[r].state # "free"

\* Two cells for each record reach no further than this before a run is free.
Cells == 0 .. 4 * NumRecords

\* Mutant of RunFree: the cell of the palette is not looked at.
ImageFree(c, n) == c \notin occupied

RunFree(c, n) == \A d \in c .. c + n - 1 : d \notin occupied

FirstFit(c, n) == RunFree(c, n) /\ \A d \in Cells : d < c => ~RunFree(d, n)

\* The limit is read while occupied cells are skipped, and at no other time.
BelowLimit(c) == c = 0 \/ c < limit

Place(r, c, n) ==
  /\ record' = [record EXCEPT ![r] = [state |-> "placed", at |-> c, cells |-> n]]
  /\ occupied' = occupied \union (c .. c + n - 1)

Reserve(r) ==
  /\ record' = [record EXCEPT ![r] = [state |-> "reserved", at |-> 0, cells |-> 0]]
  /\ UNCHANGED occupied

Free(R) ==
  /\ record' = [r \in Records |-> IF r \in R THEN Blank ELSE record[r]]
  /\ occupied' = occupied \ UNION {Span(r) : r \in R}

-----------------------------------------------------------------------------
(* Acquiring, up to the loader. *)

\* Mutant of Finds: the search ends at the first vacant entry.
FindsBeforeVacant(s, k) ==
  entry[s].key = k /\ \A t \in Slots : t < s => entry[t].key \notin {k, NoKey}

Finds(s, k) == entry[s].key = k /\ \A t \in Slots : t < s => entry[t].key # k

Found(k) == \E s \in Slots : Finds(s, k)

Held(k) == holds' = [holds EXCEPT ![k] = @ + 1]

Share(k) ==
  /\ job = Idle /\ holds[k] + forgotten[k] < MaxHolds
  /\ \E s \in Slots :
       /\ Finds(s, k)
       /\ entry' = [entry EXCEPT ![s].references = (@ + 1) % Word]
  /\ Held(k)
  /\ UNCHANGED <<record, occupied, limit, bank, job, forgotten, stray>>

StartLoad(k) ==
  /\ job = Idle /\ holds[k] + forgotten[k] < MaxHolds
  /\ ~Found(k) /\ Found(NoKey)
  /\ \E b \in Bundles :
       job' = [op |-> "load", key |-> k, todo |-> b, started |-> FALSE,
               width |-> 0, payload |-> {}, scratch |-> <<>>]
  /\ UNCHANGED <<cache, pool, limit, bank>>

-----------------------------------------------------------------------------
(* Loading: one texture after the other, one level after the other. *)

Loading == job.op = "load" /\ job.todo # <<>>
Level == Len(job.scratch)
Scratch == {job.scratch[j] : j \in 1 .. Len(job.scratch)}
Building == Loading /\ Level < Head(job.todo).levels
Palette == Head(job.todo).palette
UsesBank == Level = 0 /\ Palette \in Bank
CellsNeeded == IF Level = 0 /\ Palette = "own" THEN 2 ELSE 1

\* The loader releases the textures finished so far, and these only.
FailLoad(alsoFreed) ==
  /\ Free(job.payload \union alsoFreed)
  /\ job' = Idle

\* parse_texture fails, before the first level of the texture.
ParseFails ==
  /\ Loading /\ job.scratch = <<>>
  /\ FailLoad({})
  /\ UNCHANGED <<cache, limit, bank>>

RecordsExhausted ==
  /\ Building /\ Exhausted
  /\ FailLoad({})
  /\ UNCHANGED <<cache, limit, bank>>

\* Mutant of Refused: the last slot of a bank is given out twice.
RefusedLate(b) == bank[b].next > bank[b].capacity

Refused(b) == bank[b].next >= bank[b].capacity

\* The record just reserved stays reserved.
PaletteRefused ==
  /\ Building /\ UsesBank /\ Refused(Palette)
  /\ \E r \in Records :
       /\ IsFirstFree(r)
       /\ record' = [q \in Records |->
            IF q = r THEN [state |-> "reserved", at |-> 0, cells |-> 0]
            ELSE IF q \in job.payload THEN Blank ELSE record[q]]
  /\ occupied' = occupied \ UNION {Span(q) : q \in job.payload}
  /\ job' = Idle
  /\ UNCHANGED <<cache, limit, bank>>

\* A record of a shared palette takes the next slot of its bank for good.
PaletteTaken ==
  IF UsesBank
  THEN ~Refused(Palette) /\ bank' = [bank EXCEPT ![Palette].next = @ + 1]
  ELSE UNCHANGED bank

BuildLevel ==
  /\ Building /\ PaletteTaken
  /\ \E r \in Records, c \in Cells :
       /\ IsFirstFree(r) /\ FirstFit(c, CellsNeeded) /\ BelowLimit(c)
       /\ Place(r, c, CellsNeeded)
       /\ job' = [job EXCEPT !.scratch = Append(@, r)]
  /\ UNCHANGED <<cache, limit>>

\* Mutant of FreedScratch: this failure rolls back nothing either.
NoScratch == {}

FreedScratch == Scratch

PlacementFails ==
  /\ Building /\ PaletteTaken /\ ~Exhausted
  /\ \E c \in Cells : FirstFit(c, CellsNeeded) /\ ~BelowLimit(c)
  /\ FailLoad(FreedScratch)
  /\ UNCHANGED <<cache, limit>>

\* The first texture says how many records each of them contributes.
Width == IF job.started THEN job.width ELSE Level

FinishTexture ==
  /\ Loading /\ Level >= Head(job.todo).levels
  /\ job' = [job EXCEPT
       !.todo = Tail(@), !.started = TRUE, !.width = Width, !.scratch = <<>>,
       !.payload = @ \union {job.scratch[j] : j \in {i \in 1 .. Level : i <= Width}}]
  /\ UNCHANGED <<cache, pool, limit, bank>>

FinishLoad ==
  /\ job.op = "load" /\ job.todo = <<>>
  /\ \E s \in Slots :
       /\ Finds(s, NoKey)
       /\ entry' = [entry EXCEPT ![s] =
            [key |-> job.key, references |-> 1, payload |-> job.payload]]
  /\ Held(job.key)
  /\ job' = Idle
  /\ UNCHANGED <<record, occupied, limit, bank, forgotten, stray>>

FinalizerFails ==
  /\ job.op = "load" /\ job.todo = <<>>
  /\ job' = Idle
  /\ UNCHANGED <<cache, pool, limit, bank>>

-----------------------------------------------------------------------------
(* Releasing, and resetting the keys. *)

\* Mutant of LastReference: whoever releases takes the payload along.
AnyReference(s) == TRUE

LastReference(s) == (entry[s].references - 1) % Word = 0

Unloaded(s) == [entry[s] EXCEPT !.key = NoKey, !.references = 0, !.payload = {}]

ReleaseEntry(k) ==
  \/ /\ ~Found(k)
     /\ UNCHANGED <<entry, pool>>
  \/ \E s \in Slots :
       /\ Finds(s, k) /\ ~LastReference(s)
       /\ entry' = [entry EXCEPT ![s].references = (@ - 1) % Word]
       /\ UNCHANGED pool
  \/ \E s \in Slots :
       /\ Finds(s, k) /\ LastReference(s)
       /\ entry' = [entry EXCEPT ![s] = Unloaded(s)]
       /\ Free(entry[s].payload)

ReleaseHeld(k) ==
  /\ job = Idle /\ holds[k] > 0
  /\ ReleaseEntry(k)
  /\ holds' = [holds EXCEPT ![k] = @ - 1]
  /\ UNCHANGED <<limit, bank, job, forgotten, stray>>

\* A holder from before the reset releases a key it no longer owns.
ReleaseForgotten(k) ==
  /\ job = Idle /\ forgotten[k] > 0
  /\ ReleaseEntry(k)
  /\ forgotten' = [forgotten EXCEPT ![k] = @ - 1]
  /\ stray' = (stray \/ Found(k))
  /\ UNCHANGED <<limit, bank, job, holds>>

\* Keys and counts go, payloads, records and the map stay.
ConfigureReservation ==
  /\ job = Idle
  /\ limit' \in Limits
  /\ entry' = [s \in Slots |-> [entry[s] EXCEPT !.key = NoKey, !.references = 0]]
  /\ forgotten' = [k \in Keys |-> forgotten[k] + holds[k]]
  /\ holds' = [k \in Keys |-> 0]
  /\ UNCHANGED <<record, occupied, bank, job, stray>>

-----------------------------------------------------------------------------
(* The palette context: one record of one cell for each bank asked for. *)

StartSetUp ==
  /\ job = Idle
  /\ \E banks \in {<<"bank13">>, <<"bank14">>, <<"bank13", "bank14">>} :
       job' = [op |-> "setup", todo |-> banks]
  /\ UNCHANGED <<cache, pool, limit, bank>>

SettingUp == job.op = "setup" /\ job.todo # <<>>

SetUpEnds ==
  /\ \/ job.op = "setup" /\ job.todo = <<>>
     \/ SettingUp /\ Exhausted
  /\ job' = Idle
  /\ UNCHANGED <<cache, pool, limit, bank>>

\* The record stays reserved, and the context does not know of it.
BankUnplaced ==
  /\ SettingUp
  /\ \E r \in Records : IsFirstFree(r) /\ Reserve(r)
  /\ \E c \in Cells : FirstFit(c, 1) /\ ~BelowLimit(c)
  /\ job' = Idle
  /\ UNCHANGED <<cache, limit, bank>>

\* Memory is refused to a bank that has some, and may be refused to one that
\* has none; the record is the bank's all the same.
BankPlaced ==
  /\ SettingUp
  /\ \E r \in Records, c \in Cells, n \in Counts, granted \in BOOLEAN :
       LET b == Head(job.todo)
       IN  /\ IsFirstFree(r) /\ FirstFit(c, 1) /\ BelowLimit(c)
           /\ Place(r, c, 1)
           /\ granted => ~bank[b].memory
           /\ bank' = [bank EXCEPT ![b] =
                [record |-> r, next |-> 0, capacity |-> n,
                 memory |-> bank[b].memory \/ granted]]
           /\ job' = IF granted THEN [job EXCEPT !.todo = Tail(@)] ELSE Idle
  /\ UNCHANGED <<cache, limit>>

DestroyContext ==
  /\ job = Idle
  /\ Free({bank[b].record : b \in Bank} \ {Null})
  /\ bank' = [b \in Bank |-> Bare]
  /\ UNCHANGED <<cache, limit, job>>

-----------------------------------------------------------------------------
Next ==
  \/ \E k \in Keys : Share(k) \/ StartLoad(k) \/ ReleaseHeld(k) \/ ReleaseForgotten(k)
  \/ ParseFails \/ RecordsExhausted \/ PaletteRefused \/ BuildLevel \/ PlacementFails
  \/ FinishTexture \/ FinishLoad \/ FinalizerFails
  \/ ConfigureReservation
  \/ StartSetUp \/ SetUpEnds \/ BankUnplaced \/ BankPlaced \/ DestroyContext

Spec == Init /\ [][Next]_vars

-----------------------------------------------------------------------------
(* Properties. *)

Entry == [key : Keys \union {NoKey}, references : 0 .. Word - 1, payload : SUBSET Records]

Record == [state : {"free", "reserved", "placed"}, at : Nat, cells : 0 .. 2]

SetUpJob == [op : {"setup"}, todo : Seq(Bank)]

LoadJob ==
  [op : {"load"}, key : Keys, todo : Seq(Texture), started : BOOLEAN,
   width : Nat, payload : SUBSET Records, scratch : Seq(Records)]

\* Every variable has its type, and no bank gives out more slots than it has
\* (initialize_ptx_palette_context, prepare_ptx_palette).
TypeOK ==
  /\ entry \in [Slots -> Entry]
  /\ record \in [Records -> Record]
  /\ occupied \subseteq Nat /\ limit \in Nat
  /\ bank \in [Bank -> [record : Records \union {Null}, next : Nat, capacity : Nat,
                        memory : BOOLEAN]]
  /\ \A b \in Bank : bank[b].next <= bank[b].capacity
  /\ job \in {Idle} \union SetUpJob \union LoadJob
  /\ holds \in [Keys -> Nat] /\ forgotten \in [Keys -> Nat] /\ stray \in BOOLEAN

\* The occupancy map marks exactly the cells of the placed records, and no cell
\* belongs to two of them: releasing a record (release_ptx_record_spans) never
\* clears a cell another one lives in.
MapMatchesRecords ==
  /\ occupied = UNION {Span(r) : r \in Records}
  /\ \A q, r \in Records : q # r => Span(q) \intersect Span(r) = {}

Placed == {r \in Records : record[r].state = "placed"}

Owned(s) == IF entry[s].key = NoKey THEN {} ELSE entry[s].payload

BankRecords == {bank[b].record : b \in Bank} \ {Null}

InHand == IF job.op = "load" THEN job.payload \union Scratch ELSE {}

\* A record that an entry, a bank or the load in progress names is placed, and
\* named by one of them only: nothing is used after its release, and no release
\* takes a record away from another owner.  A bank with slots to give has the
\* record palettes are copied to, which prepare_ptx_palette reads unchecked
\* (acquire, release_ptx_payload, materialize_ptx_records, the palette context).
RecordsOwnedOnce ==
  /\ (UNION {Owned(s) : s \in Slots}) \union BankRecords \union InHand \subseteq Placed
  /\ \A s, t \in Slots : s # t => Owned(s) \intersect Owned(t) = {}
  /\ \A a, b \in Bank : a # b /\ bank[a].record = bank[b].record => bank[a].record = Null
  /\ \A s \in Slots : Owned(s) \intersect (BankRecords \union InHand) = {}
  /\ BankRecords \intersect InHand = {}
  /\ \A b \in Bank : bank[b].capacity > 0 => bank[b].record # Null

\* The pool is one whole: map, records and owners agree at every step of a load,
\* a placement or a set-up, and through each of their failures.
PoolIsConsistent == MapMatchesRecords /\ RecordsOwnedOnce

\* As long as no holder from before a reset released a key loaded again since,
\* a key is loaded exactly while somebody holds it, and counts its holders
\* (acquire, release_ptx, reset_ptx_keys).
HeldMeansLoaded ==
  ~stray => \A k \in Keys :
    IF holds[k] = 0 THEN ~Found(k)
    ELSE \E s \in Slots : Finds(s, k) /\ entry[s].references = holds[k]

Stranded ==
  {r \in Records : record[r].state # "free"}
    \ ((UNION {Owned(s) : s \in Slots}) \union BankRecords \union InHand)

\* BankPlaced, for a bank that has a record already.
SetUpTwice == BankPlaced /\ bank[Head(job.todo)].record # Null

\* A record nothing names any more is lost for good, and only these steps lose
\* one: the exits of the materializer without rollback, a texture of more
\* records than the first, a finalizer's refusal, a reset of the keys, and a
\* bank set up in vain or set up twice.  Refused placements and releases lose none.
OnlyNamedStepsStrand ==
  [][/\ Stranded \subseteq Stranded'
     /\ \/ Stranded' \subseteq Stranded
        \/ RecordsExhausted \/ PaletteRefused
        \/ FinishTexture /\ Level > Width
        \/ FinalizerFails \/ ConfigureReservation
        \/ BankUnplaced \/ SetUpTwice]_vars

\* The holders of a key, as the entry it is found in counts them.
Count(k) == IF Found(k) THEN entry[CHOOSE s \in Slots : Finds(s, k)].references ELSE 0

Counted ==
  INSTANCE RefCountedCache WITH Capacity <- NumSlots, count <- [k \in Keys |-> Count(k)]

\* The table implements the cache it stands for: keys are found wherever they
\* are, never loaded twice, and never evicted (acquire, release_ptx).
RefinesCache == Counted!Spec
=============================================================================
