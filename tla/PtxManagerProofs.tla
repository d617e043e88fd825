-------------------------- MODULE PtxManagerProofs --------------------------
(***************************************************************************)
(* Theorems about PtxManager for every table, pool, bundle and limit.      *)
(*                                                                         *)
(* Two facts about the pool carry the argument: placing a record on free   *)
(* cells, and emptying a set of records, both keep the map in step with    *)
(* the records and say which records are placed afterwards.  What remains  *)
(* of each action is who owns which record before and after it.            *)
(***************************************************************************)
EXTENDS PtxManager, FiniteSetTheorems, TLAPS

\* Placing a record on cells found free (place_ptx_record, mark_ptx_record_spans).
LEMMA PlacingKeepsMap ==
  ASSUME TypeOK, MapMatchesRecords,
         NEW r \in Records, NEW c \in Nat, NEW n \in {1, 2},
         record[r].state = "free", RunFree(c, n), Place(r, c, n)
  PROVE  /\ record' \in [Records -> Record] /\ occupied' \subseteq Nat
         /\ MapMatchesRecords'
         /\ Placed' = Placed \union {r}
<1>1. /\ record \in [Records -> Record] /\ occupied \subseteq Nat
      /\ record' = [record EXCEPT ![r] = [state |-> "placed", at |-> c, cells |-> n]]
      /\ occupied' = occupied \union (c .. c + n - 1)
  BY DEF TypeOK, Place
<1>2. record' \in [Records -> Record] /\ occupied' \subseteq Nat
  <2>1. [state |-> "placed", at |-> c, cells |-> n] \in Record
    BY DEF Record
  <2> QED
    BY <1>1, <2>1
<1>3. \A q \in Records : q # r => record'[q] = record[q]
  BY <1>1
<1>4. record'[r] = [state |-> "placed", at |-> c, cells |-> n]
  BY <1>1
<1>5. \A q \in Records : q # r => Span(q)' = Span(q)
  BY <1>3 DEF Span
<1>6. Span(r)' = c .. c + n - 1
  BY <1>4 DEF Span
<1>7. Span(r) = {}
  BY DEF Span
<1>8. occupied = UNION {Span(q) : q \in Records}
  BY DEF MapMatchesRecords
<1>9. occupied' = UNION {Span(q)' : q \in Records}
  BY <1>1, <1>5, <1>6, <1>7, <1>8
<1>10. \A q \in Records : q # r => Span(q)' \intersect Span(r)' = {}
  <2>1. \A d \in c .. c + n - 1 : d \notin occupied
    BY DEF RunFree
  <2> QED
    BY <2>1, <1>5, <1>6, <1>8
<1>11. \A p, q \in Records : p # q => Span(p)' \intersect Span(q)' = {}
  BY <1>5, <1>10 DEF MapMatchesRecords
<1>12. Placed' = Placed \union {r}
  BY <1>3, <1>4 DEF Placed
<1> QED
  BY <1>2, <1>9, <1>11, <1>12 DEF MapMatchesRecords

\* Taking some records off the map (release_ptx_record, and the exits that
\* leave a reserved record behind).
LEMMA EmptyingKeepsMap ==
  ASSUME TypeOK, MapMatchesRecords, NEW R \in SUBSET Records,
         record' \in [Records -> Record],
         \A q \in Records \ R : record'[q] = record[q],
         \A q \in R : record'[q].state # "placed",
         occupied' = occupied \ UNION {Span(q) : q \in R}
  PROVE  occupied' \subseteq Nat /\ MapMatchesRecords' /\ Placed' = Placed \ R
<1>1. \A q \in Records \ R : Span(q)' = Span(q)
  BY DEF Span
<1>2. \A q \in R : Span(q)' = {}
  BY DEF Span
<1>3. \A p, q \in Records : p # q => Span(p) \intersect Span(q) = {}
  BY DEF MapMatchesRecords
<1>4. occupied = UNION {Span(q) : q \in Records}
  BY DEF MapMatchesRecords
<1>5. occupied' = UNION {Span(q)' : q \in Records}
  <2>1. ASSUME NEW x \in occupied' PROVE x \in UNION {Span(q)' : q \in Records}
    <3>1. PICK q \in Records : x \in Span(q)
      BY <1>4, <2>1
    <3>2. q \notin R
      BY <2>1, <3>1
    <3> QED
      BY <1>1, <3>1, <3>2
  <2>2. ASSUME NEW q \in Records, NEW x \in Span(q)' PROVE x \in occupied'
    <3>1. q \notin R /\ x \in Span(q)
      BY <1>1, <1>2, <2>2
    <3>2. \A p \in R : x \notin Span(p)
      BY <1>3, <3>1
    <3> QED
      BY <1>4, <3>1, <3>2
  <2> QED
    BY <2>1, <2>2
<1>6. \A p, q \in Records : p # q => Span(p)' \intersect Span(q)' = {}
  BY <1>1, <1>2, <1>3
<1>7. Placed' = Placed \ R
  BY DEF Placed
<1>8. occupied' \subseteq Nat
  BY DEF TypeOK
<1> QED
  BY <1>5, <1>6, <1>7, <1>8 DEF MapMatchesRecords

\* The same for Free, which blanks the records.
LEMMA FreeingKeepsMap ==
  ASSUME TypeOK, MapMatchesRecords, NEW R \in SUBSET Records, Free(R)
  PROVE  /\ record' \in [Records -> Record] /\ occupied' \subseteq Nat
         /\ MapMatchesRecords'
         /\ Placed' = Placed \ R
<1>1. /\ record \in [Records -> Record]
      /\ record' = [q \in Records |-> IF q \in R THEN Blank ELSE record[q]]
      /\ occupied' = occupied \ UNION {Span(q) : q \in R}
  BY DEF TypeOK, Free
<1>2. Blank \in Record /\ Blank.state = "free"
  BY DEF Blank, Record
<1>3. record' \in [Records -> Record]
  BY <1>1, <1>2
<1>4. \A q \in Records \ R : record'[q] = record[q]
  BY <1>1
<1>5. \A q \in R : record'[q].state # "placed"
  BY <1>1, <1>2
<1> QED
  BY <1>1, <1>3, <1>4, <1>5, EmptyingKeepsMap

-----------------------------------------------------------------------------
PoolInv == TypeOK /\ MapMatchesRecords /\ RecordsOwnedOnce

LEMMA PoolUnchanged ==
  ASSUME MapMatchesRecords, UNCHANGED pool
  PROVE  MapMatchesRecords' /\ Placed' = Placed
<1>1. record' = record /\ occupied' = occupied
  BY DEF pool
<1>2. \A r \in Records : Span(r)' = Span(r)
  BY <1>1 DEF Span
<1> QED
  BY <1>1, <1>2 DEF MapMatchesRecords, Placed

\* A record is a record of the pool, which Null is not.
LEMMA RecordFacts ==
  ASSUME PoolInv
  PROVE  /\ Null \notin Records
         /\ Placed \subseteq Records
         /\ \A s \in Slots : Owned(s) \subseteq Placed
         /\ BankRecords \subseteq Placed /\ InHand \subseteq Placed
<1>1. Null \notin Records
  BY PtxAssumption DEF Null, Records
<1>2. (UNION {Owned(s) : s \in Slots}) \union BankRecords \union InHand \subseteq Placed
  BY DEF PoolInv, RecordsOwnedOnce
<1>3. ASSUME NEW s \in Slots PROVE Owned(s) \subseteq Placed
  BY <1>2
<1>4. BankRecords \subseteq Placed /\ InHand \subseteq Placed
  BY <1>2
<1> QED
  BY <1>1, <1>3, <1>4 DEF Placed

\* Owners that only lose records stay apart from each other.
LEMMA OwnersShrink ==
  ASSUME PoolInv,
         \A s \in Slots : Owned(s)' \subseteq Owned(s) /\ Owned(s)' \subseteq Placed',
         InHand' \subseteq InHand, InHand' \subseteq Placed',
         BankRecords' \subseteq Placed',
         \/ \A b \in Bank : bank'[b].record = bank[b].record
                         /\ (bank'[b].capacity > 0 => bank[b].capacity > 0)
         \/ bank' = [b \in Bank |-> Bare]
  PROVE  RecordsOwnedOnce'
<1>1. /\ BankRecords' \subseteq BankRecords
      /\ \A a, b \in Bank : a # b /\ bank'[a].record = bank'[b].record => bank'[a].record = Null
      /\ \A b \in Bank : bank'[b].capacity > 0 => bank'[b].record # Null
  <2>1. CASE bank' = [b \in Bank |-> Bare]
    BY <2>1 DEF BankRecords, Bare, Null
  <2>2. CASE \A b \in Bank : bank'[b].record = bank[b].record
                          /\ (bank'[b].capacity > 0 => bank[b].capacity > 0)
    BY <2>2 DEF BankRecords, PoolInv, RecordsOwnedOnce
  <2> QED
    BY <2>1, <2>2
<1>2. /\ \A s, t \in Slots : s # t => Owned(s) \intersect Owned(t) = {}
      /\ \A s \in Slots : Owned(s) \intersect (BankRecords \union InHand) = {}
      /\ BankRecords \intersect InHand = {}
  BY DEF PoolInv, RecordsOwnedOnce
<1>3. \A s, t \in Slots : s # t => Owned(s)' \intersect Owned(t)' = {}
  BY <1>2
<1>4. /\ \A s \in Slots : Owned(s)' \intersect (BankRecords' \union InHand') = {}
      /\ BankRecords' \intersect InHand' = {}
  BY <1>1, <1>2
<1>5. (UNION {Owned(s)' : s \in Slots}) \union BankRecords' \union InHand' \subseteq Placed'
  OBVIOUS
<1> QED
  BY <1>1, <1>3, <1>4, <1>5 DEF RecordsOwnedOnce

LEMMA PoolInit == Init => PoolInv
<1> SUFFICES ASSUME Init PROVE PoolInv
  OBVIOUS
<1>1. TypeOK
  <2>1. Vacant \in Entry
    BY PtxAssumption DEF Vacant, Entry
  <2>2. Blank \in Record
    BY DEF Blank, Record
  <2>3. /\ Bare \in [record : Records \union {Null}, next : Nat, capacity : Nat, memory : BOOLEAN]
        /\ Bare.next <= Bare.capacity
    BY DEF Bare
  <2> QED
    BY <2>1, <2>2, <2>3 DEF Init, TypeOK
<1>2. \A r \in Records : Span(r) = {}
  BY DEF Init, Span, Blank
<1>3. MapMatchesRecords
  BY <1>2 DEF Init, MapMatchesRecords
<1>4. /\ \A s \in Slots : Owned(s) = {}
      /\ BankRecords = {} /\ InHand = {}
  BY DEF Init, Owned, BankRecords, InHand, Vacant, Bare, Idle
<1>5. RecordsOwnedOnce
  BY <1>4 DEF RecordsOwnedOnce, Init, Bare
<1> QED
  BY <1>1, <1>3, <1>5 DEF PoolInv

\* Counting one more or one fewer holder.
LEMMA RecountKeepsPool ==
  ASSUME PoolInv, NEW s \in Slots, NEW n \in Int,
         entry' = [entry EXCEPT ![s].references = n % Word],
         UNCHANGED <<record, occupied, limit, bank, job>>,
         holds' \in [Keys -> Nat], forgotten' \in [Keys -> Nat], stray' \in BOOLEAN
  PROVE  PoolInv'
<1>1. n % Word \in 0 .. Word - 1
  BY PtxAssumption
<1>2. entry \in [Slots -> Entry]
  BY DEF PoolInv, TypeOK
<1>3. entry' \in [Slots -> Entry]
  BY <1>1, <1>2 DEF Entry
<1>4. \A t \in Slots : entry'[t].key = entry[t].key /\ entry'[t].payload = entry[t].payload
  BY <1>2 DEF Entry
<1>5. /\ \A t \in Slots : Owned(t)' = Owned(t)
      /\ BankRecords' = BankRecords /\ InHand' = InHand
  BY <1>4 DEF Owned, BankRecords, InHand, Scratch
<1>6. TypeOK'
  BY <1>3 DEF PoolInv, TypeOK
<1>7. MapMatchesRecords' /\ Placed' = Placed
  BY PoolUnchanged DEF PoolInv, pool
<1>8. RecordsOwnedOnce'
  BY <1>5, <1>7 DEF PoolInv, RecordsOwnedOnce
<1> QED
  BY <1>6, <1>7, <1>8 DEF PoolInv

LEMMA ShareKeepsPool ==
  ASSUME PoolInv, NEW k \in Keys, Share(k)
  PROVE  PoolInv'
<1>1. PICK s \in Slots : entry' = [entry EXCEPT ![s].references = (entry[s].references + 1) % Word]
  BY DEF Share
<1>2. entry[s].references + 1 \in Int
  BY DEF PoolInv, TypeOK, Entry
<1>3. /\ holds' \in [Keys -> Nat] /\ forgotten' \in [Keys -> Nat] /\ stray' \in BOOLEAN
      /\ UNCHANGED <<record, occupied, limit, bank, job>>
  BY DEF Share, Held, PoolInv, TypeOK
<1> QED
  BY <1>1, <1>2, <1>3, RecountKeepsPool

\* An entry whose payload is released.
LEMMA UnloadKeepsPool ==
  ASSUME PoolInv, job = Idle, NEW s \in Slots, entry[s].key # NoKey,
         entry' = [entry EXCEPT ![s] = Unloaded(s)], Free(entry[s].payload),
         UNCHANGED <<limit, bank, job>>,
         holds' \in [Keys -> Nat], forgotten' \in [Keys -> Nat], stray' \in BOOLEAN
  PROVE  PoolInv'
<1>1. entry \in [Slots -> Entry] /\ entry[s] \in Entry /\ entry[s].payload \in SUBSET Records
  BY DEF PoolInv, TypeOK, Entry
<1>2. entry' \in [Slots -> Entry]
  <2>1. Unloaded(s) \in Entry
    <3>1. /\ 0 \in 0 .. Word - 1 /\ {} \in SUBSET Records
      BY PtxAssumption
    <3> QED
      BY <1>1, <3>1 DEF Unloaded, Entry
  <2> QED
    BY <1>1, <2>1
<1>3. /\ record' \in [Records -> Record] /\ occupied' \subseteq Nat /\ MapMatchesRecords'
      /\ Placed' = Placed \ entry[s].payload
  BY <1>1, FreeingKeepsMap DEF PoolInv
<1>4. TypeOK'
  BY <1>2, <1>3 DEF PoolInv, TypeOK
<1>5. Owned(s) = entry[s].payload /\ InHand = {}
  BY DEF Owned, InHand, Idle
<1>6. /\ Owned(s)' = {}
      /\ \A t \in Slots : t # s => Owned(t)' = Owned(t)
      /\ BankRecords' = BankRecords /\ InHand' = {}
  BY <1>1 DEF Owned, Unloaded, BankRecords, InHand, Idle
<1>7. /\ \A t \in Slots : t # s => Owned(t) \subseteq Placed /\ Owned(t) \intersect Owned(s) = {}
      /\ BankRecords \subseteq Placed /\ BankRecords \intersect Owned(s) = {}
  BY RecordFacts DEF PoolInv, RecordsOwnedOnce
<1>8. RecordsOwnedOnce'
  BY <1>3, <1>5, <1>6, <1>7, OwnersShrink
<1> QED
  BY <1>3, <1>4, <1>8 DEF PoolInv

LEMMA ReleaseEntryKeepsPool ==
  ASSUME PoolInv, job = Idle, NEW k \in Keys, ReleaseEntry(k),
         UNCHANGED <<limit, bank, job>>,
         holds' \in [Keys -> Nat], forgotten' \in [Keys -> Nat], stray' \in BOOLEAN
  PROVE  PoolInv'
<1>1. CASE UNCHANGED <<entry, pool>>
  <2>1. MapMatchesRecords' /\ Placed' = Placed
    BY <1>1, PoolUnchanged DEF PoolInv
  <2>2. /\ \A t \in Slots : Owned(t)' = Owned(t)
        /\ BankRecords' = BankRecords /\ InHand' = InHand
    BY <1>1 DEF Owned, BankRecords, InHand, Scratch
  <2>3. RecordsOwnedOnce'
    BY <2>1, <2>2 DEF PoolInv, RecordsOwnedOnce
  <2>4. TypeOK'
    BY <1>1 DEF PoolInv, TypeOK, pool
  <2> QED
    BY <2>1, <2>3, <2>4 DEF PoolInv
<1>2. ASSUME NEW s \in Slots,
             entry' = [entry EXCEPT ![s].references = (entry[s].references - 1) % Word],
             UNCHANGED pool
      PROVE  PoolInv'
  <2>1. entry[s].references - 1 \in Int
    BY DEF PoolInv, TypeOK, Entry
  <2> QED
    BY <1>2, <2>1, RecountKeepsPool DEF pool
<1>3. ASSUME NEW s \in Slots, Finds(s, k),
             entry' = [entry EXCEPT ![s] = Unloaded(s)], Free(entry[s].payload)
      PROVE  PoolInv'
  <2>1. entry[s].key # NoKey
    BY <1>3, PtxAssumption DEF Finds
  <2> QED
    BY <1>3, <2>1, UnloadKeepsPool
<1> QED
  BY <1>1, <1>2, <1>3 DEF ReleaseEntry

LEMMA ReleaseKeepsPool ==
  ASSUME PoolInv, NEW k \in Keys, ReleaseHeld(k) \/ ReleaseForgotten(k)
  PROVE  PoolInv'
<1>1. holds' \in [Keys -> Nat] /\ forgotten' \in [Keys -> Nat] /\ stray' \in BOOLEAN
  <2>1. holds \in [Keys -> Nat] /\ forgotten \in [Keys -> Nat] /\ stray \in BOOLEAN
    BY DEF PoolInv, TypeOK
  <2>2. CASE ReleaseHeld(k)
    <3>1. holds[k] - 1 \in Nat
      BY <2>1, <2>2 DEF ReleaseHeld
    <3>2. holds' = [holds EXCEPT ![k] = holds[k] - 1] /\ UNCHANGED <<forgotten, stray>>
      BY <2>2 DEF ReleaseHeld
    <3> QED
      BY <2>1, <3>1, <3>2
  <2>3. CASE ReleaseForgotten(k)
    <3>1. forgotten[k] - 1 \in Nat
      BY <2>1, <2>3 DEF ReleaseForgotten
    <3>2. /\ forgotten' = [forgotten EXCEPT ![k] = forgotten[k] - 1]
          /\ UNCHANGED holds
          /\ stray' = (stray \/ Found(k))
      BY <2>3 DEF ReleaseForgotten
    <3>3. stray' \in BOOLEAN
      BY <2>1, <3>2
    <3> QED
      BY <2>1, <3>1, <3>2, <3>3
  <2> QED
    BY <2>2, <2>3
<1>2. job = Idle /\ ReleaseEntry(k) /\ UNCHANGED <<limit, bank, job>>
  BY DEF ReleaseHeld, ReleaseForgotten
<1> QED
  BY <1>1, <1>2, ReleaseEntryKeepsPool

-----------------------------------------------------------------------------
LEMMA LoadFacts ==
  ASSUME PoolInv, job.op = "load"
  PROVE  /\ job \in LoadJob
         /\ InHand = job.payload \union Scratch
         /\ job.payload \subseteq Placed /\ Scratch \subseteq Placed
<1>1. job \in LoadJob
  <2>1. job = Idle \/ job \in SetUpJob \/ job \in LoadJob
    BY DEF PoolInv, TypeOK
  <2>2. job # Idle
    BY DEF Idle
  <2>3. job \notin SetUpJob
    BY DEF SetUpJob
  <2> QED
    BY <2>1, <2>2, <2>3
<1>2. InHand = job.payload \union Scratch
  BY DEF InHand
<1> QED
  BY <1>1, <1>2, RecordFacts

LEMMA StartKeepsPool ==
  ASSUME PoolInv, (\E k \in Keys : StartLoad(k)) \/ StartSetUp
  PROVE  PoolInv'
<1>1. UNCHANGED <<cache, pool, limit, bank>> /\ job = Idle
  BY DEF StartLoad, StartSetUp
<1>2. job' \in {Idle} \union SetUpJob \union LoadJob /\ InHand' = {}
  <2>1. CASE \E k \in Keys : StartLoad(k)
    <3>1. PICK k \in Keys, b \in Bundles :
            job' = [op |-> "load", key |-> k, todo |-> b, started |-> FALSE,
                    width |-> 0, payload |-> {}, scratch |-> <<>>]
      BY <2>1 DEF StartLoad
    <3>2. b \in Seq(Texture)
      BY PtxAssumption
    <3>3. job' \in LoadJob
      BY <3>1, <3>2 DEF LoadJob
    <3>4. InHand' = {}
      BY <3>1 DEF InHand, Scratch
    <3> QED
      BY <3>3, <3>4
  <2>2. CASE StartSetUp
    <3>1. PICK banks \in {<<"bank13">>, <<"bank14">>, <<"bank13", "bank14">>} :
            job' = [op |-> "setup", todo |-> banks]
      BY <2>2 DEF StartSetUp
    <3>2. banks \in Seq(Bank)
      <4>1. "bank13" \in Bank /\ "bank14" \in Bank
        BY DEF Bank
      <4>2. /\ <<"bank13">> \in Seq(Bank) /\ <<"bank14">> \in Seq(Bank)
            /\ <<"bank13", "bank14">> \in Seq(Bank)
        BY <4>1
      <4> QED
        BY <3>1, <4>2
    <3>3. job' \in SetUpJob
      BY <3>1, <3>2 DEF SetUpJob
    <3>4. InHand' = {}
      BY <3>1 DEF InHand
    <3> QED
      BY <3>3, <3>4
  <2> QED
    BY <1>1, <2>1, <2>2
<1>3. MapMatchesRecords' /\ Placed' = Placed
  BY <1>1, PoolUnchanged DEF PoolInv
<1>4. TypeOK'
  BY <1>1, <1>2 DEF PoolInv, TypeOK, pool, cache
<1>5. (\A s \in Slots : Owned(s)' = Owned(s)) /\ BankRecords' = BankRecords
  BY <1>1 DEF Owned, BankRecords, cache
<1>6. RecordsOwnedOnce'
  BY <1>1, <1>2, <1>3, <1>5, RecordFacts, OwnersShrink
<1> QED
  BY <1>3, <1>4, <1>6 DEF PoolInv

\* A load or a set-up that ends here, giving back some of the records in hand
\* and perhaps leaving a reserved one behind.
LEMMA StopKeepsPool ==
  ASSUME PoolInv, NEW R \in SUBSET Records,
         R \intersect Placed \subseteq InHand,
         record' \in [Records -> Record], occupied' \subseteq Nat, MapMatchesRecords',
         Placed' = Placed \ R,
         job' = Idle, UNCHANGED <<cache, limit>>,
         \/ UNCHANGED bank
         \/ \E b \in Bank : ~Refused(b) /\ bank' = [bank EXCEPT ![b].next = @ + 1]
  PROVE  PoolInv'
<1> DEFINE BankState == [record : Records \union {Null}, next : Nat, capacity : Nat,
                         memory : BOOLEAN]
<1>1. /\ bank' \in [Bank -> BankState]
      /\ \A b \in Bank : bank'[b].next <= bank'[b].capacity
      /\ \A b \in Bank : bank'[b].record = bank[b].record /\ bank'[b].capacity = bank[b].capacity
  <2>1. bank \in [Bank -> BankState] /\ \A b \in Bank : bank[b].next <= bank[b].capacity
    BY DEF PoolInv, TypeOK
  <2>2. CASE UNCHANGED bank
    BY <2>1, <2>2
  <2>3. CASE \E b \in Bank : ~Refused(b) /\ bank' = [bank EXCEPT ![b].next = @ + 1]
    <3>1. PICK b \in Bank : ~Refused(b) /\ bank' = [bank EXCEPT ![b].next = bank[b].next + 1]
      BY <2>3
    <3>2. bank[b].next + 1 \in Nat /\ bank[b].next + 1 <= bank[b].capacity
      BY <2>1, <3>1 DEF Refused
    <3> QED
      BY <2>1, <3>1, <3>2
  <2> QED
    BY <2>2, <2>3
<1>2. TypeOK'
  BY <1>1 DEF PoolInv, TypeOK, cache
<1>3. (\A s \in Slots : Owned(s)' = Owned(s)) /\ BankRecords' = BankRecords /\ InHand' = {}
  BY <1>1 DEF Owned, BankRecords, cache, InHand, Idle
<1>4. /\ \A s \in Slots : Owned(s) \subseteq Placed /\ Owned(s) \intersect InHand = {}
      /\ BankRecords \subseteq Placed /\ BankRecords \intersect InHand = {}
  BY RecordFacts DEF PoolInv, RecordsOwnedOnce
<1>5. RecordsOwnedOnce'
  BY <1>1, <1>3, <1>4, OwnersShrink
<1> QED
  BY <1>2, <1>5 DEF PoolInv

LEMMA FailedLoadKeepsPool ==
  ASSUME PoolInv, ParseFails \/ RecordsExhausted \/ PlacementFails
  PROVE  PoolInv'
<1>1. job.op = "load" /\ job' = Idle /\ UNCHANGED <<cache, limit>>
  BY DEF ParseFails, RecordsExhausted, PlacementFails, Building, Loading, FailLoad
<1>2. PICK R \in {job.payload, job.payload \union Scratch} : Free(R)
  BY DEF ParseFails, RecordsExhausted, PlacementFails, FailLoad, FreedScratch
<1>3. R \in SUBSET Records /\ R \subseteq InHand
  BY <1>1, <1>2, LoadFacts, RecordFacts
<1>4. /\ record' \in [Records -> Record] /\ occupied' \subseteq Nat /\ MapMatchesRecords'
      /\ Placed' = Placed \ R
  BY <1>2, <1>3, FreeingKeepsMap DEF PoolInv
<1>5. \/ UNCHANGED bank
      \/ \E b \in Bank : ~Refused(b) /\ bank' = [bank EXCEPT ![b].next = @ + 1]
  BY DEF ParseFails, RecordsExhausted, PlacementFails, PaletteTaken, UsesBank
<1> QED
  BY <1>1, <1>3, <1>4, <1>5, StopKeepsPool

LEMMA PaletteRefusedKeepsPool ==
  ASSUME PoolInv, PaletteRefused
  PROVE  PoolInv'
<1>1. job.op = "load" /\ job' = Idle /\ UNCHANGED <<cache, limit, bank>>
  BY DEF PaletteRefused, Building, Loading
<1>2. PICK r \in Records :
        /\ IsFirstFree(r)
        /\ record' = [q \in Records |->
             IF q = r THEN [state |-> "reserved", at |-> 0, cells |-> 0]
             ELSE IF q \in job.payload THEN Blank ELSE record[q]]
        /\ occupied' = occupied \ UNION {Span(q) : q \in job.payload}
  BY DEF PaletteRefused
<1> DEFINE R == job.payload \union {r}
<1>3. /\ R \in SUBSET Records /\ R \intersect Placed \subseteq InHand
      /\ Span(r) = {}
  BY <1>1, <1>2, LoadFacts, RecordFacts DEF IsFirstFree, Span, Placed
<1>4. /\ [state |-> "reserved", at |-> 0, cells |-> 0] \in Record
      /\ Blank \in Record /\ Blank.state # "placed"
  BY DEF Record, Blank
<1>5. record' \in [Records -> Record]
  BY <1>2, <1>4 DEF PoolInv, TypeOK
<1>6. \A q \in Records \ R : record'[q] = record[q]
  BY <1>2
<1>7. \A q \in R : record'[q].state # "placed"
  BY <1>2, <1>3, <1>4
<1>8. occupied' = occupied \ UNION {Span(q) : q \in R}
  BY <1>2, <1>3
<1>9. occupied' \subseteq Nat /\ MapMatchesRecords' /\ Placed' = Placed \ R
  BY <1>3, <1>5, <1>6, <1>7, <1>8, EmptyingKeepsMap DEF PoolInv
<1> HIDE DEF R
<1> QED
  BY <1>1, <1>3, <1>5, <1>9, StopKeepsPool

\* The finalizer refuses, or a set-up ends without a record more.
LEMMA QuietStopKeepsPool ==
  ASSUME PoolInv, FinalizerFails \/ SetUpEnds
  PROVE  PoolInv'
<1>1. job' = Idle /\ UNCHANGED <<cache, pool, limit, bank>>
  BY DEF FinalizerFails, SetUpEnds
<1>2. MapMatchesRecords' /\ Placed' = Placed \ {}
  BY <1>1, PoolUnchanged DEF PoolInv
<1>3. record' \in [Records -> Record] /\ occupied' \subseteq Nat
  BY <1>1 DEF PoolInv, TypeOK, pool
<1>4. {} \in SUBSET Records /\ {} \intersect Placed \subseteq InHand
  OBVIOUS
<1>5. UNCHANGED <<cache, limit>> /\ UNCHANGED bank
  BY <1>1
<1> QED
  BY <1>1, <1>2, <1>3, <1>4, <1>5, StopKeepsPool

LEMMA BankUnplacedKeepsPool ==
  ASSUME PoolInv, BankUnplaced
  PROVE  PoolInv'
<1>1. job' = Idle /\ UNCHANGED <<cache, limit, bank>>
  BY DEF BankUnplaced
<1>2. PICK r \in Records : IsFirstFree(r) /\ Reserve(r)
  BY DEF BankUnplaced
<1>3. [state |-> "reserved", at |-> 0, cells |-> 0] \in Record
  BY DEF Record
<1>4. record \in [Records -> Record]
  BY DEF PoolInv, TypeOK
<1>5. /\ record' \in [Records -> Record]
      /\ \A q \in Records \ {r} : record'[q] = record[q]
      /\ \A q \in {r} : record'[q].state # "placed"
      /\ occupied' = occupied
  BY <1>2, <1>3, <1>4 DEF Reserve
<1>6. Span(r) = {} /\ r \notin Placed
  BY <1>2 DEF IsFirstFree, Span, Placed
<1>7. occupied' = occupied \ UNION {Span(q) : q \in {r}}
  BY <1>5, <1>6
<1>8. occupied' \subseteq Nat /\ MapMatchesRecords' /\ Placed' = Placed \ {r}
  BY <1>5, <1>7, EmptyingKeepsMap DEF PoolInv
<1> QED
  BY <1>1, <1>5, <1>6, <1>8, StopKeepsPool

\* Where a run is found, it is a run of one or two natural cells.
LEMMA RunFacts ==
  /\ CellsNeeded \in {1, 2}
  /\ Cells \subseteq Nat
BY PtxAssumption DEF CellsNeeded, Cells

LEMMA BuildLevelKeepsPool ==
  ASSUME PoolInv, BuildLevel
  PROVE  PoolInv'
<1> DEFINE BankState == [record : Records \union {Null}, next : Nat, capacity : Nat,
                         memory : BOOLEAN]
<1>1. PICK r \in Records, c \in Cells :
        /\ IsFirstFree(r) /\ FirstFit(c, CellsNeeded)
        /\ Place(r, c, CellsNeeded)
        /\ job' = [job EXCEPT !.scratch = Append(job.scratch, r)]
  BY DEF BuildLevel
<1>2. job.op = "load" /\ UNCHANGED <<cache, limit>>
  BY DEF BuildLevel, Building, Loading
<1>3. /\ record' \in [Records -> Record] /\ occupied' \subseteq Nat
      /\ MapMatchesRecords' /\ Placed' = Placed \union {r}
  BY <1>1, RunFacts, PlacingKeepsMap DEF PoolInv, IsFirstFree, FirstFit
<1>4. r \notin Placed
  BY <1>1 DEF IsFirstFree, Placed
<1>5. /\ bank' \in [Bank -> BankState]
      /\ \A b \in Bank : bank'[b].next <= bank'[b].capacity
      /\ \A b \in Bank : bank'[b].record = bank[b].record /\ bank'[b].capacity = bank[b].capacity
  <2>1. bank \in [Bank -> BankState] /\ \A b \in Bank : bank[b].next <= bank[b].capacity
    BY DEF PoolInv, TypeOK
  <2>2. CASE UNCHANGED bank
    BY <2>1, <2>2
  <2>3. CASE UsesBank
    <3>1. /\ Palette \in Bank /\ ~Refused(Palette)
          /\ bank' = [bank EXCEPT ![Palette].next = bank[Palette].next + 1]
      BY <2>3 DEF BuildLevel, PaletteTaken, UsesBank
    <3>2. bank[Palette].next + 1 \in Nat /\ bank[Palette].next + 1 <= bank[Palette].capacity
      BY <2>1, <3>1 DEF Refused
    <3> HIDE DEF BankState
    <3>3. \A b \in Bank : b # Palette => bank'[b] = bank[b]
      BY <2>1, <3>1
    <3>4. bank'[Palette] = [bank[Palette] EXCEPT !.next = bank[Palette].next + 1]
      BY <2>1, <3>1
    <3> QED
      BY <2>1, <3>1, <3>2, <3>3, <3>4 DEF BankState
  <2> QED
    BY <2>2, <2>3 DEF BuildLevel, PaletteTaken
<1>6. /\ job \in LoadJob /\ job' \in LoadJob
      /\ job'.payload = job.payload /\ Scratch' = Scratch \union {r}
  <2>1. job \in LoadJob
    BY <1>2, LoadFacts
  <2>2. job.scratch \in Seq(Records)
    BY <2>1 DEF LoadJob
  <2>3. /\ Append(job.scratch, r) \in Seq(Records)
        /\ Len(Append(job.scratch, r)) = Len(job.scratch) + 1
        /\ \A j \in 1 .. Len(job.scratch) : Append(job.scratch, r)[j] = job.scratch[j]
        /\ Append(job.scratch, r)[Len(job.scratch) + 1] = r
    BY <2>2
  <2>4. job'.scratch = Append(job.scratch, r) /\ job'.payload = job.payload
    BY <1>1, <2>1 DEF LoadJob
  <2>5. job' \in LoadJob
    BY <1>1, <2>1, <2>3 DEF LoadJob
  <2>6. Len(job.scratch) \in Nat
    BY <2>2
  <2>7. Scratch' = Scratch \union {r}
    BY <2>3, <2>4, <2>6 DEF Scratch
  <2> QED
    BY <2>1, <2>4, <2>5, <2>7
<1>7. TypeOK'
  BY <1>2, <1>3, <1>5, <1>6 DEF PoolInv, TypeOK, cache
<1>8. InHand' = InHand \union {r}
  <2>1. job'.op = "load"
    BY <1>6 DEF LoadJob
  <2> QED
    BY <1>2, <1>6, <2>1 DEF InHand
<1>9. (\A s \in Slots : Owned(s)' = Owned(s)) /\ BankRecords' = BankRecords
  BY <1>2, <1>5 DEF Owned, BankRecords, cache
<1>10. RecordsOwnedOnce'
  BY <1>3, <1>4, <1>5, <1>8, <1>9, RecordFacts DEF PoolInv, RecordsOwnedOnce
<1> QED
  BY <1>3, <1>7, <1>10 DEF PoolInv

LEMMA FinishTextureKeepsPool ==
  ASSUME PoolInv, FinishTexture
  PROVE  PoolInv'
<1>1. /\ job.op = "load" /\ job.todo # <<>> /\ UNCHANGED <<cache, pool, limit, bank>>
      /\ job' = [job EXCEPT
           !.todo = Tail(job.todo), !.started = TRUE, !.width = Width, !.scratch = <<>>,
           !.payload = job.payload
             \union {job.scratch[j] : j \in {i \in 1 .. Level : i <= Width}}]
  BY DEF FinishTexture, Loading
<1>2. job \in LoadJob
  BY <1>1, LoadFacts
<1> DEFINE Kept == {job.scratch[j] : j \in {i \in 1 .. Level : i <= Width}}
<1>3. Kept \subseteq Scratch
  BY DEF Scratch, Level
<1>4. Tail(job.todo) \in Seq(Texture) /\ Width \in Nat
  <2>1. job.todo \in Seq(Texture) /\ job.width \in Nat /\ job.scratch \in Seq(Records)
    BY <1>2 DEF LoadJob
  <2> QED
    BY <1>1, <2>1 DEF Width, Level
<1>5. job.payload \union Kept \in SUBSET Records
  BY <1>1, <1>3, LoadFacts, RecordFacts
<1> HIDE DEF Kept
<1>6. /\ job' \in LoadJob /\ job'.op = "load"
      /\ job'.payload = job.payload \union Kept /\ job'.scratch = <<>>
  <2>1. job' = [job EXCEPT !.todo = Tail(job.todo), !.started = TRUE, !.width = Width,
                  !.scratch = <<>>, !.payload = job.payload \union Kept]
    BY <1>1 DEF Kept
  <2>2. <<>> \in Seq(Records)
    OBVIOUS
  <2> QED
    BY <1>2, <1>4, <1>5, <2>1, <2>2 DEF LoadJob
<1>7. InHand' \subseteq InHand
  <2>1. Scratch' = {}
    BY <1>6 DEF Scratch
  <2> QED
    BY <1>1, <1>3, <1>6, <2>1 DEF InHand
<1>8. MapMatchesRecords' /\ Placed' = Placed
  BY <1>1, PoolUnchanged DEF PoolInv
<1>9. TypeOK'
  BY <1>1, <1>6 DEF PoolInv, TypeOK, pool, cache
<1>10. (\A s \in Slots : Owned(s)' = Owned(s)) /\ BankRecords' = BankRecords
  BY <1>1 DEF Owned, BankRecords, cache
<1>11. RecordsOwnedOnce'
  BY <1>1, <1>7, <1>8, <1>10, RecordFacts, OwnersShrink
<1> QED
  BY <1>8, <1>9, <1>11 DEF PoolInv

LEMMA FinishLoadKeepsPool ==
  ASSUME PoolInv, FinishLoad
  PROVE  PoolInv'
<1>1. PICK s \in Slots :
        /\ Finds(s, NoKey)
        /\ entry' = [entry EXCEPT ![s] =
             [key |-> job.key, references |-> 1, payload |-> job.payload]]
  BY DEF FinishLoad
<1>2. /\ job.op = "load" /\ Held(job.key) /\ job' = Idle
      /\ UNCHANGED <<record, occupied, limit, bank, forgotten, stray>>
  BY DEF FinishLoad
<1>3. job \in LoadJob /\ job.key \in Keys /\ job.payload \in SUBSET Records
  BY <1>2, LoadFacts DEF LoadJob
<1>4. [key |-> job.key, references |-> 1, payload |-> job.payload] \in Entry
  <2>1. 1 \in 0 .. Word - 1
    BY PtxAssumption
  <2> QED
    BY <1>3, <2>1 DEF Entry
<1>5. entry \in [Slots -> Entry]
  BY DEF PoolInv, TypeOK
<1>6. holds' \in [Keys -> Nat]
  <2>1. holds \in [Keys -> Nat] /\ holds[job.key] + 1 \in Nat
    BY <1>3 DEF PoolInv, TypeOK
  <2> QED
    BY <1>2, <2>1 DEF Held
<1>7. TypeOK'
  BY <1>1, <1>2, <1>4, <1>5, <1>6 DEF PoolInv, TypeOK
<1>8. MapMatchesRecords' /\ Placed' = Placed
  BY <1>2, PoolUnchanged DEF PoolInv, pool
<1>9. /\ Owned(s)' = job.payload /\ Owned(s) = {}
      /\ \A t \in Slots : t # s => Owned(t)' = Owned(t)
      /\ BankRecords' = BankRecords /\ InHand' = {}
  <2>1. entry'[s].key # NoKey /\ entry[s].key = NoKey
    BY <1>1, <1>3, <1>5, PtxAssumption DEF Finds
  <2>2. entry'[s].payload = job.payload /\ \A t \in Slots : t # s => entry'[t] = entry[t]
    BY <1>1, <1>5
  <2> QED
    BY <1>2, <2>1, <2>2 DEF Owned, BankRecords, InHand, Idle
<1>10. job.payload \subseteq InHand
  BY <1>2 DEF InHand
<1>11. RecordsOwnedOnce'
  BY <1>2, <1>8, <1>9, <1>10, RecordFacts DEF PoolInv, RecordsOwnedOnce
<1> QED
  BY <1>7, <1>8, <1>11 DEF PoolInv

LEMMA ConfigureKeepsPool ==
  ASSUME PoolInv, ConfigureReservation
  PROVE  PoolInv'
<1>1. /\ job = Idle /\ limit' \in Limits
      /\ entry' = [s \in Slots |-> [entry[s] EXCEPT !.key = NoKey, !.references = 0]]
      /\ forgotten' = [k \in Keys |-> forgotten[k] + holds[k]]
      /\ holds' = [k \in Keys |-> 0]
      /\ UNCHANGED <<record, occupied, bank, job, stray>>
  BY DEF ConfigureReservation
<1>2. entry' \in [Slots -> Entry]
  <2>1. ASSUME NEW s \in Slots PROVE [entry[s] EXCEPT !.key = NoKey, !.references = 0] \in Entry
    <3>1. entry[s] \in Entry /\ 0 \in 0 .. Word - 1
      BY PtxAssumption DEF PoolInv, TypeOK
    <3> QED
      BY <3>1 DEF Entry
  <2> QED
    BY <1>1, <2>1
<1>3. forgotten' \in [Keys -> Nat] /\ holds' \in [Keys -> Nat]
  <2>1. \A k \in Keys : forgotten[k] + holds[k] \in Nat
    BY DEF PoolInv, TypeOK
  <2> QED
    BY <1>1, <2>1
<1>4. TypeOK'
  BY <1>1, <1>2, <1>3, PtxAssumption DEF PoolInv, TypeOK
<1>5. MapMatchesRecords' /\ Placed' = Placed
  BY <1>1, PoolUnchanged DEF PoolInv, pool
<1>6. ASSUME NEW s \in Slots PROVE Owned(s)' = {}
  <2>1. entry'[s].key = NoKey
    <3>1. entry[s] \in Entry
      BY DEF PoolInv, TypeOK
    <3> QED
      BY <1>1, <3>1 DEF Entry
  <2> QED
    BY <2>1 DEF Owned
<1>7. BankRecords' = BankRecords /\ InHand' = InHand
  BY <1>1 DEF BankRecords, InHand, Scratch
<1>8. RecordsOwnedOnce'
  BY <1>1, <1>5, <1>6, <1>7, RecordFacts, OwnersShrink
<1> QED
  BY <1>4, <1>5, <1>8 DEF PoolInv

LEMMA DestroyContextKeepsPool ==
  ASSUME PoolInv, DestroyContext
  PROVE  PoolInv'
<1>1. /\ job = Idle /\ Free(BankRecords)
      /\ bank' = [b \in Bank |-> Bare]
      /\ UNCHANGED <<cache, limit, job>>
  BY DEF DestroyContext, BankRecords
<1>2. BankRecords \in SUBSET Records
  BY RecordFacts
<1>3. /\ record' \in [Records -> Record] /\ occupied' \subseteq Nat
      /\ MapMatchesRecords' /\ Placed' = Placed \ BankRecords
  BY <1>1, <1>2, FreeingKeepsMap DEF PoolInv
<1>4. /\ Bare \in [record : Records \union {Null}, next : Nat, capacity : Nat, memory : BOOLEAN]
      /\ Bare.next <= Bare.capacity
  BY DEF Bare
<1>5. TypeOK'
  BY <1>1, <1>3, <1>4 DEF PoolInv, TypeOK, cache
<1>6. /\ \A s \in Slots : Owned(s)' = Owned(s)
      /\ BankRecords' = {} /\ InHand' = {} /\ InHand = {}
  BY <1>1 DEF Owned, BankRecords, Bare, InHand, Idle, cache
<1>7. \A s \in Slots : Owned(s) \subseteq Placed /\ Owned(s) \intersect BankRecords = {}
  BY RecordFacts DEF PoolInv, RecordsOwnedOnce
<1>8. RecordsOwnedOnce'
  BY <1>1, <1>3, <1>6, <1>7, OwnersShrink
<1> QED
  BY <1>3, <1>5, <1>8 DEF PoolInv

LEMMA BankPlacedKeepsPool ==
  ASSUME PoolInv, BankPlaced
  PROVE  PoolInv'
<1> DEFINE BankState == [record : Records \union {Null}, next : Nat, capacity : Nat,
                         memory : BOOLEAN]
           b == Head(job.todo)
<1>1. PICK r \in Records, c \in Cells, n \in Counts, granted \in BOOLEAN :
        /\ IsFirstFree(r) /\ FirstFit(c, 1)
        /\ Place(r, c, 1)
        /\ bank' = [bank EXCEPT ![b] =
             [record |-> r, next |-> 0, capacity |-> n, memory |-> bank[b].memory \/ granted]]
        /\ job' = IF granted THEN [job EXCEPT !.todo = Tail(job.todo)] ELSE Idle
  BY DEF BankPlaced
<1>2. job.op = "setup" /\ job.todo # <<>> /\ UNCHANGED <<cache, limit>>
  BY DEF BankPlaced, SettingUp
<1>3. job \in SetUpJob
  <2>1. job = Idle \/ job \in SetUpJob \/ job \in LoadJob
    BY DEF PoolInv, TypeOK
  <2>2. job # Idle
    BY <1>2 DEF Idle
  <2>3. job \notin LoadJob
    BY <1>2 DEF LoadJob
  <2> QED
    BY <2>1, <2>2, <2>3
<1>4. b \in Bank /\ Tail(job.todo) \in Seq(Bank)
  <2>1. job.todo \in Seq(Bank)
    BY <1>3 DEF SetUpJob
  <2> QED
    BY <1>2, <2>1
<1>5. job' = Idle \/ job' \in SetUpJob
  BY <1>1, <1>3, <1>4 DEF SetUpJob
<1> HIDE DEF b
<1>6. /\ record' \in [Records -> Record] /\ occupied' \subseteq Nat
      /\ MapMatchesRecords' /\ Placed' = Placed \union {r}
  BY <1>1, RunFacts, PlacingKeepsMap DEF PoolInv, IsFirstFree, FirstFit
<1>7. /\ bank \in [Bank -> BankState] /\ \A a \in Bank : bank[a].next <= bank[a].capacity
      /\ n \in Nat /\ 0 <= n
  BY PtxAssumption DEF PoolInv, TypeOK
<1>8. [record |-> r, next |-> 0, capacity |-> n, memory |-> bank[b].memory \/ granted] \in BankState
  <2>1. (bank[b].memory \/ granted) \in BOOLEAN
    OBVIOUS
  <2> QED
    BY <1>7, <2>1
<1>9. /\ bank' \in [Bank -> BankState]
      /\ bank'[b].record = r /\ bank'[b].next = 0 /\ bank'[b].capacity = n
      /\ \A a \in Bank : a # b => bank'[a] = bank[a]
  <2> HIDE DEF BankState
  <2> QED
    BY <1>1, <1>4, <1>7, <1>8
<1>10. TypeOK'
  BY <1>2, <1>5, <1>6, <1>7, <1>9 DEF PoolInv, TypeOK, cache
<1>11. /\ \A s \in Slots : Owned(s)' = Owned(s)
       /\ InHand = {} /\ InHand' = {}
       /\ BankRecords' \subseteq BankRecords \union {r}
  <2>1. InHand' = {}
    BY <1>5 DEF InHand, Idle, SetUpJob
  <2>2. InHand = {}
    BY <1>2 DEF InHand
  <2>3. BankRecords' \subseteq BankRecords \union {r}
    BY <1>9 DEF BankRecords
  <2> QED
    BY <1>2, <2>1, <2>2, <2>3 DEF Owned, cache
<1>12. r \notin Placed /\ r # Null
  BY <1>1, RecordFacts DEF IsFirstFree, Placed
<1>13. \A a \in Bank : bank[a].record # r
  BY <1>12, RecordFacts DEF BankRecords
<1>14. RecordsOwnedOnce'
  <2>1. (UNION {Owned(s)' : s \in Slots}) \union BankRecords' \union InHand' \subseteq Placed'
    BY <1>6, <1>11, RecordFacts
  <2>2. \A s, t \in Slots : s # t => Owned(s)' \intersect Owned(t)' = {}
    BY <1>11 DEF PoolInv, RecordsOwnedOnce
  <2>3. \A a, d \in Bank : a # d /\ bank'[a].record = bank'[d].record => bank'[a].record = Null
    BY <1>9, <1>13 DEF PoolInv, RecordsOwnedOnce
  <2>4. \A s \in Slots : Owned(s)' \intersect (BankRecords' \union InHand') = {}
    BY <1>11, <1>12, RecordFacts DEF PoolInv, RecordsOwnedOnce
  <2>5. \A a \in Bank : bank'[a].capacity > 0 => bank'[a].record # Null
    BY <1>9, <1>12 DEF PoolInv, RecordsOwnedOnce
  <2> QED
    BY <1>11, <2>1, <2>2, <2>3, <2>4, <2>5 DEF RecordsOwnedOnce
<1> QED
  BY <1>6, <1>10, <1>14 DEF PoolInv

LEMMA PoolStep ==
  ASSUME PoolInv, [Next]_vars
  PROVE  PoolInv'
<1>1. CASE Next
  BY <1>1, ShareKeepsPool, StartKeepsPool, ReleaseKeepsPool, FailedLoadKeepsPool,
     PaletteRefusedKeepsPool, BuildLevelKeepsPool, FinishTextureKeepsPool,
     FinishLoadKeepsPool, QuietStopKeepsPool, ConfigureKeepsPool,
     BankUnplacedKeepsPool, BankPlacedKeepsPool, DestroyContextKeepsPool
  DEF Next
<1>2. CASE UNCHANGED vars
  <2>1. MapMatchesRecords' /\ Placed' = Placed
    BY <1>2, PoolUnchanged DEF PoolInv, vars, pool
  <2>2. /\ \A s \in Slots : Owned(s)' = Owned(s)
        /\ BankRecords' = BankRecords /\ InHand' = InHand
    BY <1>2 DEF Owned, BankRecords, InHand, Scratch, vars
  <2>3. RecordsOwnedOnce'
    BY <1>2, <2>1, <2>2 DEF PoolInv, RecordsOwnedOnce, vars
  <2>4. TypeOK'
    BY <1>2 DEF PoolInv, TypeOK, vars
  <2> QED
    BY <2>1, <2>3, <2>4 DEF PoolInv
<1> QED
  BY <1>1, <1>2

\* The type invariant of the manager, for every table, pool and bundle
\* (ptx_manager_state.cpp, ptx_payload_state.cpp, ptx_palette_lifecycle.cpp).
THEOREM TypeCorrect == Spec => []TypeOK
<1>1. PoolInv => TypeOK
  BY DEF PoolInv
<1> QED
  BY PoolInit, PoolStep, <1>1, PTL DEF Spec

\* The map marks the cells of the placed records, each cell for one of them, and
\* no record has two owners or is named after its release
\* (mark_ptx_record_spans, release_ptx_record_spans, acquire, release_ptx_payload,
\* materialize_ptx_records).
THEOREM PoolStaysConsistent == Spec => []PoolIsConsistent
<1>1. PoolInv => PoolIsConsistent
  BY DEF PoolInv, PoolIsConsistent
<1> QED
  BY PoolInit, PoolStep, <1>1, PTL DEF Spec

-----------------------------------------------------------------------------
(* The records nothing names any more. *)

InUse == {r \in Records : record[r].state # "free"}

Named == (UNION {Owned(s) : s \in Slots}) \union BankRecords \union InHand

\* A step strands no record and gives none back that was stranded.
StrandsNone == Stranded \subseteq Stranded' /\ Stranded' \subseteq Stranded

\* A load that has no texture left holds no record of a texture.
BetweenTextures == job.op = "load" /\ job.todo = <<>> => job.scratch = <<>>

\* A step that gives back named records only, and takes free ones.
LEMMA StrandedStay ==
  ASSUME InUse \ Named \subseteq InUse', Named' \intersect InUse \subseteq Named
  PROVE  Stranded \subseteq Stranded'
<1>1. Stranded = InUse \ Named /\ Stranded' = InUse' \ Named'
  BY DEF Stranded, InUse, Named
<1> QED
  BY <1>1

\* If all it keeps and takes is named afterwards, a step strands none.
LEMMA NoneMoved ==
  ASSUME InUse' = InUse, Named' = Named
  PROVE  StrandsNone
BY DEF Stranded, InUse, Named, StrandsNone

LEMMA NamedGivenBack ==
  ASSUME NEW R, InUse' = InUse \ R,
         R \subseteq Named, Named \ R \subseteq Named', Named' \subseteq Named
  PROVE  StrandsNone
<1>1. Stranded = InUse \ Named /\ Stranded' = InUse' \ Named'
  BY DEF Stranded, InUse, Named
<1> QED
  BY <1>1 DEF StrandsNone

LEMMA TakenIsNamed ==
  ASSUME NEW r, r \notin InUse, InUse' = InUse \union {r}, Named' = Named \union {r}
  PROVE  StrandsNone
<1>1. Stranded = InUse \ Named /\ Stranded' = InUse' \ Named'
  BY DEF Stranded, InUse, Named
<1> QED
  BY <1>1 DEF StrandsNone

\* What the operations of the pool do to the records in use.
LEMMA RecordsInUse ==
  ASSUME TypeOK
  PROVE  /\ UNCHANGED record => InUse' = InUse
         /\ \A R \in SUBSET Records : Free(R) => InUse' = InUse \ R
         /\ \A r \in Records, c, n \in Nat : Place(r, c, n) => InUse' = InUse \union {r}
         /\ \A r \in Records : Reserve(r) => InUse' = InUse \union {r}
         /\ \A r \in Records : IsFirstFree(r) => r \notin InUse
<1>1. record \in [Records -> Record]
  BY DEF TypeOK
<1>2. ASSUME NEW R \in SUBSET Records, Free(R) PROVE InUse' = InUse \ R
  <2>1. \A r \in Records : record'[r] = IF r \in R THEN Blank ELSE record[r]
    BY <1>2 DEF Free
  <2>2. Blank.state = "free"
    BY DEF Blank
  <2> QED
    BY <2>1, <2>2 DEF InUse
<1>3. ASSUME NEW r \in Records, NEW new, new.state # "free",
             record' = [record EXCEPT ![r] = new]
      PROVE  InUse' = InUse \union {r}
  BY <1>1, <1>3 DEF InUse
<1>4. ASSUME NEW r \in Records, NEW c \in Nat, NEW n \in Nat, Place(r, c, n)
      PROVE  InUse' = InUse \union {r}
  BY <1>3, <1>4 DEF Place
<1>5. ASSUME NEW r \in Records, Reserve(r) PROVE InUse' = InUse \union {r}
  BY <1>3, <1>5 DEF Reserve
<1>6. \A r \in Records : IsFirstFree(r) => r \notin InUse
  BY DEF IsFirstFree, InUse
<1>7. UNCHANGED record => InUse' = InUse
  BY DEF InUse
<1> QED
  BY <1>2, <1>4, <1>5, <1>6, <1>7

\* Which parts of the names change.
LEMMA NamesKept ==
  /\ UNCHANGED entry => \A s \in Slots : Owned(s)' = Owned(s)
  /\ (\A b \in Bank : bank'[b].record = bank[b].record) => BankRecords' = BankRecords
  /\ UNCHANGED job => InHand' = InHand
  /\ job' = Idle => InHand' = {}
  /\ job = Idle \/ job.op = "setup" => InHand = {}
<1>1. UNCHANGED entry => \A s \in Slots : Owned(s)' = Owned(s)
  BY DEF Owned
<1>2. (\A b \in Bank : bank'[b].record = bank[b].record) => BankRecords' = BankRecords
  BY DEF BankRecords
<1>3. UNCHANGED job => InHand' = InHand
  BY DEF InHand, Scratch
<1>4. job' = Idle => InHand' = {}
  BY DEF InHand, Idle
<1>5. job = Idle \/ job.op = "setup" => InHand = {}
  BY DEF InHand, Idle
<1> QED
  BY <1>1, <1>2, <1>3, <1>4, <1>5

\* Holders come and go; a released payload is given back as a whole.
LEMMA HoldersStrandNone ==
  ASSUME PoolInv, NEW k \in Keys, Share(k) \/ ReleaseHeld(k) \/ ReleaseForgotten(k)
  PROVE  StrandsNone
<1>1. job = Idle /\ UNCHANGED <<bank, job>> /\ entry \in [Slots -> Entry]
  BY DEF Share, ReleaseHeld, ReleaseForgotten, PoolInv, TypeOK
<1>2. BankRecords' = BankRecords /\ InHand' = InHand
  BY <1>1, NamesKept
<1>3. ASSUME \A s \in Slots : entry'[s].key = entry[s].key /\ entry'[s].payload = entry[s].payload,
             UNCHANGED record
      PROVE  StrandsNone
  <2>1. \A s \in Slots : Owned(s)' = Owned(s)
    BY <1>3 DEF Owned
  <2>2. Named' = Named
    BY <1>2, <2>1 DEF Named
  <2>3. InUse' = InUse
    BY <1>3, RecordsInUse DEF PoolInv
  <2> QED
    BY <2>2, <2>3, NoneMoved
<1>4. ASSUME NEW s \in Slots, NEW n, UNCHANGED record,
             entry' = [entry EXCEPT ![s].references = n]
      PROVE  StrandsNone
  <2>1. \A t \in Slots : entry'[t].key = entry[t].key /\ entry'[t].payload = entry[t].payload
    BY <1>1, <1>4 DEF Entry
  <2> QED
    BY <1>3, <1>4, <2>1
<1>5. ASSUME NEW s \in Slots, entry[s].key # NoKey, Free(entry[s].payload),
             entry' = [entry EXCEPT ![s] = Unloaded(s)]
      PROVE  StrandsNone
  <2>1. Owned(s) = entry[s].payload /\ Owned(s) \in SUBSET Records
    BY <1>1, <1>5 DEF Owned, Entry
  <2>2. /\ \A t \in Slots : t # s => Owned(t)' = Owned(t)
        /\ Owned(s)' = {}
    BY <1>1, <1>5 DEF Owned, Unloaded, Entry
  <2>3. InUse' = InUse \ Owned(s)
    BY <1>5, <2>1, RecordsInUse DEF PoolInv
  <2>4. Owned(s) \subseteq Named /\ Named \ Owned(s) \subseteq Named' /\ Named' \subseteq Named
    BY <1>2, <2>2 DEF Named
  <2> QED
    BY <2>3, <2>4, NamedGivenBack
<1>6. CASE Share(k)
  <2>1. PICK s \in Slots : entry' = [entry EXCEPT ![s].references = (entry[s].references + 1) % Word]
    BY <1>6 DEF Share
  <2> QED
    BY <1>4, <1>6, <2>1 DEF Share
<1>7. CASE ReleaseEntry(k)
  <2>1. CASE UNCHANGED <<entry, pool>>
    BY <1>3, <2>1 DEF pool
  <2>2. ASSUME NEW s \in Slots, UNCHANGED pool,
               entry' = [entry EXCEPT ![s].references = (entry[s].references - 1) % Word]
        PROVE  StrandsNone
    BY <1>4, <2>2 DEF pool
  <2>3. ASSUME NEW s \in Slots, Finds(s, k), Free(entry[s].payload),
               entry' = [entry EXCEPT ![s] = Unloaded(s)]
        PROVE  StrandsNone
    <3>1. entry[s].key # NoKey
      BY <2>3, PtxAssumption DEF Finds
    <3> QED
      BY <1>5, <2>3, <3>1
  <2> QED
    BY <1>7, <2>1, <2>2, <2>3 DEF ReleaseEntry
<1> QED
  BY <1>6, <1>7 DEF ReleaseHeld, ReleaseForgotten

\* Nothing is named that was not, and no record changes.
LEMMA QuietStepsStrandNone ==
  ASSUME PoolInv, (\E k \in Keys : StartLoad(k)) \/ StartSetUp \/ SetUpEnds
  PROVE  StrandsNone
<1>1. UNCHANGED <<cache, pool, limit, bank>> /\ (job = Idle \/ job.op = "setup")
  BY DEF StartLoad, StartSetUp, SetUpEnds, SettingUp
<1>2. InHand = {} /\ InHand' = {}
  <2>1. CASE \E k \in Keys : StartLoad(k)
    <3>1. job'.payload = {} /\ job'.scratch = <<>>
      BY <2>1 DEF StartLoad
    <3>2. InHand' = {}
      BY <3>1 DEF InHand, Scratch
    <3> QED
      BY <1>1, <3>2, NamesKept
  <2>2. CASE StartSetUp
    BY <1>1, <2>2, NamesKept DEF StartSetUp, InHand
  <2>3. CASE SetUpEnds
    BY <1>1, <2>3, NamesKept DEF SetUpEnds
  <2> QED
    BY <2>1, <2>2, <2>3
<1>3. Named' = Named
  <2>1. (\A s \in Slots : Owned(s)' = Owned(s)) /\ BankRecords' = BankRecords
    BY <1>1, NamesKept DEF cache
  <2> QED
    BY <1>2, <2>1 DEF Named
<1>4. InUse' = InUse
  BY <1>1, RecordsInUse DEF PoolInv, pool
<1> QED
  BY <1>3, <1>4, NoneMoved

\* A load that fails gives back records of its own.  With no texture begun, or
\* all of the texture's records given back too, it strands none.
LEMMA FailedLoadStrands ==
  ASSUME PoolInv, ParseFails \/ RecordsExhausted \/ PlacementFails
  PROVE  /\ Stranded \subseteq Stranded'
         /\ ParseFails \/ PlacementFails => StrandsNone
<1>1. /\ job.op = "load" /\ job' = Idle /\ UNCHANGED entry
      /\ \A b \in Bank : bank'[b].record = bank[b].record
  <2>1. job.op = "load" /\ job' = Idle /\ UNCHANGED entry
    BY DEF ParseFails, RecordsExhausted, PlacementFails, Building, Loading, FailLoad, cache
  <2>2. UNCHANGED bank \/ bank' = [bank EXCEPT ![Palette].next = bank[Palette].next + 1]
    BY DEF ParseFails, RecordsExhausted, PlacementFails, PaletteTaken
  <2>3. bank \in [Bank -> [record : Records \union {Null}, next : Nat, capacity : Nat,
                           memory : BOOLEAN]]
    BY DEF PoolInv, TypeOK
  <2> QED
    BY <2>1, <2>2, <2>3
<1>2. PICK R \in {job.payload, job.payload \union Scratch} :
        Free(R) /\ (ParseFails \/ PlacementFails => R = job.payload \union Scratch)
  <2>1. CASE ParseFails
    BY <2>1 DEF ParseFails, FailLoad, Scratch
  <2>2. CASE PlacementFails
    BY <2>2 DEF PlacementFails, FailLoad, FreedScratch
  <2>3. CASE RecordsExhausted /\ ~ParseFails /\ ~PlacementFails
    BY <2>3 DEF RecordsExhausted, FailLoad
  <2> QED
    BY <2>1, <2>2, <2>3
<1>3. InHand = job.payload \union Scratch /\ R \in SUBSET Records /\ R \subseteq InHand
  BY <1>1, <1>2, LoadFacts, RecordFacts
<1>4. InUse' = InUse \ R
  BY <1>2, <1>3, RecordsInUse DEF PoolInv
<1>5. /\ \A s \in Slots : Owned(s)' = Owned(s)
      /\ BankRecords' = BankRecords /\ InHand' = {}
  BY <1>1, NamesKept
<1>6. R \subseteq Named /\ Named' \subseteq Named /\ Named \ InHand \subseteq Named'
  BY <1>3, <1>5 DEF Named
<1>7. Stranded \subseteq Stranded'
  BY <1>4, <1>6, StrandedStay
<1>8. ParseFails \/ PlacementFails => StrandsNone
  BY <1>2, <1>3, <1>4, <1>6, NamedGivenBack
<1> QED
  BY <1>7, <1>8

\* The record a refused palette was for is in nobody's hand.
LEMMA PaletteRefusedKeepsStranded ==
  ASSUME PoolInv, PaletteRefused
  PROVE  Stranded \subseteq Stranded'
<1>1. job.op = "load" /\ job' = Idle /\ UNCHANGED <<entry, bank>>
  BY DEF PaletteRefused, Building, Loading, cache
<1>2. PICK r \in Records :
        record' = [q \in Records |->
             IF q = r THEN [state |-> "reserved", at |-> 0, cells |-> 0]
             ELSE IF q \in job.payload THEN Blank ELSE record[q]]
  BY DEF PaletteRefused
<1>3. job.payload \subseteq Named
  BY <1>1, LoadFacts DEF Named
<1>4. InUse \ Named \subseteq InUse'
  <2>1. ASSUME NEW q \in InUse \ Named PROVE q \in InUse'
    <3>1. q \in Records /\ q \notin job.payload /\ record[q].state # "free"
      BY <1>3, <2>1 DEF InUse
    <3>2. record'[q].state # "free"
      BY <1>2, <3>1
    <3> QED
      BY <3>1, <3>2 DEF InUse
  <2> QED
    BY <2>1
<1>5. Named' \subseteq Named
  BY <1>1, NamesKept DEF Named
<1> QED
  BY <1>4, <1>5, StrandedStay

\* The record a level is made of is in the load's hand.
LEMMA BuildLevelStrandsNone ==
  ASSUME PoolInv, BuildLevel
  PROVE  StrandsNone
<1>1. PICK r \in Records, c \in Cells :
        /\ IsFirstFree(r) /\ Place(r, c, CellsNeeded)
        /\ job' = [job EXCEPT !.scratch = Append(job.scratch, r)]
  BY DEF BuildLevel
<1>2. /\ job.op = "load" /\ UNCHANGED entry
      /\ \A b \in Bank : bank'[b].record = bank[b].record
  <2>1. UNCHANGED bank \/ bank' = [bank EXCEPT ![Palette].next = bank[Palette].next + 1]
    BY DEF BuildLevel, PaletteTaken
  <2>2. bank \in [Bank -> [record : Records \union {Null}, next : Nat, capacity : Nat,
                           memory : BOOLEAN]]
    BY DEF PoolInv, TypeOK
  <2>3. \A b \in Bank : bank'[b].record = bank[b].record
    BY <2>1, <2>2
  <2>4. job.op = "load" /\ UNCHANGED entry
    BY DEF BuildLevel, Building, Loading, cache
  <2> QED
    BY <2>3, <2>4
<1>3. r \notin InUse /\ InUse' = InUse \union {r}
  <2>1. c \in Nat /\ CellsNeeded \in Nat
    BY RunFacts
  <2> QED
    BY <1>1, <2>1, RecordsInUse DEF PoolInv
<1>4. InHand' = InHand \union {r}
  <2>1. job \in LoadJob /\ job.scratch \in Seq(Records)
    BY <1>2, LoadFacts DEF LoadJob
  <2>2. job'.op = "load" /\ job'.payload = job.payload /\ job'.scratch = Append(job.scratch, r)
    BY <1>1, <1>2, <2>1 DEF LoadJob
  <2>3. /\ Len(Append(job.scratch, r)) = Len(job.scratch) + 1 /\ Len(job.scratch) \in Nat
        /\ \A j \in 1 .. Len(job.scratch) : Append(job.scratch, r)[j] = job.scratch[j]
        /\ Append(job.scratch, r)[Len(job.scratch) + 1] = r
    BY <2>1
  <2>4. Scratch' = Scratch \union {r}
    BY <2>2, <2>3 DEF Scratch
  <2> QED
    BY <1>2, <2>2, <2>4 DEF InHand
<1>5. Named' = Named \union {r}
  <2>1. (\A s \in Slots : Owned(s)' = Owned(s)) /\ BankRecords' = BankRecords
    BY <1>2, NamesKept
  <2> QED
    BY <1>4, <2>1 DEF Named
<1> QED
  BY <1>3, <1>5, TakenIsNamed

\* Of a texture no wider than the first every record goes into the payload.
LEMMA FinishTextureStrands ==
  ASSUME PoolInv, FinishTexture
  PROVE  /\ Stranded \subseteq Stranded'
         /\ ~(Level > Width) => StrandsNone
<1> DEFINE Kept == {job.scratch[j] : j \in {i \in 1 .. Level : i <= Width}}
<1>1. /\ job.op = "load" /\ UNCHANGED <<cache, pool, bank>>
      /\ job' = [job EXCEPT
           !.todo = Tail(job.todo), !.started = TRUE, !.width = Width, !.scratch = <<>>,
           !.payload = job.payload \union Kept]
  BY DEF FinishTexture, Loading
<1>2. job \in LoadJob /\ InHand = job.payload \union Scratch /\ Kept \subseteq Scratch
  BY <1>1, LoadFacts DEF Scratch, Level
<1>3. ~(Level > Width) => Kept = Scratch
  <2>1. Level \in Nat /\ Width \in Nat
    <3>1. job.scratch \in Seq(Records) /\ job.width \in Nat
      BY <1>2 DEF LoadJob
    <3> QED
      BY <3>1 DEF Level, Width
  <2>2. ASSUME ~(Level > Width) PROVE {i \in 1 .. Level : i <= Width} = 1 .. Level
    BY <2>1, <2>2
  <2> QED
    BY <2>2 DEF Scratch, Level
<1> HIDE DEF Kept
<1>4. InHand' = job.payload \union Kept
  <2>1. job'.op = "load" /\ job'.payload = job.payload \union Kept /\ job'.scratch = <<>>
    BY <1>1, <1>2 DEF LoadJob
  <2>2. Scratch' = {}
    BY <2>1 DEF Scratch
  <2> QED
    BY <2>1, <2>2 DEF InHand
<1>5. /\ \A s \in Slots : Owned(s)' = Owned(s)
      /\ BankRecords' = BankRecords /\ InUse' = InUse
  BY <1>1, NamesKept, RecordsInUse DEF PoolInv, cache, pool
<1>6. Named' \subseteq Named /\ (Kept = Scratch => Named' = Named)
  BY <1>2, <1>4, <1>5 DEF Named
<1>7. Stranded \subseteq Stranded'
  BY <1>5, <1>6, StrandedStay
<1>8. ~(Level > Width) => StrandsNone
  BY <1>3, <1>5, <1>6, NoneMoved
<1> QED
  BY <1>7, <1>8

\* The payload passes from the load's hand to the entry.
LEMMA FinishLoadStrandsNone ==
  ASSUME PoolInv, BetweenTextures, FinishLoad
  PROVE  StrandsNone
<1>1. PICK s \in Slots :
        /\ Finds(s, NoKey)
        /\ entry' = [entry EXCEPT ![s] =
             [key |-> job.key, references |-> 1, payload |-> job.payload]]
  BY DEF FinishLoad
<1>2. /\ job.op = "load" /\ job' = Idle /\ UNCHANGED <<record, bank>>
      /\ job.scratch = <<>>
  BY DEF FinishLoad, BetweenTextures
<1>3. InHand = job.payload
  BY <1>2 DEF InHand, Scratch
<1>4. job.key # NoKey /\ entry \in [Slots -> Entry]
  BY <1>2, LoadFacts, PtxAssumption DEF LoadJob, PoolInv, TypeOK
<1>5. /\ Owned(s) = {} /\ Owned(s)' = job.payload
      /\ \A t \in Slots : t # s => Owned(t)' = Owned(t)
  <2>1. /\ entry[s].key = NoKey /\ entry'[s].key = job.key /\ entry'[s].payload = job.payload
        /\ \A t \in Slots : t # s => entry'[t] = entry[t]
    BY <1>1, <1>4 DEF Finds
  <2> QED
    BY <1>4, <2>1 DEF Owned
<1>6. BankRecords' = BankRecords /\ InHand' = {} /\ InUse' = InUse
  BY <1>2, NamesKept, RecordsInUse DEF PoolInv
<1>7. Named' = Named
  <2>1. ASSUME NEW x PROVE (\E t \in Slots : x \in Owned(t)') <=>
                          (\E t \in Slots : x \in Owned(t)) \/ x \in job.payload
    BY <1>5
  <2> QED
    BY <1>3, <1>6, <2>1 DEF Named
<1> QED
  BY <1>6, <1>7, NoneMoved

\* Names are dropped, and what they named is not given back.
LEMMA NamesDropped ==
  ASSUME PoolInv, FinalizerFails \/ ConfigureReservation
  PROVE  Stranded \subseteq Stranded'
<1>1. UNCHANGED <<record, bank>>
  BY DEF FinalizerFails, ConfigureReservation, pool
<1>2. BankRecords' = BankRecords /\ InUse' = InUse
  BY <1>1, NamesKept, RecordsInUse DEF PoolInv
<1>3. (\A s \in Slots : Owned(s)' \subseteq Owned(s)) /\ InHand' \subseteq InHand
  <2>1. CASE FinalizerFails
    <3>1. job' = Idle /\ UNCHANGED entry
      BY <2>1 DEF FinalizerFails, cache
    <3> QED
      BY <3>1, NamesKept
  <2>2. CASE ConfigureReservation
    <3>1. /\ entry' = [s \in Slots |-> [entry[s] EXCEPT !.key = NoKey, !.references = 0]]
          /\ UNCHANGED job /\ entry \in [Slots -> Entry]
      BY <2>2 DEF ConfigureReservation, PoolInv, TypeOK
    <3>2. \A s \in Slots : entry'[s].key = NoKey
      BY <3>1 DEF Entry
    <3>3. \A s \in Slots : Owned(s)' = {}
      BY <3>2 DEF Owned
    <3> QED
      BY <3>1, <3>3, NamesKept
  <2> QED
    BY <2>1, <2>2
<1>4. Named' \subseteq Named
  BY <1>2, <1>3 DEF Named
<1> QED
  BY <1>2, <1>4, StrandedStay

\* A bank without a place keeps the record reserved for it.
LEMMA BankUnplacedKeepsStranded ==
  ASSUME PoolInv, BankUnplaced
  PROVE  Stranded \subseteq Stranded'
<1>1. job' = Idle /\ UNCHANGED <<entry, bank>>
  BY DEF BankUnplaced, cache
<1>2. PICK r \in Records : Reserve(r)
  BY DEF BankUnplaced
<1>3. InUse' = InUse \union {r}
  BY <1>2, RecordsInUse DEF PoolInv
<1>4. Named' \subseteq Named
  BY <1>1, NamesKept DEF Named
<1> QED
  BY <1>3, <1>4, StrandedStay

\* A bank that has no record yet takes the one placed for it.
LEMMA BankPlacedStrands ==
  ASSUME PoolInv, BankPlaced
  PROVE  /\ Stranded \subseteq Stranded'
         /\ ~SetUpTwice => StrandsNone
<1> DEFINE b == Head(job.todo)
<1>1. PICK r \in Records, c \in Cells, n \in Counts, granted \in BOOLEAN :
        /\ IsFirstFree(r) /\ Place(r, c, 1)
        /\ bank' = [bank EXCEPT ![b] =
             [record |-> r, next |-> 0, capacity |-> n, memory |-> bank[b].memory \/ granted]]
        /\ job' = IF granted THEN [job EXCEPT !.todo = Tail(job.todo)] ELSE Idle
  BY DEF BankPlaced
<1>2. job.op = "setup" /\ job.todo # <<>> /\ UNCHANGED entry
  BY DEF BankPlaced, SettingUp, cache
<1>3. job \in SetUpJob /\ b \in Bank
  <2>1. job = Idle \/ job \in SetUpJob \/ job \in LoadJob
    BY DEF PoolInv, TypeOK
  <2>2. job # Idle /\ job \notin LoadJob
    BY <1>2 DEF Idle, LoadJob
  <2>3. job.todo \in Seq(Bank)
    BY <2>1, <2>2 DEF SetUpJob
  <2> QED
    BY <1>2, <2>1, <2>2, <2>3
<1> HIDE DEF b
<1>4. InHand = {} /\ InHand' = {}
  <2>1. CASE job' = Idle
    BY <1>2, <2>1, NamesKept
  <2>2. CASE job' # Idle
    <3>1. job'.op = "setup"
      BY <1>1, <1>2, <1>3, <2>2 DEF SetUpJob
    <3> QED
      BY <1>2, <3>1, NamesKept DEF InHand
  <2> QED
    BY <2>1, <2>2
<1>5. r \notin InUse /\ InUse' = InUse \union {r}
  <2>1. c \in Nat /\ 1 \in Nat
    BY RunFacts
  <2> QED
    BY <1>1, <2>1, RecordsInUse DEF PoolInv
<1>6. bank'[b].record = r /\ \A a \in Bank : a # b => bank'[a] = bank[a]
  BY <1>1, <1>3 DEF PoolInv, TypeOK
<1>7. BankRecords' \subseteq BankRecords \union {r}
  BY <1>6 DEF BankRecords
<1>8. ~SetUpTwice => BankRecords' = BankRecords \union {r}
  <2>1. r # Null
    BY RecordFacts
  <2>2. ~SetUpTwice => bank[b].record = Null
    BY DEF SetUpTwice, b
  <2>3. ASSUME bank[b].record = Null PROVE BankRecords' = BankRecords \union {r}
    BY <1>3, <1>6, <2>1, <2>3 DEF BankRecords
  <2> QED
    BY <2>2, <2>3
<1>9. \A s \in Slots : Owned(s)' = Owned(s)
  BY <1>2, NamesKept
<1>10. Stranded \subseteq Stranded'
  <2>1. Named' \subseteq Named \union {r}
    BY <1>4, <1>7, <1>9 DEF Named
  <2> QED
    BY <1>5, <2>1, StrandedStay
<1>11. ~SetUpTwice => StrandsNone
  <2>1. ~SetUpTwice => Named' = Named \union {r}
    BY <1>4, <1>8, <1>9 DEF Named
  <2> QED
    BY <1>5, <2>1, TakenIsNamed
<1> QED
  BY <1>10, <1>11

LEMMA DestroyContextStrandsNone ==
  ASSUME PoolInv, DestroyContext
  PROVE  StrandsNone
<1>1. /\ Free(BankRecords) /\ UNCHANGED <<entry, job>>
      /\ bank' = [b \in Bank |-> Bare]
  BY DEF DestroyContext, BankRecords, cache
<1>2. BankRecords \in SUBSET Records
  BY RecordFacts
<1>3. InUse' = InUse \ BankRecords
  BY <1>1, <1>2, RecordsInUse DEF PoolInv
<1>4. /\ \A s \in Slots : Owned(s)' = Owned(s)
      /\ BankRecords' = {} /\ InHand' = InHand
  BY <1>1, NamesKept DEF BankRecords, Bare
<1>5. BankRecords \subseteq Named /\ Named \ BankRecords \subseteq Named' /\ Named' \subseteq Named
  BY <1>4 DEF Named
<1> QED
  BY <1>3, <1>5, NamedGivenBack

LEMMA BetweenTexturesStep ==
  ASSUME PoolInv, BetweenTextures, [Next]_vars
  PROVE  BetweenTextures'
<1>1. CASE UNCHANGED job
  BY <1>1 DEF BetweenTextures
<1>2. CASE job' = Idle
  BY <1>2 DEF BetweenTextures, Idle
<1>3. ASSUME NEW k \in Keys, StartLoad(k) PROVE BetweenTextures'
  BY <1>3 DEF StartLoad, BetweenTextures
<1>4. CASE StartSetUp
  BY <1>4 DEF StartSetUp, BetweenTextures
<1>5. CASE BuildLevel
  <2>1. job.op = "load" /\ job.todo # <<>>
    BY <1>5 DEF BuildLevel, Building, Loading
  <2>2. job \in LoadJob
    BY <2>1, LoadFacts
  <2>3. job'.todo = job.todo
    BY <1>5, <2>2 DEF BuildLevel, LoadJob
  <2> QED
    BY <2>1, <2>3 DEF BetweenTextures
<1>6. CASE FinishTexture
  <2>1. job \in LoadJob
    BY <1>6, LoadFacts DEF FinishTexture, Loading
  <2>2. job'.scratch = <<>>
    BY <1>6, <2>1 DEF FinishTexture, LoadJob
  <2> QED
    BY <2>2 DEF BetweenTextures
<1>7. CASE BankPlaced
  <2>1. job' = Idle \/ job' = [job EXCEPT !.todo = Tail(job.todo)]
    BY <1>7 DEF BankPlaced
  <2>2. job.op = "setup"
    BY <1>7 DEF BankPlaced, SettingUp
  <2>3. job \in SetUpJob
    BY <2>2 DEF PoolInv, TypeOK, Idle, LoadJob
  <2>4. job'.op # "load"
    BY <2>1, <2>2, <2>3 DEF Idle, SetUpJob
  <2> QED
    BY <2>4 DEF BetweenTextures
<1> QED
  BY <1>1, <1>2, <1>3, <1>4, <1>5, <1>6, <1>7
  DEF Next, Share, ReleaseHeld, ReleaseForgotten, ParseFails, RecordsExhausted,
      PaletteRefused, PlacementFails, FailLoad, FinishLoad, FinalizerFails,
      ConfigureReservation, SetUpEnds, BankUnplaced, DestroyContext, vars

(***************************************************************************)
(* A record nothing names any more stays lost, and no step but the named   *)
(* ones loses one, for every pool, bundle and failure                      *)
(* (materialize_ptx_records, acquire, reset_ptx_keys,                      *)
(* initialize_ptx_palette_context).                                        *)
(***************************************************************************)
THEOREM OnlyTheseStrand == Spec => OnlyNamedStepsStrand
<1>1. Init => BetweenTextures
  BY DEF Init, Idle, BetweenTextures
<1>2. ASSUME PoolInv, BetweenTextures, Next
      PROVE  /\ Stranded \subseteq Stranded'
             /\ \/ Stranded' \subseteq Stranded
                \/ RecordsExhausted \/ PaletteRefused
                \/ FinishTexture /\ Level > Width
                \/ FinalizerFails \/ ConfigureReservation
                \/ BankUnplaced \/ SetUpTwice
  <2>1. CASE \E k \in Keys : Share(k) \/ ReleaseHeld(k) \/ ReleaseForgotten(k)
    BY <1>2, <2>1, HoldersStrandNone DEF StrandsNone
  <2>2. CASE (\E k \in Keys : StartLoad(k)) \/ StartSetUp \/ SetUpEnds
    BY <1>2, <2>2, QuietStepsStrandNone DEF StrandsNone
  <2>3. CASE ParseFails \/ RecordsExhausted \/ PlacementFails
    BY <1>2, <2>3, FailedLoadStrands DEF StrandsNone
  <2>4. CASE PaletteRefused
    BY <1>2, <2>4, PaletteRefusedKeepsStranded
  <2>5. CASE BuildLevel
    BY <1>2, <2>5, BuildLevelStrandsNone DEF StrandsNone
  <2>6. CASE FinishTexture
    BY <1>2, <2>6, FinishTextureStrands DEF StrandsNone
  <2>7. CASE FinishLoad
    BY <1>2, <2>7, FinishLoadStrandsNone DEF StrandsNone
  <2>8. CASE FinalizerFails \/ ConfigureReservation
    BY <1>2, <2>8, NamesDropped
  <2>9. CASE BankUnplaced
    BY <1>2, <2>9, BankUnplacedKeepsStranded
  <2>10. CASE BankPlaced
    BY <1>2, <2>10, BankPlacedStrands DEF StrandsNone
  <2>11. CASE DestroyContext
    BY <1>2, <2>11, DestroyContextStrandsNone DEF StrandsNone
  <2> QED
    BY <1>2, <2>1, <2>2, <2>3, <2>4, <2>5, <2>6, <2>7, <2>8, <2>9, <2>10, <2>11 DEF Next
<1>3. PoolInv /\ BetweenTextures /\ [Next]_vars =>
        [/\ Stranded \subseteq Stranded'
         /\ \/ Stranded' \subseteq Stranded
            \/ RecordsExhausted \/ PaletteRefused
            \/ FinishTexture /\ Level > Width
            \/ FinalizerFails \/ ConfigureReservation
            \/ BankUnplaced \/ SetUpTwice]_vars
  BY <1>2
<1>4. PoolInv /\ BetweenTextures /\ [Next]_vars => PoolInv' /\ BetweenTextures'
  BY PoolStep, BetweenTexturesStep
<1> QED
  BY PoolInit, <1>1, <1>3, <1>4, PTL DEF Spec, OnlyNamedStepsStrand

-----------------------------------------------------------------------------
(* The counts. *)

OneEntryPerKey ==
  \A s, t \in Slots : entry[s].key = entry[t].key /\ entry[s].key # NoKey => s = t

\* An entry counts somebody, and nobody who does not hold it.
CountsAreHeld ==
  /\ \A s \in Slots : entry[s].key # NoKey =>
       /\ 1 <= entry[s].references
       /\ entry[s].references <= holds[entry[s].key]
  /\ \A k \in Keys : holds[k] + forgotten[k] <= MaxHolds

\* What is being loaded is not loaded.
LoadsAreFresh ==
  job.op = "load" =>
    /\ \A s \in Slots : entry[s].key # job.key
    /\ holds[job.key] + forgotten[job.key] < MaxHolds

CountsAreExact ==
  ~stray =>
    /\ \A s \in Slots : entry[s].key # NoKey => entry[s].references = holds[entry[s].key]
    /\ \A k \in Keys : holds[k] # 0 => \E s \in Slots : entry[s].key = k

CountInv == OneEntryPerKey /\ CountsAreHeld /\ LoadsAreFresh /\ CountsAreExact

\* With one entry for each key, a search for a key finds it wherever it is.
LEMMA SearchIsExact ==
  ASSUME OneEntryPerKey, NEW k \in Keys
  PROVE  /\ \A s \in Slots : Finds(s, k) <=> entry[s].key = k
         /\ Found(k) <=> \E s \in Slots : entry[s].key = k
<1>1. k # NoKey
  BY PtxAssumption
<1>2. ASSUME NEW s \in Slots, entry[s].key = k PROVE Finds(s, k)
  <2>1. ASSUME NEW t \in Slots, t < s PROVE entry[t].key # k
    <3>1. t # s
      BY <2>1 DEF Slots
    <3> QED
      BY <1>1, <1>2, <3>1 DEF OneEntryPerKey
  <2> QED
    BY <1>2, <2>1 DEF Finds
<1> QED
  BY <1>2 DEF Found, Finds

LEMMA CountInit == Init => CountInv
<1> SUFFICES ASSUME Init PROVE CountInv
  OBVIOUS
<1>1. /\ \A s \in Slots : entry[s].key = NoKey
      /\ \A k \in Keys : holds[k] = 0 /\ forgotten[k] = 0
      /\ job.op # "load"
  BY DEF Init, Vacant, Idle
<1> QED
  BY <1>1, PtxAssumption
  DEF CountInv, OneEntryPerKey, CountsAreHeld, LoadsAreFresh, CountsAreExact

\* A count that may be taken from or added to stays within the word.
LEMMA NoWrap ==
  ASSUME TypeOK, CountsAreHeld, NEW s \in Slots, entry[s].key # NoKey
  PROVE  /\ entry[s].key \in Keys /\ entry[s].references \in Nat
         /\ (entry[s].references - 1) % Word = entry[s].references - 1
         /\ holds[entry[s].key] + forgotten[entry[s].key] < MaxHolds
              => (entry[s].references + 1) % Word = entry[s].references + 1
<1>1. entry[s].key \in Keys /\ entry[s].references \in 0 .. Word - 1
  BY DEF TypeOK, Entry
<1> DEFINE n == entry[s].references
           h == holds[entry[s].key]
           f == forgotten[entry[s].key]
<1>2. n \in Nat /\ h \in Nat /\ f \in Nat /\ 1 <= n /\ n <= h /\ h + f <= MaxHolds
  BY <1>1 DEF TypeOK, CountsAreHeld
<1>3. Word \in Nat /\ MaxHolds \in Nat /\ MaxHolds < Word
  BY PtxAssumption
<1> HIDE DEF n, h, f
<1>4. (n - 1) % Word = n - 1
  BY <1>2, <1>3
<1>5. h + f < MaxHolds => (n + 1) % Word = n + 1
  BY <1>2, <1>3
<1> QED
  BY <1>1, <1>2, <1>4, <1>5 DEF n, h, f

LEMMA ShareKeepsCounts ==
  ASSUME TypeOK, CountInv, NEW k \in Keys, Share(k)
  PROVE  CountInv' /\ \E s \in Slots :
           /\ entry[s].key = k
           /\ entry' = [entry EXCEPT ![s].references = entry[s].references + 1]
<1>1. PICK s \in Slots :
        /\ entry[s].key = k
        /\ entry' = [entry EXCEPT ![s].references = (entry[s].references + 1) % Word]
  BY DEF Share, Finds
<1>2. /\ job = Idle /\ holds[k] + forgotten[k] < MaxHolds
      /\ holds' = [holds EXCEPT ![k] = holds[k] + 1]
      /\ UNCHANGED <<job, forgotten, stray>>
  BY DEF Share, Held
<1>3. /\ entry \in [Slots -> Entry] /\ holds \in [Keys -> Nat] /\ forgotten \in [Keys -> Nat]
      /\ MaxHolds \in Nat /\ k # NoKey
  BY PtxAssumption DEF TypeOK
<1>4. entry[s].references \in Nat /\ (entry[s].references + 1) % Word = entry[s].references + 1
  BY <1>1, <1>2, <1>3, NoWrap DEF CountInv
<1>5. /\ \A t \in Slots : entry'[t].key = entry[t].key
      /\ \A t \in Slots : t # s => entry'[t].references = entry[t].references
      /\ entry'[s].references = entry[s].references + 1
  BY <1>1, <1>3, <1>4 DEF Entry
<1>6. /\ holds'[k] = holds[k] + 1
      /\ \A j \in Keys : j # k => holds'[j] = holds[j]
  BY <1>2, <1>3
<1>7. \A t \in Slots : t # s => entry[t].key # k
  BY <1>1, <1>3 DEF CountInv, OneEntryPerKey
<1>8. \A t \in Slots : entry[t].key # NoKey => entry[t].key \in Keys /\ entry[t].references \in Nat
  BY <1>3 DEF Entry
<1>9. OneEntryPerKey'
  BY <1>5 DEF CountInv, OneEntryPerKey
<1>10. CountsAreHeld'
  <2>1. ASSUME NEW t \in Slots, entry'[t].key # NoKey
        PROVE  1 <= entry'[t].references /\ entry'[t].references <= holds'[entry'[t].key]
    <3>1. CASE t = s
      BY <1>1, <1>3, <1>4, <1>5, <1>6, <3>1 DEF CountInv, CountsAreHeld
    <3>2. CASE t # s
      BY <1>5, <1>6, <1>7, <1>8, <2>1, <3>2 DEF CountInv, CountsAreHeld
    <3> QED
      BY <3>1, <3>2
  <2>2. ASSUME NEW j \in Keys PROVE holds'[j] + forgotten'[j] <= MaxHolds
    BY <1>2, <1>3, <1>6 DEF CountInv, CountsAreHeld
  <2> QED
    BY <2>1, <2>2 DEF CountsAreHeld
<1>11. LoadsAreFresh'
  BY <1>2 DEF LoadsAreFresh, Idle
<1>12. CountsAreExact'
  <2>1. ASSUME ~stray', NEW t \in Slots, entry'[t].key # NoKey
        PROVE  entry'[t].references = holds'[entry'[t].key]
    <3>1. entry[t].references = holds[entry[t].key]
      BY <1>2, <1>5, <2>1 DEF CountInv, CountsAreExact
    <3> QED
      BY <1>1, <1>5, <1>6, <1>7, <1>8, <2>1, <3>1
  <2>2. ASSUME ~stray', NEW j \in Keys, holds'[j] # 0
        PROVE  \E t \in Slots : entry'[t].key = j
    BY <1>1, <1>2, <1>5, <1>6, <2>2 DEF CountInv, CountsAreExact
  <2> QED
    BY <2>1, <2>2 DEF CountsAreExact
<1> QED
  BY <1>1, <1>4, <1>9, <1>10, <1>11, <1>12 DEF CountInv

\* What a release does to the table: nothing, one holder less, or one entry less.
LEMMA ReleaseEffect ==
  ASSUME TypeOK, CountInv, NEW k \in Keys, ReleaseEntry(k)
  PROVE  \/ ~Found(k) /\ entry' = entry
         \/ \E s \in Slots :
              /\ Found(k) /\ entry[s].key = k /\ entry[s].references > 1
              /\ entry' = [entry EXCEPT ![s].references = entry[s].references - 1]
         \/ \E s \in Slots :
              /\ Found(k) /\ entry[s].key = k /\ entry[s].references = 1
              /\ entry' = [entry EXCEPT ![s] = Unloaded(s)]
<1>1. k # NoKey
  BY PtxAssumption
<1>2. ASSUME NEW s \in Slots, Finds(s, k)
      PROVE  /\ Found(k) /\ entry[s].key = k
             /\ entry[s].references \in Nat /\ 1 <= entry[s].references
             /\ (entry[s].references - 1) % Word = entry[s].references - 1
  BY <1>1, <1>2, NoWrap DEF CountInv, CountsAreHeld, Finds, Found
<1>3. CASE ~Found(k) /\ UNCHANGED <<entry, pool>>
  BY <1>3
<1>4. ASSUME NEW s \in Slots, Finds(s, k), ~LastReference(s),
             entry' = [entry EXCEPT ![s].references = (entry[s].references - 1) % Word]
      PROVE  /\ Found(k) /\ entry[s].key = k /\ entry[s].references > 1
             /\ entry' = [entry EXCEPT ![s].references = entry[s].references - 1]
  <2>1. /\ Found(k) /\ entry[s].key = k
        /\ (entry[s].references - 1) % Word = entry[s].references - 1
        /\ entry[s].references \in Nat /\ 1 <= entry[s].references
    BY <1>2, <1>4
  <2>2. entry[s].references # 1
    BY <1>4, <2>1 DEF LastReference
  <2>3. entry' = [entry EXCEPT ![s].references = entry[s].references - 1]
    BY <1>4, <2>1, Zenon
  <2> QED
    BY <2>1, <2>2, <2>3
<1>5. ASSUME NEW s \in Slots, Finds(s, k), LastReference(s)
      PROVE  Found(k) /\ entry[s].key = k /\ entry[s].references = 1
  BY <1>2, <1>5 DEF LastReference
<1> QED
  BY <1>3, <1>4, <1>5 DEF ReleaseEntry

\* A release by a current holder takes its own reference; one by a holder from
\* before the reset is stray if it finds the key.
LEMMA ReleaseKeepsCounts ==
  ASSUME TypeOK, CountInv, NEW k \in Keys, ReleaseHeld(k) \/ ReleaseForgotten(k)
  PROVE  CountInv'
<1>1. job = Idle /\ UNCHANGED job /\ ReleaseEntry(k) /\ k # NoKey
  BY PtxAssumption DEF ReleaseHeld, ReleaseForgotten
<1>2. /\ entry \in [Slots -> Entry] /\ holds \in [Keys -> Nat] /\ forgotten \in [Keys -> Nat]
      /\ MaxHolds \in Nat /\ stray \in BOOLEAN
  BY PtxAssumption DEF TypeOK
<1>3. \A t \in Slots : entry[t].key # NoKey => entry[t].key \in Keys /\ entry[t].references \in Nat
  BY <1>2 DEF Entry
<1>4. \/ /\ holds[k] > 0 /\ holds' = [holds EXCEPT ![k] = holds[k] - 1]
         /\ forgotten' = forgotten /\ stray' = stray
      \/ /\ holds' = holds
         /\ forgotten[k] > 0 /\ forgotten' = [forgotten EXCEPT ![k] = forgotten[k] - 1]
         /\ stray' = (stray \/ Found(k))
  BY DEF ReleaseHeld, ReleaseForgotten
<1>5. /\ \A j \in Keys : j # k => holds'[j] = holds[j]
      /\ holds'[k] \in Nat /\ holds[k] - 1 <= holds'[k] /\ holds'[k] <= holds[k]
      /\ \A j \in Keys : holds'[j] + forgotten'[j] <= MaxHolds
  BY <1>2, <1>4 DEF CountInv, CountsAreHeld
<1>6. ~stray' /\ Found(k) => ~stray /\ holds'[k] = holds[k] - 1
  BY <1>2, <1>4
<1>7. LoadsAreFresh'
  BY <1>1 DEF LoadsAreFresh, Idle
<1>8. CASE ~Found(k) /\ entry' = entry
  <2>1. \A t \in Slots : entry[t].key # k
    BY <1>8, SearchIsExact DEF CountInv
  <2>2. ~stray => holds[k] = 0
    BY <2>1 DEF CountInv, CountsAreExact
  <2>3. CountsAreHeld'
    BY <1>3, <1>5, <1>8, <2>1 DEF CountInv, CountsAreHeld
  <2>4. ~stray' => ~stray
    BY <1>2, <1>4
  <2>5. CountsAreExact'
    BY <1>2, <1>3, <1>5, <1>8, <2>1, <2>2, <2>4 DEF CountInv, CountsAreExact
  <2>6. OneEntryPerKey'
    BY <1>8 DEF CountInv, OneEntryPerKey
  <2> QED
    BY <1>7, <2>3, <2>5, <2>6 DEF CountInv
<1>9. ASSUME NEW s \in Slots, Found(k), entry[s].key = k, entry[s].references > 1,
             entry' = [entry EXCEPT ![s].references = entry[s].references - 1]
      PROVE  CountInv'
  <2>1. /\ \A t \in Slots : entry'[t].key = entry[t].key
        /\ \A t \in Slots : t # s => entry'[t].references = entry[t].references
        /\ entry'[s].references = entry[s].references - 1
    BY <1>2, <1>9 DEF Entry
  <2>2. \A t \in Slots : t # s => entry[t].key # k
    BY <1>1, <1>9 DEF CountInv, OneEntryPerKey
  <2>3. OneEntryPerKey'
    BY <2>1 DEF CountInv, OneEntryPerKey
  <2>4. ASSUME NEW t \in Slots, entry'[t].key # NoKey
        PROVE  /\ 1 <= entry'[t].references
               /\ entry'[t].references <= holds'[entry'[t].key]
    <3>1. CASE t = s
      BY <1>1, <1>2, <1>3, <1>5, <1>9, <2>1, <3>1 DEF CountInv, CountsAreHeld
    <3>2. CASE t # s
      BY <1>3, <1>5, <2>1, <2>2, <2>4, <3>2 DEF CountInv, CountsAreHeld
    <3> QED
      BY <3>1, <3>2
  <2>5. CountsAreHeld'
    BY <1>5, <2>4 DEF CountsAreHeld
  <2>6. ASSUME ~stray', NEW t \in Slots, entry'[t].key # NoKey
        PROVE  entry'[t].references = holds'[entry'[t].key]
    <3>1. entry[t].references = holds[entry[t].key] /\ holds'[k] = holds[k] - 1
      BY <1>6, <1>9, <2>1, <2>6 DEF CountInv, CountsAreExact
    <3> QED
      BY <1>3, <1>5, <1>9, <2>1, <2>2, <2>6, <3>1
  <2>7. ASSUME ~stray', NEW j \in Keys, holds'[j] # 0
        PROVE  \E t \in Slots : entry'[t].key = j
    <3>1. CASE j = k
      BY <1>9, <2>1, <3>1
    <3>2. CASE j # k
      BY <1>5, <1>6, <1>9, <2>1, <2>7, <3>2 DEF CountInv, CountsAreExact
    <3> QED
      BY <3>1, <3>2
  <2>8. CountsAreExact'
    BY <2>6, <2>7 DEF CountsAreExact
  <2> QED
    BY <1>7, <2>3, <2>5, <2>8 DEF CountInv
<1>10. ASSUME NEW s \in Slots, Found(k), entry[s].key = k, entry[s].references = 1,
              entry' = [entry EXCEPT ![s] = Unloaded(s)]
       PROVE  CountInv'
  <2>1. /\ entry'[s].key = NoKey
        /\ \A t \in Slots : t # s => entry'[t] = entry[t]
    BY <1>2, <1>10 DEF Entry, Unloaded
  <2>2. \A t \in Slots : t # s => entry[t].key # k
    BY <1>1, <1>10 DEF CountInv, OneEntryPerKey
  <2>3. OneEntryPerKey'
    BY <2>1 DEF CountInv, OneEntryPerKey
  <2>4. CountsAreHeld'
    BY <1>3, <1>5, <2>1, <2>2 DEF CountInv, CountsAreHeld
  <2>5. ~stray' => ~stray /\ holds'[k] = 0
    <3>1. ~stray => holds[k] = 1
      BY <1>1, <1>10 DEF CountInv, CountsAreExact
    <3> QED
      BY <1>6, <1>10, <3>1
  <2>6. CountsAreExact'
    BY <1>3, <1>5, <2>1, <2>2, <2>5, <1>10 DEF CountInv, CountsAreExact
  <2> QED
    BY <1>7, <2>3, <2>4, <2>6 DEF CountInv
<1> QED
  BY <1>1, <1>8, <1>9, <1>10, ReleaseEffect

LEMMA FinishLoadKeepsCounts ==
  ASSUME TypeOK, CountInv, FinishLoad
  PROVE  CountInv'
<1>1. PICK s \in Slots :
        /\ entry[s].key = NoKey
        /\ entry' = [entry EXCEPT ![s] =
             [key |-> job.key, references |-> 1, payload |-> job.payload]]
  BY DEF FinishLoad, Finds
<1>2. /\ job.op = "load" /\ job' = Idle
      /\ holds' = [holds EXCEPT ![job.key] = holds[job.key] + 1]
      /\ UNCHANGED <<forgotten, stray>>
  BY DEF FinishLoad, Held
<1>3. /\ entry \in [Slots -> Entry] /\ holds \in [Keys -> Nat] /\ forgotten \in [Keys -> Nat]
      /\ MaxHolds \in Nat
  BY PtxAssumption DEF TypeOK
<1>4. job.key \in Keys /\ job.key # NoKey
  <2>1. job = Idle \/ job \in SetUpJob \/ job \in LoadJob
    BY DEF TypeOK
  <2>2. job \in LoadJob
    BY <1>2, <2>1 DEF Idle, SetUpJob
  <2> QED
    BY <2>2, PtxAssumption DEF LoadJob
<1>5. /\ \A t \in Slots : entry[t].key # job.key
      /\ holds[job.key] + forgotten[job.key] < MaxHolds
  BY <1>2 DEF CountInv, LoadsAreFresh
<1>6. /\ entry'[s].key = job.key /\ entry'[s].references = 1
      /\ \A t \in Slots : t # s => entry'[t] = entry[t]
  BY <1>1, <1>3
<1>7. /\ holds'[job.key] = holds[job.key] + 1
      /\ \A j \in Keys : j # job.key => holds'[j] = holds[j]
  BY <1>2, <1>3, <1>4
<1>8. \A t \in Slots : entry[t].key # NoKey => entry[t].key \in Keys
  BY <1>3 DEF Entry
<1>9. OneEntryPerKey'
  BY <1>4, <1>5, <1>6 DEF CountInv, OneEntryPerKey
<1>10. CountsAreHeld'
  <2>1. ASSUME NEW t \in Slots, entry'[t].key # NoKey
        PROVE  1 <= entry'[t].references /\ entry'[t].references <= holds'[entry'[t].key]
    <3>1. CASE t = s
      BY <1>3, <1>4, <1>6, <1>7, <3>1
    <3>2. CASE t # s
      BY <1>5, <1>6, <1>7, <1>8, <2>1, <3>2 DEF CountInv, CountsAreHeld
    <3> QED
      BY <3>1, <3>2
  <2>2. \A j \in Keys : holds'[j] + forgotten'[j] <= MaxHolds
    BY <1>2, <1>3, <1>4, <1>5, <1>7 DEF CountInv, CountsAreHeld
  <2> QED
    BY <2>1, <2>2 DEF CountsAreHeld
<1>11. LoadsAreFresh'
  BY <1>2 DEF LoadsAreFresh, Idle
<1>12. CountsAreExact'
  <2>1. ~stray => holds[job.key] = 0
    BY <1>4, <1>5 DEF CountInv, CountsAreExact
  <2>2. ASSUME ~stray', NEW t \in Slots, entry'[t].key # NoKey
        PROVE  entry'[t].references = holds'[entry'[t].key]
    BY <1>2, <1>5, <1>6, <1>7, <1>8, <2>1, <2>2 DEF CountInv, CountsAreExact
  <2>3. ASSUME ~stray', NEW j \in Keys, holds'[j] # 0
        PROVE  \E t \in Slots : entry'[t].key = j
    <3>1. CASE j = job.key
      BY <1>6, <3>1
    <3>2. CASE j # job.key
      <4>1. PICK t \in Slots : entry[t].key = j
        BY <1>2, <1>7, <2>3, <3>2 DEF CountInv, CountsAreExact
      <4>2. t # s
        BY <1>1, <4>1, PtxAssumption
      <4> QED
        BY <1>6, <4>1, <4>2
    <3> QED
      BY <3>1, <3>2
  <2> QED
    BY <2>2, <2>3 DEF CountsAreExact
<1> QED
  BY <1>9, <1>10, <1>11, <1>12 DEF CountInv

LEMMA ConfigureKeepsCounts ==
  ASSUME TypeOK, CountInv, ConfigureReservation
  PROVE  CountInv' /\ \A s \in Slots : entry'[s].key = NoKey
<1>1. /\ job = Idle /\ job' = job
      /\ entry' = [s \in Slots |-> [entry[s] EXCEPT !.key = NoKey, !.references = 0]]
      /\ forgotten' = [k \in Keys |-> forgotten[k] + holds[k]]
      /\ holds' = [k \in Keys |-> 0]
  BY DEF ConfigureReservation
<1>2. \A s \in Slots : entry'[s].key = NoKey
  <2>1. \A s \in Slots : entry[s] \in Entry
    BY DEF TypeOK
  <2> QED
    BY <1>1, <2>1 DEF Entry
<1>3. ASSUME NEW k \in Keys
      PROVE  holds'[k] = 0 /\ holds'[k] + forgotten'[k] <= MaxHolds
  <2>1. holds[k] \in Nat /\ forgotten[k] \in Nat /\ holds[k] + forgotten[k] <= MaxHolds
    BY DEF TypeOK, CountInv, CountsAreHeld
  <2>2. holds'[k] = 0 /\ forgotten'[k] = forgotten[k] + holds[k]
    BY <1>1
  <2>3. 0 + (forgotten[k] + holds[k]) = holds[k] + forgotten[k]
    BY <2>1
  <2> QED
    BY <2>1, <2>2, <2>3
<1> QED
  BY <1>1, <1>2, <1>3
  DEF CountInv, OneEntryPerKey, CountsAreHeld, LoadsAreFresh, CountsAreExact, Idle

LEMMA StartLoadKeepsCounts ==
  ASSUME TypeOK, CountInv, NEW k \in Keys, StartLoad(k)
  PROVE  CountInv' /\ entry' = entry
<1>1. /\ holds[k] + forgotten[k] < MaxHolds /\ ~Found(k)
      /\ job'.op = "load" /\ job'.key = k
      /\ UNCHANGED <<entry, holds, forgotten, stray>>
  BY DEF StartLoad, cache
<1>2. \A s \in Slots : entry[s].key # k
  BY <1>1, SearchIsExact DEF CountInv
<1> QED
  BY <1>1, <1>2 DEF CountInv, OneEntryPerKey, CountsAreHeld, LoadsAreFresh, CountsAreExact

\* The other steps leave the table and the holders alone, and load no other key.
OtherStep ==
  \/ ParseFails \/ RecordsExhausted \/ PaletteRefused \/ BuildLevel \/ PlacementFails
  \/ FinishTexture \/ FinalizerFails
  \/ StartSetUp \/ SetUpEnds \/ BankUnplaced \/ BankPlaced \/ DestroyContext
  \/ UNCHANGED vars

LEMMA OtherStepKeepsCounts ==
  ASSUME TypeOK, CountInv, OtherStep
  PROVE  CountInv' /\ entry' = entry
<1>1. UNCHANGED <<entry, holds, forgotten, stray>>
  BY DEF OtherStep, ParseFails, RecordsExhausted, PaletteRefused, BuildLevel,
     PlacementFails, FinishTexture, FinalizerFails, StartSetUp, SetUpEnds,
     BankUnplaced, BankPlaced, DestroyContext, vars, cache
<1>2. job = Idle \/ job \in SetUpJob \/ job \in LoadJob
  BY DEF TypeOK
<1>3. job'.op = "load" => job.op = "load" /\ job'.key = job.key
  <2>1. CASE BuildLevel \/ FinishTexture
    <3>1. job \in LoadJob
      BY <1>2, <2>1 DEF BuildLevel, Building, Loading, FinishTexture, Idle, SetUpJob
    <3> QED
      BY <2>1, <3>1 DEF BuildLevel, FinishTexture, LoadJob
  <2>2. CASE BankPlaced
    <3>1. job \in SetUpJob
      BY <1>2, <2>2 DEF BankPlaced, SettingUp, Idle, LoadJob
    <3> QED
      BY <2>2, <3>1 DEF BankPlaced, SetUpJob, Idle
  <2>3. CASE StartSetUp
    BY <2>3 DEF StartSetUp
  <2>4. CASE UNCHANGED job
    BY <2>4
  <2>5. CASE job' = Idle
    BY <2>5 DEF Idle
  <2> QED
    BY <2>1, <2>2, <2>3, <2>4, <2>5
    DEF OtherStep, ParseFails, RecordsExhausted, PaletteRefused, PlacementFails,
        FinalizerFails, SetUpEnds, BankUnplaced, DestroyContext, vars, FailLoad
<1> QED
  BY <1>1, <1>3 DEF CountInv, OneEntryPerKey, CountsAreHeld, LoadsAreFresh, CountsAreExact

LEMMA CountStep ==
  ASSUME TypeOK, CountInv, [Next]_vars
  PROVE  CountInv'
BY ShareKeepsCounts, ReleaseKeepsCounts, FinishLoadKeepsCounts, ConfigureKeepsCounts,
   StartLoadKeepsCounts, OtherStepKeepsCounts
DEF Next, OtherStep

\* While no release is stray, a key is loaded exactly as long as somebody holds
\* it, and its entry counts its holders (acquire, release_ptx, reset_ptx_keys).
THEOREM LoadedWhileHeld == Spec => []HeldMeansLoaded
<1>1. TypeOK /\ CountInv => HeldMeansLoaded
  <2> SUFFICES ASSUME TypeOK, CountInv, ~stray, NEW k \in Keys
               PROVE  IF holds[k] = 0 THEN ~Found(k)
                      ELSE \E s \in Slots : Finds(s, k) /\ entry[s].references = holds[k]
    BY DEF HeldMeansLoaded
  <2>1. /\ \A s \in Slots : Finds(s, k) <=> entry[s].key = k
        /\ Found(k) <=> \E s \in Slots : entry[s].key = k
    BY SearchIsExact DEF CountInv
  <2>2. k # NoKey
    BY PtxAssumption
  <2>3. CASE holds[k] = 0
    <3>1. ASSUME NEW s \in Slots, entry[s].key = k PROVE FALSE
      <4>1. entry[s].references \in Nat
        BY <2>2, <3>1, NoWrap DEF CountInv
      <4> QED
        BY <2>2, <2>3, <3>1, <4>1 DEF CountInv, CountsAreHeld
    <3> QED
      BY <2>1, <2>3, <3>1
  <2>4. CASE holds[k] # 0
    BY <2>1, <2>2, <2>4 DEF CountInv, CountsAreExact
  <2> QED
    BY <2>3, <2>4
<1> QED
  BY PoolInit, PoolStep, CountInit, CountStep, <1>1, PTL DEF Spec, PoolInv

-----------------------------------------------------------------------------
(* The table as a counted cache. *)

\* The count of a key is that of its entry, and 0 without one.
CountsTheEntries ==
  \A k \in Keys :
    /\ \A s \in Slots : entry[s].key = k => Count(k) = entry[s].references
    /\ (\A s \in Slots : entry[s].key # k) => Count(k) = 0

LEMMA CountIsReferences == OneEntryPerKey => CountsTheEntries
<1> SUFFICES ASSUME OneEntryPerKey, NEW k \in Keys
             PROVE  /\ \A s \in Slots : entry[s].key = k => Count(k) = entry[s].references
                    /\ (\A s \in Slots : entry[s].key # k) => Count(k) = 0
  BY DEF CountsTheEntries
<1>1. /\ \A s \in Slots : Finds(s, k) <=> entry[s].key = k
      /\ Found(k) <=> \E s \in Slots : entry[s].key = k
  BY SearchIsExact
<1>2. ASSUME NEW s \in Slots, entry[s].key = k PROVE Count(k) = entry[s].references
  <2>1. Found(k) /\ Finds(s, k)
    BY <1>1, <1>2
  <2>2. (CHOOSE t \in Slots : Finds(t, k)) = s
    <3>1. (CHOOSE t \in Slots : Finds(t, k)) \in Slots
          /\ Finds(CHOOSE t \in Slots : Finds(t, k), k)
      BY <2>1
    <3> QED
      BY <1>1, <1>2, <3>1, PtxAssumption DEF OneEntryPerKey
  <2> QED
    BY <2>1, <2>2 DEF Count
<1>3. ASSUME \A s \in Slots : entry[s].key # k PROVE Count(k) = 0
  BY <1>1, <1>3 DEF Count
<1> QED
  BY <1>2, <1>3

LEMMA CountIsReferencesNext == OneEntryPerKey' => CountsTheEntries'
BY CountIsReferences, PTL

\* A counted entry is one of Keys, and its count is not 0.
LEMMA LoadedKeys ==
  ASSUME TypeOK, CountInv
  PROVE  Counted!Loaded = {entry[s].key : s \in {t \in Slots : entry[t].key # NoKey}}
<1>1. CountsTheEntries
  BY CountIsReferences DEF CountInv
<1>2. ASSUME NEW s \in Slots, entry[s].key # NoKey
      PROVE  entry[s].key \in Keys /\ Count(entry[s].key) # 0
  <2>1. entry[s].key \in Keys /\ 1 <= entry[s].references /\ entry[s].references \in Nat
    BY <1>2, NoWrap DEF CountInv, CountsAreHeld
  <2> QED
    BY <1>1, <2>1 DEF CountsTheEntries
<1>3. ASSUME NEW k \in Keys, Count(k) # 0
      PROVE  \E s \in Slots : entry[s].key = k /\ entry[s].key # NoKey
  BY <1>1, <1>3, PtxAssumption DEF CountsTheEntries
<1> QED
  BY <1>2, <1>3 DEF Counted!Loaded

\* An entry that is vacant leaves room for one key more.
LEMMA VacancyIsRoom ==
  ASSUME TypeOK, CountInv, NEW s \in Slots, entry[s].key = NoKey
  PROVE  Cardinality(Counted!Loaded) < NumSlots
<1> DEFINE D == {t \in Slots : entry[t].key # NoKey}
           L == {entry[t].key : t \in D}
           f == [t \in D |-> entry[t].key]
<1>1. /\ IsFiniteSet(Slots) /\ Cardinality(Slots) = NumSlots
  <2>1. NumSlots \in Int /\ NumSlots \in Nat /\ 1 \in Int
    BY PtxAssumption
  <2>2. IsFiniteSet(1 .. NumSlots) /\ Cardinality(1 .. NumSlots) = IF 1 > NumSlots THEN 0 ELSE NumSlots - 1 + 1
    BY <2>1, FS_Interval
  <2> QED
    BY <2>1, <2>2 DEF Slots
<1>2. D \in SUBSET (Slots \ {s})
  OBVIOUS
<1>3. IsFiniteSet(Slots \ {s}) /\ Cardinality(Slots \ {s}) = NumSlots - 1
  BY <1>1, FS_RemoveElement
<1>4. IsFiniteSet(D) /\ Cardinality(D) <= NumSlots - 1
  BY <1>2, <1>3, FS_Subset
<1>5. f \in Surjection(D, L)
  BY DEF Surjection
<1> HIDE DEF D, L, f
<1>6. IsFiniteSet(L) /\ Cardinality(L) <= Cardinality(D)
  BY <1>4, <1>5, FS_Surjection
<1>7. Cardinality(L) \in Nat /\ Cardinality(D) \in Nat
  BY <1>4, <1>6, FS_CardinalityType
<1>8. Cardinality(L) < NumSlots
  BY <1>4, <1>6, <1>7, PtxAssumption
<1> QED
  BY <1>8, LoadedKeys DEF L, D

CountOf == [k \in Keys |-> Count(k)]

\* One key changes its count, the entries of the others stay what they were.
LEMMA OthersKeepCounts ==
  ASSUME CountInv, CountInv', NEW k \in Keys, NEW s \in Slots,
         entry[s].key \in {k, NoKey}, entry'[s].key \in {k, NoKey},
         \A t \in Slots : t # s =>
           entry'[t].key = entry[t].key /\ entry'[t].references = entry[t].references
  PROVE  \A j \in Keys : j # k => Count(j)' = Count(j)
<1>1. CountsTheEntries /\ CountsTheEntries'
  BY CountIsReferences, CountIsReferencesNext DEF CountInv
<1> SUFFICES ASSUME NEW j \in Keys, j # k PROVE Count(j)' = Count(j)
  OBVIOUS
<1>2. entry[s].key # j /\ entry'[s].key # j
  BY PtxAssumption
<1>3. CASE \E t \in Slots : entry[t].key = j
  BY <1>1, <1>2, <1>3 DEF CountsTheEntries
<1>4. CASE \A t \in Slots : entry[t].key # j
  <2>1. \A t \in Slots : entry'[t].key # j
    BY <1>2, <1>4
  <2> QED
    BY <1>1, <1>4, <2>1 DEF CountsTheEntries
<1> QED
  BY <1>3, <1>4

LEMMA ShareCounts ==
  ASSUME TypeOK, CountInv, NEW k \in Keys, Share(k)
  PROVE  Counted!Share(k)
<1>1. CountInv'
  BY ShareKeepsCounts
<1>2. PICK s \in Slots :
        /\ entry[s].key = k
        /\ entry' = [entry EXCEPT ![s].references = entry[s].references + 1]
  BY ShareKeepsCounts
<1>3. /\ entry'[s].key = k /\ entry'[s].references = entry[s].references + 1
      /\ \A t \in Slots : t # s =>
           entry'[t].key = entry[t].key /\ entry'[t].references = entry[t].references
  BY <1>2 DEF TypeOK, Entry
<1>4. \A j \in Keys : j # k => Count(j)' = Count(j)
  BY <1>1, <1>2, <1>3, OthersKeepCounts
<1>5. Count(k) = entry[s].references /\ Count(k)' = entry'[s].references
  BY <1>1, <1>2, <1>3, CountIsReferences, CountIsReferencesNext DEF CountInv, CountsTheEntries
<1>6. Count(k) # 0
  BY <1>2, <1>5, NoWrap, PtxAssumption DEF CountInv, CountsAreHeld
<1>7. CountOf[k] = Count(k) /\ \A j \in Keys : Count(j)' = IF j = k THEN CountOf[k] + 1 ELSE Count(j)
  BY <1>3, <1>4, <1>5 DEF CountOf
<1>8. CountOf' = [CountOf EXCEPT ![k] = CountOf[k] + 1]
  BY <1>7 DEF CountOf
<1> QED
  BY <1>6, <1>7, <1>8 DEF Counted!Share, CountOf

LEMMA LoadCounts ==
  ASSUME TypeOK, CountInv, FinishLoad
  PROVE  \E k \in Keys : Counted!Load(k)
<1>1. CountInv'
  BY FinishLoadKeepsCounts
<1>2. PICK s \in Slots :
        /\ entry[s].key = NoKey
        /\ entry' = [entry EXCEPT ![s] =
             [key |-> job.key, references |-> 1, payload |-> job.payload]]
  BY DEF FinishLoad, Finds
<1>3. job.key \in Keys /\ \A t \in Slots : entry[t].key # job.key
  <2>1. job.op = "load"
    BY DEF FinishLoad
  <2>2. job = Idle \/ job \in SetUpJob \/ job \in LoadJob
    BY DEF TypeOK
  <2>3. job \in LoadJob
    BY <2>1, <2>2 DEF Idle, SetUpJob
  <2> QED
    BY <2>1, <2>3 DEF LoadJob, CountInv, LoadsAreFresh
<1> DEFINE k == job.key
<1>4. /\ entry'[s].key = k /\ entry'[s].references = 1
      /\ \A t \in Slots : t # s => entry'[t] = entry[t]
  BY <1>2 DEF TypeOK
<1>5. Count(k) = 0
  BY <1>3, CountIsReferences DEF CountInv, CountsTheEntries
<1> HIDE DEF k
<1>6. k \in Keys
  BY <1>3 DEF k
<1>7. \A j \in Keys : j # k => Count(j)' = Count(j)
  BY <1>1, <1>2, <1>4, <1>6, OthersKeepCounts
<1>8. CountOf' = [CountOf EXCEPT ![k] = 1]
  <2>1. \A j \in Keys : Count(j)' = IF j = k THEN 1 ELSE Count(j)
    BY <1>1, <1>4, <1>6, <1>7, CountIsReferencesNext DEF CountInv, CountsTheEntries
  <2> QED
    BY <1>6, <2>1 DEF CountOf
<1>9. Counted!Cardinality(Counted!Loaded) < NumSlots
  <2>1. Cardinality(Counted!Loaded) < NumSlots
    BY <1>2, VacancyIsRoom
  <2>2. Counted!Cardinality(Counted!Loaded) = Cardinality(Counted!Loaded)
    BY DEF Counted!Cardinality, Cardinality, Counted!IsFiniteSet, IsFiniteSet
  <2> QED
    BY <2>1, <2>2
<1>10. CountOf[k] = 0
  BY <1>5, <1>6 DEF CountOf, k
<1>11. Counted!Load(k)
  BY <1>8, <1>9, <1>10 DEF Counted!Load, CountOf
<1> QED
  BY <1>6, <1>11

LEMMA ReleaseCounts ==
  ASSUME TypeOK, CountInv, NEW k \in Keys, ReleaseHeld(k) \/ ReleaseForgotten(k)
  PROVE  Counted!Release(k) \/ CountOf' = CountOf
<1>1. CountInv'
  BY ReleaseKeepsCounts
<1>2. ReleaseEntry(k)
  BY DEF ReleaseHeld, ReleaseForgotten
<1>3. CASE entry' = entry
  <2>1. \A j \in Keys : Count(j)' = Count(j)
    BY <1>3 DEF Count, Found, Finds
  <2> QED
    BY <2>1 DEF CountOf
<1>4. ASSUME NEW s \in Slots, entry[s].key = k, entry[s].references > 1,
             entry' = [entry EXCEPT ![s].references = entry[s].references - 1]
      PROVE  Counted!Release(k)
  <2>1. /\ entry'[s].key = k /\ entry'[s].references = entry[s].references - 1
        /\ \A t \in Slots : t # s =>
             entry'[t].key = entry[t].key /\ entry'[t].references = entry[t].references
    BY <1>4 DEF TypeOK, Entry
  <2>2. \A j \in Keys : j # k => Count(j)' = Count(j)
    BY <1>1, <1>4, <2>1, OthersKeepCounts
  <2>3. Count(k) = entry[s].references /\ Count(k)' = entry'[s].references
    BY <1>1, <1>4, <2>1, CountIsReferences, CountIsReferencesNext
    DEF CountInv, CountsTheEntries
  <2>4. Count(k) # 0
    BY <1>4, <2>3, NoWrap, PtxAssumption DEF CountInv, CountsAreHeld
  <2>5. CountOf[k] = Count(k) /\ \A j \in Keys : Count(j)' = IF j = k THEN CountOf[k] - 1 ELSE Count(j)
    BY <2>1, <2>2, <2>3 DEF CountOf
  <2>6. CountOf' = [CountOf EXCEPT ![k] = CountOf[k] - 1]
    BY <2>5 DEF CountOf
  <2> QED
    BY <2>4, <2>5, <2>6 DEF Counted!Release, CountOf
<1>5. ASSUME NEW s \in Slots, entry[s].key = k, entry[s].references = 1,
             entry' = [entry EXCEPT ![s] = Unloaded(s)]
      PROVE  Counted!Release(k)
  <2>1. /\ entry'[s].key = NoKey
        /\ \A t \in Slots : t # s => entry'[t] = entry[t]
    BY <1>5 DEF TypeOK, Entry, Unloaded
  <2>2. \A j \in Keys : j # k => Count(j)' = Count(j)
    BY <1>1, <1>5, <2>1, OthersKeepCounts
  <2>3. \A t \in Slots : entry'[t].key # k
    BY <1>5, <2>1, PtxAssumption DEF CountInv, OneEntryPerKey
  <2>4. Count(k) = 1 /\ Count(k)' = 0
    BY <1>1, <1>5, <2>3, CountIsReferences, CountIsReferencesNext
    DEF CountInv, CountsTheEntries
  <2>5. CountOf[k] = 1 /\ \A j \in Keys : Count(j)' = IF j = k THEN CountOf[k] - 1 ELSE Count(j)
    BY <2>2, <2>4 DEF CountOf
  <2>6. CountOf' = [CountOf EXCEPT ![k] = CountOf[k] - 1]
    BY <2>5 DEF CountOf
  <2> QED
    BY <2>5, <2>6 DEF Counted!Release, CountOf
<1> QED
  BY <1>2, <1>3, <1>4, <1>5, ReleaseEffect

LEMMA ForgetCounts ==
  ASSUME TypeOK, CountInv, ConfigureReservation
  PROVE  Counted!Forget
<1>1. CountInv' /\ \A s \in Slots : entry'[s].key = NoKey
  BY ConfigureKeepsCounts
<1>2. \A k \in Keys : Count(k)' = 0
  BY <1>1, CountIsReferencesNext, PtxAssumption DEF CountInv, CountsTheEntries
<1> QED
  BY <1>2 DEF Counted!Forget

LEMMA CountedInit == Init => Counted!Init
<1> SUFFICES ASSUME Init PROVE Counted!Init
  OBVIOUS
<1>1. \A s \in Slots : entry[s].key = NoKey
  BY DEF Init, Vacant
<1>2. \A k \in Keys : Count(k) = 0
  BY <1>1, CountInit, CountIsReferences, PtxAssumption DEF CountInv, CountsTheEntries
<1> QED
  BY <1>2 DEF Counted!Init

LEMMA CountedStep ==
  ASSUME TypeOK, CountInv, [Next]_vars
  PROVE  [Counted!Next]_CountOf
<1>1. ASSUME NEW k \in Keys, Share(k) PROVE Counted!Next
  BY <1>1, ShareCounts DEF Counted!Next
<1>2. ASSUME NEW k \in Keys, ReleaseHeld(k) \/ ReleaseForgotten(k)
      PROVE  [Counted!Next]_CountOf
  BY <1>2, ReleaseCounts DEF Counted!Next
<1>3. CASE FinishLoad
  BY <1>3, LoadCounts DEF Counted!Next
<1>4. CASE ConfigureReservation
  BY <1>4, ForgetCounts DEF Counted!Next
<1>5. ASSUME entry' = entry PROVE CountOf' = CountOf
  <2>1. \A j \in Keys : Count(j)' = Count(j)
    BY <1>5 DEF Count, Found, Finds
  <2> QED
    BY <2>1 DEF CountOf
<1>6. ASSUME NEW k \in Keys, StartLoad(k) PROVE entry' = entry
  BY <1>6, StartLoadKeepsCounts
<1>7. CASE OtherStep
  BY <1>5, <1>7, OtherStepKeepsCounts
<1> QED
  BY <1>1, <1>2, <1>3, <1>4, <1>5, <1>6, <1>7 DEF Next, OtherStep

\* The table implements the counted cache (acquire, release_ptx, reset_ptx_keys).
THEOREM ImplementsCache == Spec => RefinesCache
<1>1. Spec => [](TypeOK /\ CountInv)
  BY PoolInit, PoolStep, CountInit, CountStep, PTL DEF Spec, PoolInv
<1>2. TypeOK /\ CountInv /\ [Next]_vars => [Counted!Next]_[k \in Keys |-> Count(k)]
  BY CountedStep DEF CountOf
<1> QED
  BY <1>1, <1>2, CountedInit, PTL DEF Spec, RefinesCache, Counted!Spec
=============================================================================
