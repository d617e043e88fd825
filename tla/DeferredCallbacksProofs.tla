----------------------- MODULE DeferredCallbacksProofs -----------------------
(***************************************************************************)
(* Theorems about DeferredCallbacks, for any number of records, queues,    *)
(* callbacks and drains inside drains.  The inductive invariant says which *)
(* list every record is in and how far from its end, so that a step is the *)
(* move of a first record to the front of another list; what Walk and      *)
(* Chain compute along the links follows from it.                          *)
(*                                                                         *)
(* Callers are assumed not to enqueue on a queue that is being drained and *)
(* to keep no more records in use than the pool has; the runs              *)
(* callback_reentrant and pool_refill show what happens if they do.        *)
(***************************************************************************)
EXTENDS DeferredCallbacks, FiniteSetTheorems, SequenceTheorems, TLAPS

\* What the theorems ask of callers.
CallersBehave == ~Reentrant /\ MaxPending <= Prealloc

\* The owner of free records, and of all others the queue they are in.
Pool == CHOOSE x : x \notin Queue
Owner == Queue \union {Pool}

\* The first record of every list, when fr is the first free one.
Firsts(fr) == [o \in Owner |-> IF o = Pool THEN fr ELSE head[o]]

(***************************************************************************)
(* The links nx arrange the records in lists: each record belongs to one   *)
(* owner and has a rank, 1 at the end of its list and one more at each     *)
(* record before it, up to the first.                                      *)
(***************************************************************************)
Lists(nx, first, owner, rank) ==
  /\ owner \in [Record -> Owner]
  /\ rank \in [Record -> Nat \ {0}]
  /\ \A r \in Record : nx[r] = 0 => rank[r] = 1
  /\ \A r \in Record :
       nx[r] # 0 => owner[nx[r]] = owner[r] /\ rank[nx[r]] = rank[r] - 1
  /\ \A r, s \in Record : owner[r] = owner[s] /\ rank[r] = rank[s] => r = s
  /\ \A o \in Owner : first[o] # 0 => owner[first[o]] = o
  /\ \A r \in Record : first[owner[r]] # 0 /\ rank[r] <= rank[first[owner[r]]]
  /\ \A r \in Record : \A k \in 1 .. rank[r] :
       \E s \in Record : owner[s] = owner[r] /\ rank[s] = k

InQueues(owner) == {r \in Record : owner[r] # Pool}

Called == {stack[k].at : k \in DOMAIN stack}

\* The records in queues and the callbacks not called yet account for each
\* other, and callbacks get older along a queue.
Calls(nx, jb, owner) ==
  /\ Cardinality(InQueues(owner)) = Pending
  /\ \A r \in InQueues(owner) :
       jb[r] \in 1 .. submitted /\ runs[jb[r]] = IF r \in Called THEN 1 ELSE 0
  /\ \A r, s \in InQueues(owner) : jb[r] = jb[s] => r = s
  /\ \A j \in 1 .. submitted : runs[j] = 0 => \E r \in InQueues(owner) : jb[r] = j
  /\ \A r \in InQueues(owner) : nx[r] # 0 => jb[nx[r]] < jb[r]

\* A queue is drained once at a time, and its frame stands at its head.
Frames ==
  /\ \A j, k \in DOMAIN stack : stack[j].queue = stack[k].queue => j = k
  /\ \A k \in DOMAIN stack : stack[k].at = head[stack[k].queue]

\* What a frame saved is still what follows.
Saved(nx) == \A k \in DOMAIN stack : stack[k].saved = nx[stack[k].at]

\* No callback was ever called that was not enqueued, or called again.
RunsOnce ==
  \A j \in 1 .. MaxJobs : runs[j] \in {0, 1} /\ (j > submitted => runs[j] = 0)

Untouched == free = 0 /\ head = [q \in Queue |-> 0] /\ stack = <<>>

FrameType == [queue: Queue, at: Record, saved: Record \union {0}]

Typed == TypeOK /\ stack \in Seq(FrameType)

PoolInv ==
  /\ Typed /\ Frames /\ RunsOnce /\ Saved(next)
  /\ IF submitted = 0 THEN Untouched
     ELSE \E owner, rank : Lists(next, Firsts(free), owner, rank) /\ Calls(next, job, owner)

-----------------------------------------------------------------------------
(* Walking along a list. *)

\* Every nonempty set of numbers has a least element: sets of numbers below a
\* number are finite, and strict inclusion of finite sets is well founded.
LEMMA LeastElement ==
  ASSUME NEW S, S \subseteq Nat, S # {}
  PROVE  \E m \in S : \A n \in S : m <= n
<1> DEFINE UpTo(n) == 0 .. n - 1
           T == {UpTo(n) : n \in S}
<1>1. IsWellFoundedOn(StrictSubsetOrdering(Nat), FiniteSubsetsOf(Nat))
  BY FS_StrictSubsetOrderingWellFounded
<1>2. T \subseteq FiniteSubsetsOf(Nat) /\ T # {}
  <2>1. ASSUME NEW n \in Nat PROVE IsFiniteSet(UpTo(n)) /\ UpTo(n) \subseteq Nat
    BY FS_Interval
  <2> QED
    BY <2>1 DEF FiniteSubsetsOf
<1>3. PICK x \in T : \A y \in T : <<y, x>> \notin StrictSubsetOrdering(Nat)
  <2> HIDE DEF T
  <2> QED
    BY <1>1, <1>2, WFMin
<1>4. PICK m \in S : x = UpTo(m)
  OBVIOUS
<1>5. ASSUME NEW n \in S, n < m PROVE FALSE
  <2>1. UpTo(n) \subseteq UpTo(m) /\ UpTo(n) # UpTo(m) /\ UpTo(m) \subseteq Nat
    BY <1>5
  <2>2. <<UpTo(n), UpTo(m)>> \in StrictSubsetOrdering(Nat)
    BY <2>1 DEF StrictSubsetOrdering
  <2> QED
    BY <1>3, <1>4, <2>2
<1> QED
  BY <1>5


(***************************************************************************)
(* From the last of n records, each linked to the one before it and the    *)
(* first to none, a walk visits them all and nothing else.                 *)
(***************************************************************************)
LEMMA WalkAlong ==
  ASSUME Prealloc \in Nat, NEW n \in 0 .. Prealloc, NEW s \in [1 .. n -> Record],
         \A i \in 1 .. n : next[s[i]] = IF i = 1 THEN 0 ELSE s[i - 1],
         NEW h, h = IF n = 0 THEN 0 ELSE s[n]
  PROVE  Chain(h) = {s[i] : i \in 1 .. n} /\ Terminates(h)
<1> DEFINE Step(w, k) == IF k = 0 THEN h ELSE IF w[k - 1] = 0 THEN 0 ELSE next[w[k - 1]]
           Along(w) == w = [k \in 0 .. Prealloc |-> Step(w, k)]
<1>0. \A i \in 1 .. n : s[i] \in Record /\ s[i] # 0
  BY DEF Record
<1>1. PICK v : v = [k \in 0 .. Prealloc |-> IF k < n THEN s[n - k] ELSE 0]
  OBVIOUS
<1>2. Along(v)
  <2>1. ASSUME NEW k \in 0 .. Prealloc
        PROVE  v[k] = Step(v, k)
    <3>1. CASE k = 0
      BY <1>1, <3>1
    <3>2. CASE k # 0
      <4>1. v[k - 1] = IF k - 1 < n THEN s[n - (k - 1)] ELSE 0
        BY <1>1, <3>2
      <4>2. CASE k - 1 < n
        <5>1. n - (k - 1) \in 1 .. n /\ (n - (k - 1) = 1 <=> ~(k < n))
              /\ n - (k - 1) - 1 = n - k
          BY <3>2, <4>2
        <5>2. next[s[n - (k - 1)]] = IF k < n THEN s[n - k] ELSE 0
          BY <5>1
        <5> QED
          BY <1>0, <1>1, <3>2, <4>1, <4>2, <5>1, <5>2
      <4>3. CASE ~(k - 1 < n)
        BY <1>1, <3>2, <4>1, <4>3
      <4> QED
        BY <4>2, <4>3
    <3> QED
      BY <3>1, <3>2
  <2>2. v = [k \in 0 .. Prealloc |-> v[k]]
    BY <1>1
  <2> HIDE DEF Step
  <2> QED
    BY <2>1, <2>2
<1>3. ASSUME NEW w, Along(w)
      PROVE  w = v
  <2> DEFINE Differ == {k \in 0 .. Prealloc : w[k] # v[k]}
  <2>1. ASSUME Differ # {} PROVE FALSE
    <3>1. Differ \subseteq Nat
      OBVIOUS
    <3>2. PICK m \in Differ : \A k \in Differ : m <= k
      <4> HIDE DEF Differ
      <4> QED
        BY <2>1, <3>1, LeastElement
    <3>3. m \in 0 .. Prealloc /\ w[m] = Step(w, m) /\ v[m] = Step(v, m)
      <4> HIDE DEF Step
      <4>1. \A k \in 0 .. Prealloc : w[k] = Step(w, k) /\ v[k] = Step(v, k)
        BY <1>2, <1>3
      <4> QED
        BY <4>1
    <3>4. m # 0
      BY <3>2, <3>3
    <3>5. m - 1 \in 0 .. Prealloc /\ w[m - 1] = v[m - 1]
      BY <3>2, <3>3, <3>4
    <3> QED
      BY <3>2, <3>3, <3>4, <3>5
  <2>2. w = [k \in 0 .. Prealloc |-> w[k]] /\ v = [k \in 0 .. Prealloc |-> v[k]]
    <3> HIDE DEF Step
    <3> QED
      BY <1>1, <1>3
  <2> QED
    BY <2>1, <2>2
<1>4. Walk(h) = v
  <2>1. Walk(h) = CHOOSE w : Along(w)
    BY DEF Walk
  <2> HIDE DEF Along
  <2> QED
    BY <1>2, <1>3, <2>1
<1>5. Terminates(h)
  BY <1>1, <1>4 DEF Terminates
<1>6. Chain(h) = {s[i] : i \in 1 .. n}
  <2>1. ASSUME NEW k \in 0 .. Prealloc, v[k] # 0
        PROVE  \E i \in 1 .. n : v[k] = s[i]
    <3>1. k < n /\ n - k \in 1 .. n /\ v[k] = s[n - k]
      BY <1>1, <2>1
    <3> QED
      BY <3>1
  <2>2. ASSUME NEW i \in 1 .. n
        PROVE  \E k \in 0 .. Prealloc : v[k] = s[i] /\ v[k] # 0
    <3>1. n - i \in 0 .. Prealloc /\ n - i < n /\ n - (n - i) = i
      OBVIOUS
    <3>2. v[n - i] = s[i]
      BY <1>1, <3>1
    <3> QED
      BY <1>0, <3>1, <3>2
  <2>3. Chain(h) = {v[k] : k \in 0 .. Prealloc} \ {0}
    BY <1>4 DEF Chain
  <2>4. ASSUME NEW x \in Chain(h) PROVE x \in {s[i] : i \in 1 .. n}
    <3>1. PICK k \in 0 .. Prealloc : x = v[k] /\ v[k] # 0
      BY <2>3
    <3> QED
      BY <2>1, <3>1
  <2>5. ASSUME NEW i \in 1 .. n PROVE s[i] \in Chain(h)
    <3>1. PICK k \in 0 .. Prealloc : v[k] = s[i] /\ v[k] # 0
      BY <2>2
    <3> QED
      BY <2>3, <3>1
  <2> QED
    BY <2>4, <2>5
<1> QED
  BY <1>5, <1>6

-----------------------------------------------------------------------------
(* Lists of records. *)

LEMMA PoolIsNoQueue == Pool \notin Queue
BY NoSetContainsEverything DEF Pool

\* A rank counts records, so it cannot exceed their number.
LEMMA RankBound ==
  ASSUME NEW nx, NEW first, NEW owner, NEW rank, Lists(nx, first, owner, rank),
         NEW r \in Record
  PROVE  rank[r] \in 1 .. Prealloc
<1>0. Prealloc \in Nat /\ rank[r] \in Nat \ {0}
  BY BoundsAssumption DEF Lists
<1>1. SUFFICES ASSUME rank[r] > Prealloc PROVE FALSE
  BY <1>0
<1>2. PICK s : s = [k \in 1 .. rank[r] |->
                      CHOOSE x \in Record : owner[x] = owner[r] /\ rank[x] = k]
  OBVIOUS
<1>3. ASSUME NEW k \in 1 .. rank[r]
      PROVE  s[k] \in Record /\ rank[s[k]] = k
  <2>1. \E x \in Record : owner[x] = owner[r] /\ rank[x] = k
    BY DEF Lists
  <2> QED
    BY <1>2, <2>1
<1>4. s \in [1 .. rank[r] -> Record]
  BY <1>2, <1>3
<1>5. /\ IsFiniteSet(1 .. rank[r]) /\ Cardinality(1 .. rank[r]) = rank[r]
      /\ IsFiniteSet(Record) /\ Cardinality(Record) = Prealloc
  <2>1. ASSUME NEW n \in Nat \ {0}
        PROVE  IsFiniteSet(1 .. n) /\ Cardinality(1 .. n) = n
    <3>1. /\ IsFiniteSet(1 .. n)
          /\ Cardinality(1 .. n) = IF 1 > n THEN 0 ELSE n - 1 + 1
      BY FS_Interval
    <3> QED
      BY <3>1
  <2> QED
    BY <1>0, <2>1, BoundsAssumption DEF Record
<1>6. PICK j \in 1 .. rank[r], k \in 1 .. rank[r] : j # k /\ s[j] = s[k]
  <2>1. Cardinality(Record) < Cardinality(1 .. rank[r])
    BY <1>0, <1>1, <1>5
  <2> DEFINE S == 1 .. rank[r]
  <2>2. IsFiniteSet(S) /\ IsFiniteSet(Record) /\ s \in [S -> Record]
        /\ Cardinality(Record) < Cardinality(S)
    BY <1>4, <1>5, <2>1
  <2>3. \E x, y \in S : x # y /\ s[x] = s[y]
    <3> HIDE DEF S
    <3> QED
      BY <2>2, FS_PigeonHole
  <2> QED
    BY <2>3
<1> QED
  BY <1>3, <1>6

\* The walk from the first record of an owner visits the records it owns.
LEMMA ListIsChain ==
  ASSUME TypeOK, NEW fr, NEW owner, NEW rank, Lists(next, Firsts(fr), owner, rank),
         NEW o \in Owner, fr \in Record \union {0}
  PROVE  /\ Chain(Firsts(fr)[o]) = {r \in Record : owner[r] = o}
         /\ Terminates(Firsts(fr)[o])
<1> DEFINE h == Firsts(fr)[o]
<1>0. Prealloc \in Nat
  BY BoundsAssumption
<1>1. h \in Record \union {0} /\ 0 \notin Record
  BY DEF Firsts, Owner, TypeOK, Record
<1>2. PICK n : n = IF h = 0 THEN 0 ELSE rank[h]
  OBVIOUS
<1>3. n \in 0 .. Prealloc
  BY <1>0, <1>1, <1>2, RankBound
<1>4. PICK s : s = [k \in 1 .. n |-> CHOOSE x \in Record : owner[x] = o /\ rank[x] = k]
  OBVIOUS
<1>5. ASSUME NEW k \in 1 .. n
      PROVE  s[k] \in Record /\ owner[s[k]] = o /\ rank[s[k]] = k
  <2>1. h # 0 /\ h \in Record /\ owner[h] = o /\ n = rank[h]
    BY <1>0, <1>1, <1>2, <1>3 DEF Lists
  <2>2. \E x \in Record : owner[x] = o /\ rank[x] = k
    BY <2>1 DEF Lists
  <2> QED
    BY <1>4, <2>2
<1>6. ASSUME NEW r \in Record, owner[r] = o
      PROVE  rank[r] \in 1 .. n /\ r = s[rank[r]]
  <2>1. h # 0 /\ rank[r] <= rank[h]
    BY <1>6 DEF Lists
  <2>2. rank[r] \in 1 .. n
    BY <1>0, <1>2, <1>3, <2>1, RankBound
  <2> QED
    BY <1>5, <1>6, <2>2 DEF Lists
<1>7. s \in [1 .. n -> Record]
  BY <1>4, <1>5
<1>8. ASSUME NEW i \in 1 .. n
      PROVE  next[s[i]] = IF i = 1 THEN 0 ELSE s[i - 1]
  <2>1. s[i] \in Record /\ owner[s[i]] = o /\ rank[s[i]] = i
        /\ next[s[i]] \in Record \union {0}
    BY <1>5 DEF TypeOK
  <2>2. CASE i = 1
    <3>1. next[s[i]] # 0 => rank[next[s[i]]] = 0 /\ next[s[i]] \in Record
      BY <2>1, <2>2 DEF Lists
    <3>2. next[s[i]] = 0
      BY <1>0, <3>1, RankBound
    <3> QED
      BY <2>2, <3>2
  <2>3. CASE i # 1
    <3>1. next[s[i]] \in Record /\ owner[next[s[i]]] = o /\ rank[next[s[i]]] = i - 1
      BY <2>1, <2>3 DEF Lists
    <3> QED
      BY <1>6, <2>3, <3>1
  <2> QED
    BY <2>2, <2>3
<1>9. h = IF n = 0 THEN 0 ELSE s[n]
  <2>1. CASE h = 0
    BY <1>2, <2>1
  <2>2. CASE h # 0
    <3>1. h \in Record /\ owner[h] = o /\ n = rank[h]
      BY <1>1, <1>2, <2>2 DEF Lists
    <3> QED
      BY <1>3, <1>6, <3>1
  <2> QED
    BY <2>1, <2>2
<1>10. Chain(h) = {s[i] : i \in 1 .. n} /\ Terminates(h)
  <2> HIDE DEF h
  <2> QED
    BY <1>0, <1>3, <1>7, <1>8, <1>9, WalkAlong
<1>11. {s[i] : i \in 1 .. n} = {r \in Record : owner[r] = o}
  BY <1>5, <1>6
<1> QED
  BY <1>10, <1>11
-----------------------------------------------------------------------------
(* Types. *)

LEMMA RefilledTyped ==
  ASSUME TypeOK
  PROVE  /\ Refilled.next \in [Record -> Record \union {0}]
         /\ Refilled.job \in [Record -> 0 .. MaxJobs]
         /\ Refilled.free \in Record \union {0}
<1>1. CASE free = 0
  <2>1. /\ Refilled.next = [r \in Record |-> r - 1]
        /\ Refilled.job = [r \in Record |-> 0]
        /\ Refilled.free = Prealloc
    BY <1>1 DEF Refilled
  <2> QED
    BY <2>1, BoundsAssumption DEF Record
<1>2. CASE free # 0
  BY <1>2 DEF Refilled, TypeOK
<1> QED
  BY <1>1, <1>2

\* One more call is counted, and nothing but 0, 1 and 2 ever is.
LEMMA InvokedTyped ==
  ASSUME TypeOK, NEW r \in Record
  PROVE  Invoked(r) \in [1 .. MaxJobs -> 0 .. 2]
<1> DEFINE n == IF runs[job[r]] = 0 THEN 1 ELSE 2
<1>1. runs \in [1 .. MaxJobs -> 0 .. 2] /\ n \in 0 .. 2
  BY DEF TypeOK
<1>2. Invoked(r) = [runs EXCEPT ![job[r]] = n]
  BY DEF Invoked
<1> HIDE DEF n
<1> QED
  BY <1>1, <1>2

\* What is left of a stack below its top.
LEMMA BelowElements ==
  ASSUME NEW S, NEW s \in Seq(S), s # <<>>
  PROVE  LET below == SubSeq(s, 1, Len(s) - 1)
         IN  /\ below \in Seq(S) /\ Len(below) = Len(s) - 1 /\ Len(s) \in Nat \ {0}
             /\ \A k \in 1 .. Len(s) - 1 : below[k] = s[k]
<1> DEFINE below == SubSeq(s, 1, Len(s) - 1)
<1>1. Len(s) \in Nat \ {0}
  BY EmptySeq
<1>2. PICK n \in Nat : n = Len(s) - 1
  BY <1>1
<1>3. \A k \in 1 .. n : s[k] \in S
  BY <1>1, <1>2, ElementOfSeq
<1>4. /\ SubSeq(s, 1, n) \in Seq(S)
      /\ Len(SubSeq(s, 1, n)) = IF 1 <= n THEN n - 1 + 1 ELSE 0
      /\ \A k \in 1 .. n - 1 + 1 : SubSeq(s, 1, n)[k] = s[1 + k - 1]
  BY <1>2, <1>3, SubSeqProperties
<1>5. n - 1 + 1 = n /\ \A k \in 1 .. n : 1 + k - 1 = k
  BY <1>2
<1>6. Len(SubSeq(s, 1, n)) = n /\ \A k \in 1 .. n : SubSeq(s, 1, n)[k] = s[k]
  BY <1>2, <1>4, <1>5
<1> QED
  BY <1>1, <1>2, <1>4, <1>6

LEMMA TypedInit == Init => Typed
BY BoundsAssumption DEF Init, Typed, TypeOK

LEMMA TypedNext == Typed /\ [Next]_vars => Typed'
<1> SUFFICES ASSUME Typed, [Next]_vars
             PROVE  Typed'
  OBVIOUS
<1>0. /\ stack \in Seq(FrameType) /\ Len(stack) \in Nat /\ Len(stack) <= MaxNesting
      /\ MaxNesting \in Nat /\ MaxJobs \in Nat
      /\ next \in [Record -> Record \union {0}] /\ free \in Record \union {0}
      /\ job \in [Record -> 0 .. MaxJobs]
      /\ head \in [Queue -> Record \union {0}] /\ submitted \in 0 .. MaxJobs
      /\ runs \in [1 .. MaxJobs -> 0 .. 2]
  BY BoundsAssumption DEF Typed, TypeOK
<1>1. \A s \in Seq(FrameType) : \A k \in DOMAIN s : s[k] \in FrameType
  OBVIOUS
<1>2. ASSUME NEW q \in Queue, NEW r \in Record
      PROVE  Frame(q, r) \in FrameType
  BY <1>0 DEF Frame, FrameType
<1>3. ASSUME NEW q \in Queue, Enqueue(q)
      PROVE  Typed'
  <2> DEFINE p == Refilled
  <2>0. /\ p.next \in [Record -> Record \union {0}]
        /\ p.job \in [Record -> 0 .. MaxJobs]
        /\ p.free \in Record \union {0}
    BY RefilledTyped DEF Typed
  <2>1. /\ submitted < MaxJobs /\ p.free # 0
        /\ free' = p.next[p.free]
        /\ next' = [p.next EXCEPT ![p.free] = head[q]]
        /\ job' = [p.job EXCEPT ![p.free] = submitted + 1]
        /\ head' = [head EXCEPT ![q] = p.free]
        /\ submitted' = submitted + 1 /\ UNCHANGED <<stack, runs>>
    BY <1>3 DEF Enqueue
  <2> HIDE DEF p
  <2>2. /\ next' \in [Record -> Record \union {0}] /\ free' \in Record \union {0}
        /\ head' \in [Queue -> Record \union {0}]
    BY <1>0, <2>0, <2>1
  <2>3. job' \in [Record -> 0 .. MaxJobs] /\ submitted' \in 0 .. MaxJobs
    <3>1. submitted + 1 \in 0 .. MaxJobs
      BY <1>0, <2>1
    <3> QED
      BY <2>0, <2>1, <3>1
  <2> QED
    BY <1>0, <1>1, <2>1, <2>2, <2>3 DEF Typed, TypeOK, FrameType
<1>4. ASSUME NEW q \in Queue, Drain(q)
      PROVE  Typed'
  <2>1. head[q] \in Record
    BY <1>0, <1>4 DEF Drain
  <2>2. runs' \in [1 .. MaxJobs -> 0 .. 2]
    BY <1>4, <2>1, InvokedTyped DEF Drain, Typed
  <2>3. stack' \in Seq(FrameType) /\ Len(stack') <= MaxNesting
    <3>1. Frame(q, head[q]) \in FrameType
      BY <1>2, <2>1
    <3> QED
      BY <1>0, <1>4, <3>1 DEF Drain
  <2>4. \A k \in DOMAIN stack' : stack'[k] \in FrameType
    BY <1>1, <2>3
  <2> QED
    BY <1>0, <1>4, <2>2, <2>3, <2>4 DEF Drain, Typed, TypeOK, FrameType
<1>5. CASE CallbackReturns
  <2> DEFINE f == stack[Len(stack)]
  <2>0. f \in FrameType /\ stack # <<>> /\ Len(stack) \in Nat \ {0}
    BY <1>0, <1>5 DEF CallbackReturns
  <2>1. f.queue \in Queue /\ f.saved \in Record \union {0} /\ f = Top
    BY <2>0 DEF FrameType, Top
  <2> HIDE DEF f
  <2>2. /\ free' = head[f.queue]
        /\ next' = [next EXCEPT ![head[f.queue]] = free]
        /\ head' = [head EXCEPT ![f.queue] = f.saved]
        /\ IF f.saved = 0
           THEN stack' = Below /\ UNCHANGED runs
           ELSE stack' = Append(Below, Frame(f.queue, f.saved)) /\ runs' = Invoked(f.saved)
        /\ UNCHANGED <<job, submitted>>
    BY <1>5, <2>1 DEF CallbackReturns, Advanced
  <2>3. /\ free' \in Record \union {0}
        /\ next' \in [Record -> Record \union {0}]
        /\ head' \in [Queue -> Record \union {0}]
    BY <1>0, <2>1, <2>2
  <2>4. Below \in Seq(FrameType) /\ Len(Below) = Len(stack) - 1
    BY <1>0, <2>0, BelowElements DEF Below
  <2>5. /\ stack' \in Seq(FrameType) /\ Len(stack') <= MaxNesting
        /\ runs' \in [1 .. MaxJobs -> 0 .. 2]
    <3>1. CASE f.saved = 0
      BY <1>0, <2>0, <2>2, <2>4, <3>1
    <3>2. CASE f.saved # 0
      <4>1. f.saved \in Record
        BY <2>1, <3>2
      <4>2. Frame(f.queue, f.saved) \in FrameType
        BY <1>2, <2>1, <4>1
      <4>3. runs' \in [1 .. MaxJobs -> 0 .. 2]
        BY <2>2, <3>2, <4>1, InvokedTyped DEF Typed
      <4>4. stack' = Append(Below, Frame(f.queue, f.saved))
        BY <2>2, <3>2
      <4>5. stack' \in Seq(FrameType) /\ Len(stack') = Len(Below) + 1
        BY <2>4, <4>2, <4>4, AppendProperties
      <4> QED
        BY <1>0, <2>0, <2>4, <4>3, <4>5
    <3> QED
      BY <3>1, <3>2
  <2>6. \A k \in DOMAIN stack' : stack'[k] \in FrameType
    BY <1>1, <2>5
  <2> QED
    BY <1>0, <2>2, <2>3, <2>5, <2>6 DEF Typed, TypeOK, FrameType
<1>6. CASE UNCHANGED vars
  BY <1>6 DEF vars, Typed, TypeOK
<1> QED
  BY <1>3, <1>4, <1>5, <1>6 DEF Next

(***************************************************************************)
(* Types, for any number of records, queues and callbacks and whatever the *)
(* callers do, enqueueing on a queue being drained or past the pool        *)
(* included: links lead to records or nowhere, and every drain stands at a *)
(* record (reverse/deferred_callback_queue.cpp).                           *)
(***************************************************************************)
THEOREM TypeCorrect == Spec => []TypeOK
<1>1. Typed => TypeOK
  BY DEF Typed
<1> QED
  BY <1>1, TypedInit, TypedNext, PTL DEF Spec

-----------------------------------------------------------------------------
(* Moving a record from one list to another. *)

(***************************************************************************)
(* The first record of a list becomes the first of another: its rank is    *)
(* then one more than the rank of the record it is linked to.              *)
(***************************************************************************)
LEMMA MoveFirst ==
  ASSUME NEW nx \in [Record -> Record \union {0}],
         NEW first \in [Owner -> Record \union {0}],
         NEW owner, NEW rank, Lists(nx, first, owner, rank),
         NEW a \in Owner, NEW b \in Owner, a # b, first[a] # 0
  PROVE  Lists([nx EXCEPT ![first[a]] = first[b]],
               [first EXCEPT ![a] = nx[first[a]], ![b] = first[a]],
               [owner EXCEPT ![first[a]] = b],
               [rank EXCEPT ![first[a]] = IF first[b] = 0 THEN 1 ELSE rank[first[b]] + 1])
<1>a. PICK r \in Record : r = first[a]
  OBVIOUS
<1>b. PICK nx2, first2, owner2, rank2 :
      /\ nx2 = [nx EXCEPT ![r] = first[b]]
      /\ first2 = [first EXCEPT ![a] = nx[r], ![b] = r]
      /\ owner2 = [owner EXCEPT ![r] = b]
      /\ rank2 = [rank EXCEPT ![r] = IF first[b] = 0 THEN 1 ELSE rank[first[b]] + 1]
  OBVIOUS
<1> SUFFICES Lists(nx2, first2, owner2, rank2)
  BY <1>a, <1>b
<1> USE <1>a, <1>b
<1> DEFINE top == IF first[b] = 0 THEN 1 ELSE rank[first[b]] + 1
<1>0. /\ owner \in [Record -> Owner] /\ rank \in [Record -> Nat \ {0}]
      /\ 0 \notin Record /\ first[b] \in Record \union {0} /\ nx[r] \in Record \union {0}
      /\ top \in Nat \ {0}
  BY DEF Lists, Record
<1>1. /\ owner[r] = a
      /\ first[b] # 0 => first[b] # r /\ owner[first[b]] = b
      /\ nx[r] # 0 => nx[r] # r /\ owner[nx[r]] = a /\ rank[nx[r]] = rank[r] - 1
  BY <1>0 DEF Lists
<1>2. ASSUME NEW x \in Record, x # r
      PROVE  /\ nx2[x] = nx[x] /\ owner2[x] = owner[x] /\ rank2[x] = rank[x]
             /\ nx[x] # r
             /\ owner[x] = a => rank[x] < rank[r]
             /\ owner[x] = b => first[b] # 0 /\ rank[x] < top
  <2>1. owner[x] = a => rank[x] <= rank[r] /\ rank[x] # rank[r]
    BY <1>0, <1>1, <1>2 DEF Lists
  <2>2. owner[x] = b => first[b] # 0 /\ rank[x] <= rank[first[b]]
    BY <1>0 DEF Lists
  <2>3. nx[x] = r => owner[x] = a /\ rank[r] = rank[x] - 1
    BY <1>0, <1>1 DEF Lists
  <2>4. rank[x] \in Nat /\ rank[r] \in Nat /\ (first[b] # 0 => rank[first[b]] \in Nat)
    BY <1>0
  <2> QED
    BY <1>0, <1>2, <2>1, <2>2, <2>3, <2>4
<1>3. nx2[r] = first[b] /\ owner2[r] = b /\ rank2[r] = top
  BY <1>0
<1>4. /\ first2[a] = nx[r] /\ first2[b] = r
      /\ \A o \in Owner : o # a /\ o # b => first2[o] = first[o]
  OBVIOUS
<1> HIDE DEF top
<1>5. owner2 \in [Record -> Owner] /\ rank2 \in [Record -> Nat \ {0}]
  BY <1>0 DEF top
<1>6. ASSUME NEW x \in Record, nx2[x] = 0
      PROVE  rank2[x] = 1
  <2>1. CASE x = r
    BY <1>3, <1>6, <2>1 DEF top
  <2>2. CASE x # r
    BY <1>2, <1>6, <2>2 DEF Lists
  <2> QED
    BY <2>1, <2>2
<1>7. ASSUME NEW x \in Record, nx2[x] # 0
      PROVE  owner2[nx2[x]] = owner2[x] /\ rank2[nx2[x]] = rank2[x] - 1
  <2>1. CASE x = r
    <3>1. first[b] # 0 /\ first[b] \in Record /\ first[b] # r
      BY <1>0, <1>1, <1>3, <1>7, <2>1
    <3>2. top = rank[first[b]] + 1 /\ rank[first[b]] \in Nat
      BY <1>0, <3>1 DEF top
    <3> QED
      BY <1>1, <1>2, <1>3, <2>1, <3>1, <3>2
  <2>2. CASE x # r
    <3>1. nx[x] # 0 /\ nx[x] \in Record /\ nx[x] # r
      BY <1>2, <1>7, <2>2
    <3>2. owner[nx[x]] = owner[x] /\ rank[nx[x]] = rank[x] - 1
      BY <3>1 DEF Lists
    <3> QED
      BY <1>2, <2>2, <3>1, <3>2
  <2> QED
    BY <2>1, <2>2
<1>8. ASSUME NEW x \in Record, NEW y \in Record, owner2[x] = owner2[y], rank2[x] = rank2[y]
      PROVE  x = y
  <2>1. ASSUME NEW z \in Record, z # r PROVE owner2[z] # b \/ rank2[z] # top
    <3>1. owner2[z] = owner[z] /\ rank2[z] = rank[z] /\ rank[z] \in Nat /\ top \in Nat
      BY <1>0, <1>2, <2>1
    <3> QED
      BY <1>2, <2>1, <3>1
  <2>2. CASE x # r /\ y # r
    BY <1>2, <1>8, <2>2 DEF Lists
  <2> QED
    BY <1>3, <1>8, <2>1, <2>2
<1>9. ASSUME NEW o \in Owner, first2[o] # 0
      PROVE  owner2[first2[o]] = o
  <2>1. CASE o = a
    BY <1>0, <1>1, <1>2, <1>4, <1>9, <2>1
  <2>2. CASE o = b
    BY <1>3, <1>4, <2>2
  <2>3. CASE o # a /\ o # b
    <3>1. first[o] # 0 /\ first[o] \in Record /\ owner[first[o]] = o
      BY <1>4, <1>9, <2>3 DEF Lists
    <3> QED
      BY <1>1, <1>2, <1>4, <2>3, <3>1
  <2> QED
    BY <2>1, <2>2, <2>3
<1>10. ASSUME NEW x \in Record
       PROVE  first2[owner2[x]] # 0 /\ rank2[x] <= rank2[first2[owner2[x]]]
  <2>1. CASE x = r
    BY <1>0, <1>3, <1>4, <2>1
  <2>2. CASE x # r /\ owner[x] = a
    <3>1. rank[x] < rank[r] /\ rank[x] \in Nat \ {0} /\ rank[r] \in Nat
      BY <1>0, <1>2, <2>2
    <3>2. nx[r] # 0
      BY <3>1 DEF Lists
    <3>3. nx[r] \in Record /\ nx[r] # r /\ rank[nx[r]] = rank[r] - 1
      BY <1>0, <1>1, <3>2
    <3>4. owner2[x] = a /\ first2[a] = nx[r] /\ rank2[x] = rank[x]
          /\ rank2[nx[r]] = rank[r] - 1
      BY <1>2, <1>4, <2>2, <3>3
    <3> QED
      BY <3>1, <3>2, <3>4
  <2>3. CASE x # r /\ owner[x] = b
    <3>1. rank[x] < top /\ rank[x] \in Nat /\ owner2[x] = b /\ rank2[x] = rank[x]
      BY <1>0, <1>2, <2>3
    <3> QED
      BY <1>0, <1>3, <1>4, <3>1
  <2>4. CASE x # r /\ owner[x] # a /\ owner[x] # b
    <3>1. /\ owner[x] \in Owner /\ first[owner[x]] # 0 /\ first[owner[x]] \in Record
          /\ owner[first[owner[x]]] = owner[x] /\ rank[x] <= rank[first[owner[x]]]
      BY <1>0 DEF Lists
    <3>2. first[owner[x]] # r
      BY <1>1, <2>4, <3>1
    <3>3. /\ owner2[x] = owner[x] /\ rank2[x] = rank[x]
          /\ first2[owner[x]] = first[owner[x]]
          /\ rank2[first[owner[x]]] = rank[first[owner[x]]]
      BY <1>2, <1>4, <2>4, <3>1, <3>2
    <3> QED
      BY <3>1, <3>3
  <2> QED
    BY <2>1, <2>2, <2>3, <2>4
<1>11. ASSUME NEW x \in Record, NEW k \in 1 .. rank2[x]
       PROVE  \E s \in Record : owner2[s] = owner2[x] /\ rank2[s] = k
  <2>1. CASE x = r
    <3>1. CASE k = top
      BY <1>3, <2>1, <3>1
    <3>2. CASE k # top
      <4>1. first[b] # 0 /\ first[b] \in Record /\ k \in 1 .. rank[first[b]]
        BY <1>0, <1>3, <1>11, <2>1, <3>2 DEF top
      <4>2. PICK s \in Record : owner[s] = owner[first[b]] /\ rank[s] = k
        BY <4>1 DEF Lists
      <4>3. owner[s] = b /\ s # r
        BY <1>1, <4>1, <4>2
      <4> QED
        BY <1>2, <1>3, <2>1, <4>2, <4>3
    <3> QED
      BY <3>1, <3>2
  <2>2. CASE x # r
    <3>1. owner2[x] = owner[x] /\ k \in 1 .. rank[x]
      BY <1>2, <2>2
    <3>2. PICK s \in Record : owner[s] = owner[x] /\ rank[s] = k
      BY <3>1 DEF Lists
    <3>3. s # r
      <4>1. CASE owner[x] = a
        <5>1. rank[x] < rank[r] /\ rank[x] \in Nat /\ rank[r] \in Nat
          BY <1>0, <1>2, <2>2, <4>1
        <5> QED
          BY <3>1, <3>2, <5>1
      <4>2. CASE owner[x] # a
        BY <1>1, <3>2, <4>2
      <4> QED
        BY <4>1, <4>2
    <3> QED
      BY <1>2, <3>1, <3>2, <3>3
  <2> QED
    BY <2>1, <2>2
<1> HIDE <1>a, <1>b
<1> QED
  BY <1>5, <1>6, <1>7, <1>8, <1>9, <1>10, <1>11 DEF Lists

\* A refilled pool is one descending list of all records, none in a queue.
LEMMA FilledLists ==
  ASSUME head = [q \in Queue |-> 0]
  PROVE  Lists([r \in Record |-> r - 1], Firsts(Prealloc),
               [r \in Record |-> Pool], [r \in Record |-> r])
<1> DEFINE nx == [r \in Record |-> r - 1]
           first == Firsts(Prealloc)
           owner == [r \in Record |-> Pool]
           rank == [r \in Record |-> r]
<1>1. /\ Prealloc \in Nat \ {0} /\ Record = 1 .. Prealloc
      /\ Pool \in Owner /\ Pool \notin Queue
  BY BoundsAssumption, PoolIsNoQueue DEF Record, Owner
<1>2. first[Pool] = Prealloc /\ \A o \in Owner : o # Pool => first[o] = 0
  BY <1>1 DEF Firsts, Owner
<1>3. \A r \in Record : nx[r] = r - 1 /\ owner[r] = Pool /\ rank[r] = r
  OBVIOUS
<1>4. owner \in [Record -> Owner] /\ rank \in [Record -> Nat \ {0}]
  BY <1>1
<1> HIDE DEF nx, first, owner, rank
<1>5. \A r \in Record : nx[r] # 0 =>
        nx[r] \in Record /\ owner[nx[r]] = owner[r] /\ rank[nx[r]] = rank[r] - 1
  BY <1>1, <1>3
<1>6. \A r \in Record : \A k \in 1 .. rank[r] :
        \E s \in Record : owner[s] = owner[r] /\ rank[s] = k
  BY <1>1, <1>3
<1>7. /\ \A o \in Owner : first[o] # 0 => owner[first[o]] = o
      /\ \A r \in Record : first[owner[r]] # 0 /\ rank[r] <= rank[first[owner[r]]]
  BY <1>1, <1>2, <1>3
<1>8. /\ \A r \in Record : nx[r] = 0 => rank[r] = 1
      /\ \A r, s \in Record : owner[r] = owner[s] /\ rank[r] = rank[s] => r = s
  BY <1>1, <1>3
<1>9. Lists(nx, first, owner, rank)
  BY <1>4, <1>5, <1>6, <1>7, <1>8 DEF Lists
<1> QED
  BY <1>9 DEF nx, first, owner, rank

-----------------------------------------------------------------------------
(* The records of the callbacks. *)

Started == {j \in 1 .. MaxJobs : runs[j] > 0}

LEMMA CountsAreNumbers ==
  ASSUME Typed, NEW owner
  PROVE  /\ IsFiniteSet(Started) /\ Cardinality(Started) \in Nat
         /\ IsFiniteSet(InQueues(owner)) /\ Cardinality(InQueues(owner)) \in Nat
         /\ Len(stack) \in Nat /\ submitted \in Nat
         /\ Pending = submitted - Cardinality(Started) + Len(stack)
<1>1. /\ IsFiniteSet(1 .. MaxJobs) /\ IsFiniteSet(Record)
      /\ submitted \in Nat /\ Len(stack) \in Nat
  BY BoundsAssumption, FS_Interval, LenProperties DEF Record, Typed, TypeOK
<1>2. Started \in SUBSET (1 .. MaxJobs) /\ InQueues(owner) \in SUBSET Record
  BY DEF Started, InQueues
<1>3. IsFiniteSet(Started) /\ IsFiniteSet(InQueues(owner))
  BY <1>1, <1>2, FS_Subset
<1>4. Cardinality(Started) \in Nat /\ Cardinality(InQueues(owner)) \in Nat
  BY <1>3, FS_CardinalityType
<1> QED
  BY <1>1, <1>3, <1>4 DEF Pending, Started

\* A drain stands at a record of its queue.
LEMMA DrainsStandInQueues ==
  ASSUME Typed, Frames, NEW nx, NEW fr, NEW owner, NEW rank,
         Lists(nx, Firsts(fr), owner, rank)
  PROVE  /\ \A k \in DOMAIN stack :
              /\ stack[k].queue \in Queue /\ stack[k].at \in Record
              /\ owner[stack[k].at] = stack[k].queue
         /\ Called \subseteq InQueues(owner)
<1>1. ASSUME NEW k \in DOMAIN stack
      PROVE  /\ stack[k].queue \in Queue /\ stack[k].at \in Record
             /\ owner[stack[k].at] = stack[k].queue
  <2>1. stack[k].queue \in Queue /\ stack[k].at \in Record
        /\ stack[k].at = head[stack[k].queue]
    BY DEF Typed, TypeOK, Frames
  <2>2. Firsts(fr)[stack[k].queue] = stack[k].at /\ stack[k].queue \in Owner /\ stack[k].at # 0
    BY <2>1, PoolIsNoQueue DEF Firsts, Owner, Record
  <2> QED
    BY <2>1, <2>2 DEF Lists
<1> QED
  BY <1>1, PoolIsNoQueue DEF Called, InQueues

\* Below its capacity a pool in use has a free record.
LEMMA FreeBelowCapacity ==
  ASSUME CallersBehave, PoolInv, Pending < MaxPending, submitted # 0
  PROVE  free # 0
<1>1. SUFFICES ASSUME free = 0 PROVE FALSE
  OBVIOUS
<1>2. PICK owner, rank : Lists(next, Firsts(free), owner, rank) /\ Calls(next, job, owner)
  BY DEF PoolInv
<1>3. \A r \in Record : owner[r] # Pool
  <2>1. Firsts(free)[Pool] = 0
    BY <1>1 DEF Firsts, Owner
  <2> QED
    BY <1>2, <2>1 DEF Lists
<1>4. InQueues(owner) = 1 .. Prealloc
  BY <1>3 DEF InQueues, Record
<1>5. Cardinality(1 .. Prealloc) = Prealloc
  <2>1. ASSUME NEW n \in Nat \ {0} PROVE Cardinality(1 .. n) = n
    <3>1. Cardinality(1 .. n) = IF 1 > n THEN 0 ELSE n - 1 + 1
      BY FS_Interval
    <3> QED
      BY <3>1
  <2> QED
    BY <2>1, BoundsAssumption
<1>6. Pending = Prealloc
  BY <1>2, <1>4, <1>5 DEF Calls
<1> QED
  BY <1>6, BoundsAssumption DEF CallersBehave

\* Below the capacity a record is free, or the pool was never filled.
LEMMA PoolReady ==
  ASSUME CallersBehave, PoolInv, Pending < MaxPending
  PROVE  /\ \E owner, rank :
              /\ Lists(Refilled.next, Firsts(Refilled.free), owner, rank)
              /\ Calls(Refilled.next, Refilled.job, owner)
         /\ Refilled.free # 0
         /\ Saved(Refilled.next)
<1>1. CASE submitted = 0
  <2>1. Untouched /\ RunsOnce /\ Typed
    BY <1>1 DEF PoolInv
  <2>2. /\ Refilled.next = [r \in Record |-> r - 1]
        /\ Refilled.job = [r \in Record |-> 0]
        /\ Refilled.free = Prealloc
    BY <2>1 DEF Refilled, Untouched
  <2>3. PICK owner, rank : /\ owner = [r \in Record |-> Pool]
                           /\ rank = [r \in Record |-> r]
    OBVIOUS
  <2>4. Lists(Refilled.next, Firsts(Refilled.free), owner, rank)
    BY <2>1, <2>2, <2>3, FilledLists DEF Untouched
  <2>5. InQueues(owner) = {} /\ Cardinality(InQueues(owner)) = 0
    BY <2>3, FS_EmptySet DEF InQueues
  <2>6. Started = {} /\ Cardinality(Started) = 0
    BY <1>1, <2>1, FS_EmptySet DEF Started, RunsOnce
  <2>7. Len(stack) = 0 /\ Pending = 0
    BY <1>1, <2>1, <2>6, CountsAreNumbers DEF Untouched
  <2>8. Calls(Refilled.next, Refilled.job, owner)
    BY <1>1, <2>5, <2>7 DEF Calls
  <2>9. Refilled.free # 0 /\ Saved(Refilled.next)
    BY <2>1, <2>2, BoundsAssumption DEF Untouched, Saved
  <2> QED
    BY <2>4, <2>8, <2>9
<1>2. CASE submitted # 0
  <2>1. PICK owner, rank : Lists(next, Firsts(free), owner, rank) /\ Calls(next, job, owner)
    BY <1>2 DEF PoolInv
  <2>2. free # 0
    BY <1>2, FreeBelowCapacity
  <2>3. Refilled.next = next /\ Refilled.job = job /\ Refilled.free = free
    BY <2>2 DEF Refilled
  <2>4. Saved(next)
    BY DEF PoolInv
  <2> QED
    BY <2>1, <2>2, <2>3, <2>4
<1> QED
  BY <1>1, <1>2

\* The first record of the pool gets a callback and goes to a queue's front.
LEMMA EnqueueStep ==
  ASSUME CallersBehave, PoolInv, Typed', NEW q \in Queue, Enqueue(q)
  PROVE  PoolInv'
<1> DEFINE p == Refilled
<1>0. /\ Typed /\ Frames /\ RunsOnce
      /\ submitted < MaxJobs /\ Pending < MaxPending /\ q \notin Draining
  BY DEF PoolInv, Enqueue, CallersBehave
<1>1. PICK nx, jb, r : nx = p.next /\ jb = p.job /\ r = p.free
  OBVIOUS
<1>2. /\ nx \in [Record -> Record \union {0}] /\ jb \in [Record -> 0 .. MaxJobs]
      /\ r \in Record /\ 0 \notin Record
      /\ head \in [Queue -> Record \union {0}] /\ head[q] \in Record \union {0}
      /\ runs \in [1 .. MaxJobs -> 0 .. 2]
      /\ submitted \in 0 .. MaxJobs /\ MaxJobs \in Nat /\ submitted + 1 \in 1 .. MaxJobs
  <2>1. /\ nx \in [Record -> Record \union {0}] /\ jb \in [Record -> 0 .. MaxJobs]
        /\ r \in Record \union {0}
    BY <1>0, <1>1, RefilledTyped DEF Typed
  <2>2. r # 0
    BY <1>0, <1>1, PoolReady
  <2>3. 0 \notin Record
    BY DEF Record
  <2>4. /\ head \in [Queue -> Record \union {0}] /\ submitted \in 0 .. MaxJobs
        /\ runs \in [1 .. MaxJobs -> 0 .. 2] /\ MaxJobs \in Nat
    BY <1>0, BoundsAssumption DEF Typed, TypeOK
  <2>5. submitted + 1 \in 1 .. MaxJobs
    <3> HIDE DEF PoolInv
    <3> QED
      BY <1>0, <2>4
  <2> QED
    BY <2>1, <2>2, <2>3, <2>4, <2>5
<1>3. /\ free' = nx[r] /\ next' = [nx EXCEPT ![r] = head[q]]
      /\ job' = [jb EXCEPT ![r] = submitted + 1]
      /\ head' = [head EXCEPT ![q] = r]
      /\ submitted' = submitted + 1 /\ stack' = stack /\ runs' = runs
  BY <1>1 DEF Enqueue
<1>4. PICK owner, rank : Lists(nx, Firsts(r), owner, rank) /\ Calls(nx, jb, owner)
  BY <1>0, <1>1, PoolReady
<1>5. Saved(nx)
  BY <1>0, <1>1, PoolReady
<1> HIDE DEF p
<1>6. PICK owner2, rank2 :
        /\ owner2 = [owner EXCEPT ![r] = q]
        /\ rank2 = [rank EXCEPT ![r] = IF head[q] = 0 THEN 1 ELSE rank[head[q]] + 1]
  OBVIOUS
<1>7. /\ Pool \in Owner /\ q \in Owner /\ Pool # q
      /\ Firsts(r) \in [Owner -> Record \union {0}]
      /\ Firsts(r)[Pool] = r /\ Firsts(r)[q] = head[q]
      /\ Firsts(free)' = [Firsts(r) EXCEPT ![Pool] = nx[r], ![q] = r]
  <2>1. Pool \in Owner /\ q \in Owner /\ Pool # q
    BY PoolIsNoQueue DEF Owner
  <2>2. \A o \in Owner : Firsts(r)[o] = IF o = Pool THEN r ELSE head[o]
    BY DEF Firsts
  <2>3. Firsts(r) \in [Owner -> Record \union {0}]
    BY <1>2 DEF Firsts, Owner
  <2>4. Firsts(free)' = [o \in Owner |-> IF o = Pool THEN nx[r] ELSE head'[o]]
    BY <1>3 DEF Firsts
  <2>5. \A o \in Owner : o # Pool => head'[o] = IF o = q THEN r ELSE head[o]
    BY <1>2, <1>3 DEF Owner
  <2> DEFINE new == [Firsts(r) EXCEPT ![Pool] = nx[r], ![q] = r]
  <2>6. new = [o \in Owner |-> new[o]]
        /\ \A o \in Owner : new[o] = IF o = Pool THEN nx[r] ELSE IF o = q THEN r ELSE head[o]
    BY <2>1, <2>2, <2>3
  <2> HIDE DEF new
  <2>7. Firsts(free)' = new
    BY <2>4, <2>5, <2>6
  <2> QED
    BY <2>1, <2>2, <2>3, <2>7 DEF new
<1>8. Lists(next', Firsts(free)', owner2, rank2)
  <2>1. PICK first, first2 : first = Firsts(r) /\ first2 = Firsts(free)'
    OBVIOUS
  <2>2. /\ first \in [Owner -> Record \union {0}] /\ r = first[Pool]
        /\ Lists(nx, first, owner, rank)
        /\ first2 = [first EXCEPT ![Pool] = nx[r], ![q] = r]
    BY <1>4, <1>7, <2>1
  <2>3. /\ next' = [nx EXCEPT ![first[Pool]] = first[q]]
        /\ first2 = [first EXCEPT ![Pool] = nx[first[Pool]], ![q] = first[Pool]]
        /\ owner2 = [owner EXCEPT ![first[Pool]] = q]
        /\ rank2 = [rank EXCEPT ![first[Pool]] =
                      IF first[q] = 0 THEN 1 ELSE rank[first[q]] + 1]
    BY <1>3, <1>6, <1>7, <2>1
  <2>4. Lists(next', first2, owner2, rank2)
    <3>1. /\ nx \in [Record -> Record \union {0}]
          /\ Pool \in Owner /\ q \in Owner /\ Pool # q /\ first[Pool] # 0
      BY <1>2, <1>7, <2>2
    <3>2. Lists([nx EXCEPT ![first[Pool]] = first[q]],
                [first EXCEPT ![Pool] = nx[first[Pool]], ![q] = first[Pool]],
                [owner EXCEPT ![first[Pool]] = q],
                [rank EXCEPT ![first[Pool]] =
                   IF first[q] = 0 THEN 1 ELSE rank[first[q]] + 1])
      BY <2>2, <3>1, MoveFirst
    <3> QED
      BY <2>3, <3>2
  <2> QED
    BY <2>1, <2>4
<1>9. /\ owner \in [Record -> Owner] /\ owner[r] = Pool /\ r \notin InQueues(owner)
      /\ head[q] # 0 => owner[head[q]] = q
      /\ InQueues(owner2) = InQueues(owner) \union {r}
  <2>1. owner \in [Record -> Owner] /\ owner[r] = Pool /\ (head[q] # 0 => owner[head[q]] = q)
    BY <1>2, <1>4, <1>7 DEF Lists
  <2> QED
    BY <1>2, <1>6, <1>7, <2>1 DEF InQueues
<1>10. /\ \A k \in DOMAIN stack : /\ stack[k].queue # q /\ stack[k].queue \in Queue
                                 /\ stack[k].at # r /\ stack[k].at \in Record
       /\ Called' = Called /\ r \notin Called
  BY <1>0, <1>3, <1>4, <1>9, DrainsStandInQueues DEF Draining, Called, InQueues
<1>11. ASSUME NEW x \in InQueues(owner)
       PROVE  /\ x \in Record /\ x # r /\ jb[x] \in 1 .. submitted
              /\ job'[x] = jb[x] /\ next'[x] = nx[x]
              /\ nx[x] # 0 => nx[x] \in InQueues(owner) /\ nx[x] # r
  <2>1. x \in Record /\ x # r /\ jb[x] \in 1 .. submitted
    BY <1>4, <1>9 DEF InQueues, Calls
  <2>2. nx[x] # 0 => nx[x] \in Record /\ owner[nx[x]] = owner[x]
    BY <1>2, <1>4, <2>1 DEF Lists
  <2>3. nx[x] # 0 => nx[x] \in InQueues(owner)
    BY <2>2 DEF InQueues
  <2> QED
    BY <1>2, <1>3, <1>9, <2>1, <2>3
<1>12. job'[r] = submitted + 1 /\ next'[r] = head[q]
       /\ (head[q] # 0 => head[q] \in InQueues(owner))
  BY <1>2, <1>3, <1>7, <1>9 DEF InQueues
<1>13. Calls(next, job, owner2)'
  <2>1. Cardinality(InQueues(owner2)) = Pending'
    <3>1. Cardinality(InQueues(owner2)) = Cardinality(InQueues(owner)) + 1
      BY <1>0, <1>9, CountsAreNumbers, FS_AddElement
    <3>2. Pending' = Pending + 1
      <4>1. Started' = Started
        BY <1>3 DEF Started
      <4>2. Pending' = submitted' - Cardinality(Started') + Len(stack')
        BY DEF Pending, Started
      <4> QED
        BY <1>0, <1>3, <4>1, <4>2, CountsAreNumbers
    <3> QED
      BY <1>4, <3>1, <3>2 DEF Calls
  <2>2. ASSUME NEW x \in InQueues(owner2)
        PROVE  job'[x] \in 1 .. submitted' /\ runs'[job'[x]] = IF x \in Called' THEN 1 ELSE 0
    <3>1. CASE x = r
      BY <1>0, <1>2, <1>3, <1>10, <1>12, <3>1 DEF RunsOnce
    <3>2. CASE x \in InQueues(owner)
      BY <1>2, <1>3, <1>4, <1>10, <1>11, <3>2 DEF Calls
    <3> QED
      BY <1>9, <3>1, <3>2
  <2>3. ASSUME NEW x \in InQueues(owner2), NEW y \in InQueues(owner2), job'[x] = job'[y]
        PROVE  x = y
    <3>1. \A z \in InQueues(owner) : job'[z] # submitted + 1
      BY <1>2, <1>11
    <3>2. CASE x \in InQueues(owner) /\ y \in InQueues(owner)
      BY <1>4, <1>11, <2>3, <3>2 DEF Calls
    <3> QED
      BY <1>9, <1>12, <2>3, <3>1, <3>2
  <2>4. ASSUME NEW j \in 1 .. submitted', runs'[j] = 0
        PROVE  \E x \in InQueues(owner2) : job'[x] = j
    <3>1. CASE j = submitted + 1
      BY <1>9, <1>12, <3>1
    <3>2. CASE j \in 1 .. submitted
      <4>1. PICK x \in InQueues(owner) : jb[x] = j
        BY <1>3, <1>4, <2>4, <3>2 DEF Calls
      <4> QED
        BY <1>9, <1>11, <4>1
    <3> QED
      BY <1>2, <1>3, <3>1, <3>2
  <2>5. ASSUME NEW x \in InQueues(owner2), next'[x] # 0
        PROVE  job'[next'[x]] < job'[x]
    <3>1. CASE x = r
      <4>1. head[q] \in InQueues(owner)
        BY <1>12, <2>5, <3>1
      <4>2. job'[head[q]] \in 1 .. submitted
        BY <1>11, <4>1
      <4> QED
        BY <1>2, <1>12, <3>1, <4>2
    <3>2. CASE x \in InQueues(owner)
      <4>1. nx[x] # 0 /\ nx[x] \in InQueues(owner) /\ next'[x] = nx[x]
        BY <1>11, <2>5, <3>2
      <4>2. jb[nx[x]] < jb[x]
        BY <1>4, <3>2, <4>1 DEF Calls
      <4> QED
        BY <1>11, <3>2, <4>1, <4>2
    <3> QED
      BY <1>9, <3>1, <3>2
  <2> QED
    BY <2>1, <2>2, <2>3, <2>4, <2>5 DEF Calls
<1>14. Frames' /\ RunsOnce' /\ Saved(next)'
  <2>1. Frames'
    BY <1>0, <1>2, <1>3, <1>10 DEF Frames
  <2>2. RunsOnce'
    BY <1>0, <1>2, <1>3 DEF RunsOnce
  <2>3. Saved(next)'
    BY <1>2, <1>3, <1>5, <1>10 DEF Saved
  <2> QED
    BY <2>1, <2>2, <2>3
<1>15. submitted' # 0
  BY <1>2, <1>3
<1> QED
  BY <1>8, <1>13, <1>14, <1>15 DEF PoolInv

\* What one more frame on top of a stack of drains changes.
LEMMA PushedFrame ==
  ASSUME NEW s \in Seq(FrameType), NEW f \in FrameType
  PROVE  /\ Len(s) \in Nat /\ DOMAIN s = 1 .. Len(s)
         /\ DOMAIN Append(s, f) = 1 .. Len(s) + 1 /\ Len(Append(s, f)) = Len(s) + 1
         /\ \A k \in 1 .. Len(s) : Append(s, f)[k] = s[k]
         /\ Append(s, f)[Len(s) + 1] = f
BY AppendProperties, LenProperties

\* A drain calls a callback that was never called.
LEMMA DrainStep ==
  ASSUME PoolInv, Typed', NEW q \in Queue, Drain(q)
  PROVE  PoolInv'
<1>0. /\ Typed /\ Frames /\ RunsOnce /\ Saved(next)
      /\ head[q] # 0 /\ q \notin Draining
  BY DEF PoolInv, Drain
<1>1. submitted # 0
  BY <1>0 DEF PoolInv, Untouched
<1>2. PICK owner, rank : Lists(next, Firsts(free), owner, rank) /\ Calls(next, job, owner)
  BY <1>1 DEF PoolInv
<1>3. PICK h : h = head[q]
  OBVIOUS
<1>4. /\ h \in Record /\ h # 0 /\ owner[h] = q /\ h \in InQueues(owner)
      /\ next \in [Record -> Record \union {0}]
  <2>1. h \in Record /\ h # 0 /\ next \in [Record -> Record \union {0}]
    BY <1>0, <1>3 DEF Typed, TypeOK
  <2>2. Firsts(free)[q] = h /\ q \in Owner /\ q # Pool
    BY <1>3, PoolIsNoQueue DEF Firsts, Owner
  <2> QED
    BY <1>2, <2>1, <2>2 DEF Lists, InQueues
<1>5. /\ \A k \in DOMAIN stack : /\ stack[k].queue # q /\ stack[k].at \in Record
                                 /\ stack[k].at # h
      /\ h \notin Called
  BY <1>0, <1>2, <1>4, DrainsStandInQueues DEF Draining, Called
<1>6. /\ job[h] \in 1 .. submitted /\ submitted \in Nat /\ job[h] \in 1 .. MaxJobs
      /\ runs[job[h]] = 0 /\ runs \in [1 .. MaxJobs -> 0 .. 2]
  <2>1. submitted \in 0 .. MaxJobs /\ runs \in [1 .. MaxJobs -> 0 .. 2] /\ MaxJobs \in Nat
    BY <1>0, BoundsAssumption DEF Typed, TypeOK
  <2>2. job[h] \in 1 .. submitted /\ runs[job[h]] = 0
    BY <1>2, <1>4, <1>5 DEF Calls
  <2> QED
    BY <2>1, <2>2
<1>7. /\ runs' = [runs EXCEPT ![job[h]] = 1]
      /\ stack' = Append(stack, Frame(q, h))
      /\ UNCHANGED <<next, job, free, head, submitted>>
  BY <1>3, <1>6 DEF Drain, Invoked
<1>8. /\ Frame(q, h) \in FrameType /\ Frame(q, h).queue = q /\ Frame(q, h).at = h
      /\ Frame(q, h).saved = next[h]
  BY <1>4 DEF Frame, FrameType
<1> DEFINE n == Len(stack)
<1>9. /\ n \in Nat /\ DOMAIN stack = 1 .. n /\ DOMAIN stack' = 1 .. n + 1
      /\ Len(stack') = n + 1
      /\ \A k \in 1 .. n : stack'[k] = stack[k]
      /\ stack'[n + 1] = Frame(q, h)
  BY <1>0, <1>7, <1>8, PushedFrame DEF Typed
<1> HIDE DEF n
<1>10. Called' = Called \union {h}
  <2>1. Called' = {stack'[k].at : k \in 1 .. n + 1}
    BY <1>9 DEF Called
  <2>2. Called = {stack[k].at : k \in 1 .. n}
    BY <1>9 DEF Called
  <2>3. \A k \in 1 .. n + 1 : k \in 1 .. n \/ k = n + 1
    BY <1>9
  <2>4. \A k \in 1 .. n : k \in 1 .. n + 1
    BY <1>9
  <2>5. n + 1 \in 1 .. n + 1
    BY <1>9
  <2> QED
    BY <1>8, <1>9, <2>1, <2>2, <2>3, <2>4, <2>5
<1>11. Calls(next, job, owner)'
  <2>1. Cardinality(InQueues(owner)) = Pending'
    <3>1. Started' = Started \union {job[h]} /\ job[h] \notin Started
      BY <1>6, <1>7 DEF Started
    <3>2. Cardinality(Started') = Cardinality(Started) + 1
      BY <1>0, <3>1, CountsAreNumbers, FS_AddElement
    <3>3. Pending' = submitted' - Cardinality(Started') + Len(stack')
      BY DEF Pending, Started
    <3>4. Pending' = Pending
      <4>1. /\ Cardinality(Started) \in Nat /\ submitted \in Nat
            /\ Pending = submitted - Cardinality(Started) + n
        <5> HIDE DEF PoolInv
        <5> QED
          BY <1>0, CountsAreNumbers DEF n
      <4>2. Pending' = submitted - (Cardinality(Started) + 1) + (n + 1)
        BY <1>7, <1>9, <3>2, <3>3
      <4> HIDE DEF n
      <4> QED
        BY <1>9, <4>1, <4>2
    <3> QED
      BY <1>2, <3>4 DEF Calls
  <2>2. ASSUME NEW x \in InQueues(owner)
        PROVE  job[x] \in 1 .. submitted /\ runs'[job[x]] = IF x \in Called' THEN 1 ELSE 0
    <3>1. job[x] \in 1 .. submitted /\ runs[job[x]] = IF x \in Called THEN 1 ELSE 0
      BY <1>2 DEF Calls
    <3>2. job[x] = job[h] => x = h
      BY <1>2, <1>4 DEF Calls
    <3>3. runs'[job[x]] = IF job[x] = job[h] THEN 1 ELSE runs[job[x]]
      <4>1. job[x] \in 1 .. MaxJobs
        BY <1>0, <1>6, <3>1, BoundsAssumption DEF Typed, TypeOK
      <4> QED
        BY <1>6, <1>7, <4>1
    <3> QED
      BY <1>10, <3>1, <3>2, <3>3
  <2>3. ASSUME NEW j \in 1 .. submitted, runs'[j] = 0
        PROVE  \E x \in InQueues(owner) : job[x] = j
    <3>1. runs[j] = 0
      BY <1>6, <1>7, <2>3
    <3> QED
      BY <1>2, <3>1 DEF Calls
  <2> QED
    BY <1>2, <1>7, <2>1, <2>2, <2>3 DEF Calls
<1>12. Frames' /\ Saved(next)'
  <2>1. \A k \in 1 .. n + 1 : k \in 1 .. n \/ k = n + 1
    BY <1>9
  <2>2. /\ \A k \in 1 .. n : stack[k].queue # q /\ stack[k].at = head[stack[k].queue]
        /\ \A k \in 1 .. n : stack[k].saved = next[stack[k].at]
        /\ \A j, k \in 1 .. n : stack[j].queue = stack[k].queue => j = k
    BY <1>0, <1>5, <1>9 DEF Frames, Saved
  <2>3. Frames'
    BY <1>3, <1>7, <1>8, <1>9, <2>1, <2>2 DEF Frames
  <2>4. Saved(next)'
    BY <1>7, <1>8, <1>9, <2>1, <2>2 DEF Saved
  <2> QED
    BY <2>3, <2>4
<1>13. RunsOnce'
  BY <1>0, <1>6, <1>7 DEF RunsOnce
<1>14. Lists(next, Firsts(free), owner, rank)'
  <2>1. Firsts(free)' = Firsts(free)
    BY <1>7 DEF Firsts
  <2> QED
    BY <1>2, <1>7, <2>1
<1> QED
  BY <1>1, <1>7, <1>11, <1>12, <1>13, <1>14 DEF PoolInv

\* When a callback returns, its record goes back to the pool, and the next
\* record of the queue, if there is one, has its callback called.
LEMMA ReturnStep ==
  ASSUME PoolInv, Typed', CallbackReturns
  PROVE  PoolInv'
<1>0. /\ Typed /\ Frames /\ RunsOnce /\ Saved(next)
      /\ stack # <<>> /\ stack \in Seq(FrameType)
      /\ next \in [Record -> Record \union {0}] /\ free \in Record \union {0}
      /\ head \in [Queue -> Record \union {0}]
      /\ runs \in [1 .. MaxJobs -> 0 .. 2] /\ submitted \in 0 .. MaxJobs /\ MaxJobs \in Nat
      /\ 0 \notin Record
  <2>1. Typed /\ Frames /\ RunsOnce /\ Saved(next) /\ stack # <<>>
    BY DEF PoolInv, CallbackReturns
  <2>2. 0 \notin Record
    BY DEF Record
  <2> QED
    BY <2>1, <2>2, BoundsAssumption DEF Typed, TypeOK
<1>1. submitted # 0
  BY <1>0 DEF PoolInv, Untouched
<1>2. PICK owner, rank : Lists(next, Firsts(free), owner, rank) /\ Calls(next, job, owner)
  BY <1>1 DEF PoolInv
<1>3. PICK n : n = Len(stack)
  OBVIOUS
<1>4. /\ n \in Nat \ {0} /\ DOMAIN stack = 1 .. n
      /\ Below \in Seq(FrameType) /\ Len(Below) = n - 1
      /\ \A k \in 1 .. n - 1 : Below[k] = stack[k]
  BY <1>0, <1>3, BelowElements, LenProperties DEF Below
<1>5. PICK a, h, g : a = Top.queue /\ h = Top.at /\ g = Top.saved
  OBVIOUS
<1>6. /\ a \in Queue /\ h \in Record /\ g \in Record \union {0}
      /\ h = head[a] /\ g = next[h] /\ owner[h] = a
      /\ Top = stack[n] /\ n \in 1 .. n
  <2>1. Top = stack[n] /\ n \in DOMAIN stack /\ n \in 1 .. n
    BY <1>3, <1>4 DEF Top
  <2>2. stack[n] \in FrameType
    BY <1>0, <1>4, <2>1
  <2>3. a \in Queue /\ h \in Record /\ g \in Record \union {0}
    BY <1>5, <2>1, <2>2 DEF FrameType
  <2>4. h = head[a] /\ g = next[h]
    BY <1>0, <1>5, <2>1 DEF Frames, Saved
  <2>5. owner[h] = a
    BY <1>0, <1>2, <1>5, <2>1, DrainsStandInQueues
  <2> QED
    BY <2>1, <2>3, <2>4, <2>5
<1>7. /\ free' = h /\ next' = [next EXCEPT ![h] = free]
      /\ head' = [head EXCEPT ![a] = g]
      /\ IF g = 0 THEN stack' = Below /\ runs' = runs
         ELSE stack' = Append(Below, Frame(a, g)) /\ runs' = Invoked(g)
      /\ job' = job /\ submitted' = submitted
  BY <1>5, <1>6 DEF CallbackReturns, Advanced
<1>8. /\ \A k \in 1 .. n - 1 : /\ stack[k].queue # a /\ stack[k].queue \in Queue
                               /\ stack[k].at # h /\ stack[k].at \in Record
                               /\ g # 0 => stack[k].at # g
      /\ g # 0 => owner[g] = a /\ g # h
  <2>1. g # 0 => owner[g] = a /\ rank[g] = rank[h] - 1 /\ rank[h] \in Nat
    BY <1>2, <1>6 DEF Lists
  <2>2. g # 0 => g # h
    BY <2>1
  <2>3. ASSUME NEW k \in 1 .. n - 1
        PROVE  /\ stack[k].queue # a /\ stack[k].queue \in Queue
               /\ stack[k].at \in Record /\ owner[stack[k].at] # a
    <3>1. k \in DOMAIN stack /\ n \in DOMAIN stack /\ k # n
      BY <1>4
    <3>2. stack[k].queue # a
      BY <1>0, <1>5, <1>6, <3>1 DEF Frames
    <3> QED
      BY <1>0, <1>2, <3>1, <3>2, DrainsStandInQueues
  <2> QED
    BY <1>6, <2>1, <2>2, <2>3
<1>9. PICK ats : ats = {stack[k].at : k \in 1 .. n - 1}
  OBVIOUS
<1>10. Called = ats \union {h} /\ h \notin ats /\ (g # 0 => g \notin ats)
  <2>1. Called = {stack[k].at : k \in 1 .. n}
    BY <1>4 DEF Called
  <2>2. \A k \in 1 .. n : k \in 1 .. n - 1 \/ k = n
    BY <1>4
  <2>3. \A k \in 1 .. n - 1 : k \in 1 .. n
    BY <1>4
  <2>4. stack[n].at = h
    BY <1>5, <1>6
  <2>5. Called = ats \union {h}
    BY <1>6, <1>9, <2>1, <2>2, <2>3, <2>4
  <2> QED
    BY <1>8, <1>9, <2>5
<1>11. /\ InQueues(owner) \subseteq Record /\ h \in InQueues(owner)
       /\ g # 0 => g \in InQueues(owner) /\ g \notin Called
  <2>1. InQueues(owner) \subseteq Record /\ h \in InQueues(owner)
        /\ (g # 0 => g \in InQueues(owner))
    BY <1>6, <1>8, PoolIsNoQueue DEF InQueues
  <2> QED
    BY <1>8, <1>10, <2>1
<1>12. \A x \in InQueues(owner) :
         /\ job[x] \in 1 .. submitted /\ job[x] \in 1 .. MaxJobs
         /\ runs[job[x]] = IF x \in Called THEN 1 ELSE 0
  <2>1. \A j \in 1 .. submitted : j \in 1 .. MaxJobs
    BY <1>0
  <2> QED
    BY <1>2, <2>1 DEF Calls
<1>13. \A j \in 1 .. MaxJobs : runs'[j] = IF g # 0 /\ j = job[g] THEN 1 ELSE runs[j]
  <2>1. CASE g = 0
    BY <1>7, <2>1
  <2>2. CASE g # 0
    <3>1. job[g] \in 1 .. MaxJobs /\ runs[job[g]] = 0
      BY <1>11, <1>12, <2>2
    <3>2. runs' = [runs EXCEPT ![job[g]] = 1]
      BY <1>7, <2>2, <3>1 DEF Invoked
    <3> QED
      BY <1>0, <2>2, <3>1, <3>2
  <2> QED
    BY <2>1, <2>2
<1>14. PICK m : m = IF g = 0 THEN n - 1 ELSE n
  OBVIOUS
<1>15. /\ m \in Nat /\ Len(stack') = m /\ DOMAIN stack' = 1 .. m
       /\ \A k \in 1 .. n - 1 : k \in 1 .. m /\ stack'[k] = stack[k]
       /\ \A k \in 1 .. m : k \in 1 .. n - 1 \/ (k = n /\ g # 0)
       /\ g # 0 => /\ n \in 1 .. m /\ stack'[n].queue = a /\ stack'[n].at = g
                   /\ stack'[n].saved = next[g]
  <2>1. CASE g = 0
    <3>1. stack' = Below /\ m = n - 1 /\ DOMAIN Below = 1 .. n - 1
      BY <1>4, <1>7, <1>14, <2>1, LenProperties
    <3> QED
      BY <1>4, <2>1, <3>1
  <2>2. CASE g # 0
    <3>1. stack' = Append(Below, Frame(a, g)) /\ m = n
      BY <1>7, <1>14, <2>2
    <3>2. /\ Frame(a, g) \in FrameType /\ Frame(a, g).queue = a /\ Frame(a, g).at = g
          /\ Frame(a, g).saved = next[g]
      BY <1>0, <1>6, <2>2 DEF Frame, FrameType
    <3>3. n - 1 + 1 = n
      BY <1>4
    <3>4. /\ DOMAIN stack' = 1 .. n /\ Len(stack') = n
          /\ \A k \in 1 .. n - 1 : stack'[k] = stack[k]
          /\ stack'[n] = Frame(a, g)
      BY <1>4, <3>1, <3>2, <3>3, PushedFrame
    <3> QED
      BY <1>4, <2>2, <3>1, <3>2, <3>4
  <2> QED
    BY <2>1, <2>2
<1>16. Called' = IF g = 0 THEN ats ELSE ats \union {g}
  <2>1. Called' = {stack'[k].at : k \in 1 .. m}
    BY <1>15 DEF Called
  <2> QED
    BY <1>9, <1>15, <2>1
<1>17. PICK owner2, rank2 :
         /\ owner2 = [owner EXCEPT ![h] = Pool]
         /\ rank2 = [rank EXCEPT ![h] = IF free = 0 THEN 1 ELSE rank[free] + 1]
  OBVIOUS
<1>18. /\ Pool \in Owner /\ a \in Owner /\ Pool # a
       /\ Firsts(free) \in [Owner -> Record \union {0}]
       /\ Firsts(free)[a] = h /\ Firsts(free)[Pool] = free
       /\ Firsts(free)' = [Firsts(free) EXCEPT ![a] = g, ![Pool] = h]
  <2>1. Pool \in Owner /\ a \in Owner /\ Pool # a
    BY <1>6, PoolIsNoQueue DEF Owner
  <2>2. \A o \in Owner : Firsts(free)[o] = IF o = Pool THEN free ELSE head[o]
    BY DEF Firsts
  <2>3. Firsts(free) \in [Owner -> Record \union {0}]
    BY <1>0 DEF Firsts, Owner
  <2>4. Firsts(free)' = [o \in Owner |-> IF o = Pool THEN h ELSE head'[o]]
    BY <1>7 DEF Firsts
  <2>5. \A o \in Owner : o # Pool => head'[o] = IF o = a THEN g ELSE head[o]
    BY <1>0, <1>6, <1>7 DEF Owner
  <2> DEFINE new == [Firsts(free) EXCEPT ![a] = g, ![Pool] = h]
  <2>6. new = [o \in Owner |-> new[o]]
        /\ \A o \in Owner : new[o] = IF o = Pool THEN h ELSE IF o = a THEN g ELSE head[o]
    BY <2>1, <2>2, <2>3
  <2> HIDE DEF new
  <2>7. Firsts(free)' = new
    BY <2>4, <2>5, <2>6
  <2> QED
    BY <1>6, <2>1, <2>2, <2>3, <2>7 DEF new
<1>19. Lists(next', Firsts(free)', owner2, rank2)
  <2>1. PICK nx, first, first2 :
        nx = next /\ first = Firsts(free) /\ first2 = Firsts(free)'
    OBVIOUS
  <2>2. /\ first \in [Owner -> Record \union {0}] /\ h = first[a] /\ free = first[Pool]
        /\ nx \in [Record -> Record \union {0}] /\ Lists(nx, first, owner, rank)
    BY <1>0, <1>2, <1>18, <2>1
  <2>3. /\ next' = [nx EXCEPT ![first[a]] = first[Pool]]
        /\ first2 = [first EXCEPT ![a] = nx[first[a]], ![Pool] = first[a]]
        /\ owner2 = [owner EXCEPT ![first[a]] = Pool]
        /\ rank2 = [rank EXCEPT ![first[a]] =
                      IF first[Pool] = 0 THEN 1 ELSE rank[first[Pool]] + 1]
    BY <1>6, <1>7, <1>17, <1>18, <2>1, <2>2
  <2>4. Lists([nx EXCEPT ![first[a]] = first[Pool]],
              [first EXCEPT ![a] = nx[first[a]], ![Pool] = first[a]],
              [owner EXCEPT ![first[a]] = Pool],
              [rank EXCEPT ![first[a]] =
                 IF first[Pool] = 0 THEN 1 ELSE rank[first[Pool]] + 1])
    <3>1. Pool \in Owner /\ a \in Owner /\ Pool # a /\ first[a] # 0
      BY <1>0, <1>6, <1>18, <2>2
    <3> QED
      BY <2>2, <3>1, MoveFirst
  <2> QED
    BY <2>1, <2>3, <2>4
<1>20. InQueues(owner2) = InQueues(owner) \ {h}
  <2>1. owner \in [Record -> Owner]
    BY <1>2 DEF Lists
  <2> QED
    BY <1>6, <1>17, <2>1 DEF InQueues
<1>21. ASSUME NEW x \in InQueues(owner2)
       PROVE  x \in InQueues(owner) /\ x # h /\ next'[x] = next[x]
  BY <1>0, <1>7, <1>11, <1>20, <1>21
<1>22. Calls(next, job, owner2)'
  <2>1. Cardinality(InQueues(owner2)) = Pending'
    <3>1. /\ Cardinality(InQueues(owner2)) = Pending - 1
          /\ IsFiniteSet(Started) /\ Cardinality(Started) \in Nat
          /\ Pending = submitted - Cardinality(Started) + n
      <4>1. /\ IsFiniteSet(InQueues(owner)) /\ Cardinality(InQueues(owner)) \in Nat
            /\ IsFiniteSet(Started) /\ Cardinality(Started) \in Nat
            /\ Pending = submitted - Cardinality(Started) + n
        BY <1>0, <1>3, CountsAreNumbers
      <4>2. Cardinality(InQueues(owner)) = Pending
        BY <1>2 DEF Calls
      <4> QED
        BY <1>11, <1>20, <4>1, <4>2, FS_RemoveElement
    <3>2. Pending' = submitted - Cardinality(Started') + m
      <4>1. Pending' = submitted' - Cardinality(Started') + Len(stack')
        BY DEF Pending, Started
      <4> QED
        BY <1>7, <1>15, <4>1
    <3>3. Cardinality(Started') = Cardinality(Started) + IF g = 0 THEN 0 ELSE 1
      <4>1. CASE g = 0
        <5>1. Started' = Started
          BY <1>13, <4>1 DEF Started
        <5> QED
          BY <3>1, <4>1, <5>1
      <4>2. CASE g # 0
        <5>1. job[g] \in 1 .. MaxJobs /\ runs[job[g]] = 0
          BY <1>11, <1>12, <4>2
        <5>2. Started' = Started \union {job[g]} /\ job[g] \notin Started
          BY <1>13, <4>2, <5>1 DEF Started
        <5> QED
          BY <3>1, <4>2, <5>2, FS_AddElement
      <4> QED
        BY <4>1, <4>2
    <3> QED
      BY <1>0, <1>4, <1>14, <3>1, <3>2, <3>3
  <2>2. ASSUME NEW x \in InQueues(owner2)
        PROVE  job[x] \in 1 .. submitted /\ runs'[job[x]] = IF x \in Called' THEN 1 ELSE 0
    <3>1. /\ x \in InQueues(owner) /\ x # h
          /\ job[x] \in 1 .. submitted /\ job[x] \in 1 .. MaxJobs
          /\ runs[job[x]] = IF x \in Called THEN 1 ELSE 0
      BY <1>12, <1>21
    <3>2. g # 0 /\ job[x] = job[g] => x = g
      BY <1>2, <1>11, <3>1 DEF Calls
    <3>3. runs'[job[x]] = IF g # 0 /\ x = g THEN 1 ELSE runs[job[x]]
      BY <1>13, <3>1, <3>2
    <3> QED
      BY <1>10, <1>16, <3>1, <3>3
  <2>3. ASSUME NEW x \in InQueues(owner2), NEW y \in InQueues(owner2), job[x] = job[y]
        PROVE  x = y
    BY <1>2, <1>21, <2>3 DEF Calls
  <2>4. ASSUME NEW j \in 1 .. submitted, runs'[j] = 0
        PROVE  \E x \in InQueues(owner2) : job[x] = j
    <3>1. runs[j] = 0
      BY <1>0, <1>13, <2>4
    <3>2. PICK x \in InQueues(owner) : job[x] = j
      BY <1>2, <3>1 DEF Calls
    <3>3. x # h
      BY <1>10, <1>12, <3>1, <3>2
    <3> QED
      BY <1>20, <3>2, <3>3
  <2>5. ASSUME NEW x \in InQueues(owner2), next'[x] # 0
        PROVE  job[next'[x]] < job[x]
    BY <1>2, <1>21, <2>5 DEF Calls
  <2> QED
    BY <1>7, <2>1, <2>2, <2>3, <2>4, <2>5 DEF Calls
<1>23. Frames' /\ Saved(next)'
  <2>1. /\ \A k \in 1 .. n - 1 : stack[k].at = head[stack[k].queue]
        /\ \A k \in 1 .. n - 1 : stack[k].saved = next[stack[k].at]
        /\ \A j, k \in 1 .. n - 1 : stack[j].queue = stack[k].queue => j = k
    <3>1. \A k \in 1 .. n - 1 : k \in DOMAIN stack
      BY <1>4
    <3> QED
      BY <1>0, <3>1 DEF Frames, Saved
  <2>2. /\ head'[a] = g /\ \A q \in Queue : q # a => head'[q] = head[q]
        /\ \A r \in Record : r # h => next'[r] = next[r]
    BY <1>0, <1>6, <1>7
  <2>3. ASSUME NEW k \in DOMAIN stack'
        PROVE  /\ stack'[k].at = head'[stack'[k].queue]
               /\ stack'[k].saved = next'[stack'[k].at]
    <3>1. CASE k \in 1 .. n - 1
      BY <1>8, <1>15, <2>1, <2>2, <3>1
    <3>2. CASE k = n /\ g # 0
      BY <1>6, <1>8, <1>15, <2>2, <3>2
    <3> QED
      BY <1>15, <3>1, <3>2
  <2>4. ASSUME NEW j \in DOMAIN stack', NEW k \in DOMAIN stack',
               stack'[j].queue = stack'[k].queue
        PROVE  j = k
    <3>1. CASE j \in 1 .. n - 1 /\ k \in 1 .. n - 1
      BY <1>15, <2>1, <2>4, <3>1
    <3>2. CASE ~(j \in 1 .. n - 1 /\ k \in 1 .. n - 1)
      BY <1>8, <1>15, <2>4, <3>2
    <3> QED
      BY <3>1, <3>2
  <2> QED
    BY <2>3, <2>4 DEF Frames, Saved
<1>24. RunsOnce'
  <2>1. g # 0 => job[g] \in 1 .. submitted
    BY <1>11, <1>12
  <2>2. ASSUME NEW j \in 1 .. MaxJobs
        PROVE  runs'[j] \in {0, 1} /\ (j > submitted' => runs'[j] = 0)
    <3>1. runs[j] \in {0, 1} /\ (j > submitted => runs[j] = 0)
      BY <1>0 DEF RunsOnce
    <3>2. g # 0 /\ j = job[g] => ~(j > submitted)
      BY <1>0, <2>1
    <3> QED
      BY <1>7, <1>13, <3>1, <3>2
  <2> QED
    BY <2>2 DEF RunsOnce
<1> QED
  BY <1>1, <1>7, <1>19, <1>22, <1>23, <1>24 DEF PoolInv

-----------------------------------------------------------------------------
(* The invariant in every state. *)

LEMMA PoolInit == Init => PoolInv
<1> SUFFICES ASSUME Init PROVE PoolInv
  OBVIOUS
<1>1. Typed /\ Untouched /\ submitted = 0
  BY TypedInit DEF Init, Untouched
<1>2. Frames /\ Saved(next) /\ RunsOnce
  BY DEF Init, Frames, Saved, RunsOnce
<1> QED
  BY <1>1, <1>2 DEF PoolInv

LEMMA PoolNext == CallersBehave /\ PoolInv /\ [Next]_vars => PoolInv'
<1> SUFFICES ASSUME CallersBehave, PoolInv, [Next]_vars PROVE PoolInv'
  OBVIOUS
<1>1. Typed'
  BY TypedNext DEF PoolInv
<1>2. CASE Next
  BY <1>1, <1>2, EnqueueStep, DrainStep, ReturnStep DEF Next
<1>3. CASE UNCHANGED vars
  <2>1. Pending' = Pending
    BY <1>3 DEF vars, Pending
  <2>2. Firsts(free)' = Firsts(free) /\ Called' = Called
    BY <1>3 DEF vars, Firsts, Called
  <2>3. \A owner : Calls(next, job, owner) => Calls(next, job, owner)'
    BY <1>3, <2>1, <2>2 DEF vars, Calls
  <2>4. Frames' /\ Saved(next)' /\ RunsOnce' /\ (Untouched => Untouched')
    BY <1>3 DEF vars, PoolInv, Frames, Saved, RunsOnce, Untouched
  <2>5. ASSUME submitted # 0
        PROVE  \E owner, rank : /\ Lists(next', Firsts(free)', owner, rank)
                                /\ Calls(next, job, owner)'
    <3>1. PICK owner, rank : Lists(next, Firsts(free), owner, rank) /\ Calls(next, job, owner)
      BY <2>5 DEF PoolInv
    <3>2. Lists(next', Firsts(free)', owner, rank)
      BY <1>3, <2>2, <3>1 DEF vars
    <3> QED
      BY <2>3, <3>1, <3>2
  <2>6. submitted' = submitted
    BY <1>3 DEF vars
  <2> QED
    BY <1>1, <2>4, <2>5, <2>6 DEF PoolInv
<1> QED
  BY <1>2, <1>3

LEMMA PoolAlways ==
  ASSUME CallersBehave
  PROVE  Spec => []PoolInv
<1>1. PoolInv /\ [Next]_vars => PoolInv'
  BY PoolNext
<1> QED
  BY <1>1, PoolInit, PTL DEF Spec

\* The records the walks find in the queues are the ones queues own.
LEMMA QueuedRecords ==
  ASSUME Typed, NEW owner, NEW rank, Lists(next, Firsts(free), owner, rank)
  PROVE  /\ Terminates(free) /\ Chain(free) = {r \in Record : owner[r] = Pool}
         /\ \A q \in Queue : /\ Terminates(head[q])
                             /\ Chain(head[q]) = {r \in Record : owner[r] = q}
         /\ Queued = InQueues(owner)
<1>1. TypeOK /\ free \in Record \union {0} /\ owner \in [Record -> Owner]
  BY DEF Typed, TypeOK, Lists
<1>2. Pool \in Owner /\ Firsts(free)[Pool] = free
      /\ \A q \in Queue : q \in Owner /\ q # Pool /\ Firsts(free)[q] = head[q]
  BY PoolIsNoQueue DEF Owner, Firsts
<1>3. \A o \in Owner : /\ Chain(Firsts(free)[o]) = {r \in Record : owner[r] = o}
                       /\ Terminates(Firsts(free)[o])
  BY <1>1, ListIsChain
<1>4. \A q \in Queue : Terminates(head[q]) /\ Chain(head[q]) = {r \in Record : owner[r] = q}
  BY <1>2, <1>3
<1>5. Queued = InQueues(owner)
  BY <1>1, <1>2, <1>4 DEF Queued, InQueues, Owner
<1> QED
  BY <1>2, <1>3, <1>4, <1>5

\* Before the first callback there is nothing to walk along.
LEMMA NothingQueued ==
  ASSUME Untouched
  PROVE  /\ Terminates(free) /\ Chain(free) = {}
         /\ \A q \in Queue : Terminates(head[q]) /\ Chain(head[q]) = {}
         /\ Queued = {}
<1>1. Chain(0) = {} /\ Terminates(0)
  <2>1. PICK s : s = [i \in 1 .. 0 |-> 0]
    OBVIOUS
  <2>2. 1 .. 0 = {}
    OBVIOUS
  <2>3. s \in [1 .. 0 -> Record] /\ \A i \in 1 .. 0 : next[s[i]] = IF i = 1 THEN 0 ELSE s[i - 1]
    BY <2>1, <2>2
  <2>4. Prealloc \in Nat /\ 0 \in 0 .. Prealloc
    BY BoundsAssumption
  <2>5. Chain(0) = {s[i] : i \in 1 .. 0} /\ Terminates(0)
    BY <2>3, <2>4, WalkAlong
  <2> QED
    BY <2>2, <2>5
<1>2. free = 0 /\ \A q \in Queue : head[q] = 0
  BY DEF Untouched
<1> QED
  BY <1>1, <1>2 DEF Queued

-----------------------------------------------------------------------------
(* The theorems. *)

(***************************************************************************)
(* Whatever queues are drained inside the drain of others, no record is    *)
(* lost, shared or linked in a circle: every list ends, no two meet, and   *)
(* together they hold the whole pool once it was filled                    *)
(* (reverse/deferred_callback_queue.cpp, acquiring, enqueueing, draining). *)
(***************************************************************************)
THEOREM PoolStaysPartitioned ==
  ASSUME CallersBehave
  PROVE  Spec => []RecordsPartitioned
<1>1. ASSUME PoolInv PROVE RecordsPartitioned
  <2>1. CASE submitted = 0
    BY <1>1, <2>1, NothingQueued DEF PoolInv, RecordsPartitioned
  <2>2. CASE submitted # 0
    <3>1. PICK owner, rank : Lists(next, Firsts(free), owner, rank) /\ Calls(next, job, owner)
      BY <1>1, <2>2 DEF PoolInv
    <3>2. /\ Terminates(free) /\ Chain(free) = {r \in Record : owner[r] = Pool}
          /\ \A q \in Queue : /\ Terminates(head[q])
                              /\ Chain(head[q]) = {r \in Record : owner[r] = q}
          /\ Queued = InQueues(owner)
      BY <1>1, <3>1, QueuedRecords DEF PoolInv
    <3>3. Queued \union Chain(free) = Record
      BY <3>2 DEF InQueues
    <3>4. \A q \in Queue : q # Pool
      BY PoolIsNoQueue
    <3> QED
      BY <3>2, <3>3, <3>4 DEF RecordsPartitioned
  <2> QED
    BY <2>1, <2>2
<1> QED
  BY <1>1, PoolAlways, PTL

(***************************************************************************)
(* An enqueued callback waits in a record of a queue until it is called,   *)
(* once, and the newest of a queue is called first, however drains nest    *)
(* (reverse/deferred_callback_queue.cpp).                                  *)
(***************************************************************************)
THEOREM CallbacksRunOnce ==
  ASSUME CallersBehave
  PROVE  Spec => []CalledOnceOrWaiting
<1>1. ASSUME PoolInv PROVE CalledOnceOrWaiting
  <2>1. CASE submitted = 0
    <3>1. 1 .. submitted = {} /\ \A q \in Queue : Chain(head[q]) = {}
      BY <1>1, <2>1, NothingQueued DEF PoolInv
    <3> QED
      BY <3>1 DEF CalledOnceOrWaiting
  <2>2. CASE submitted # 0
    <3>1. PICK owner, rank : Lists(next, Firsts(free), owner, rank) /\ Calls(next, job, owner)
      BY <1>1, <2>2 DEF PoolInv
    <3>2. /\ Queued = InQueues(owner)
          /\ \A q \in Queue : Chain(head[q]) \subseteq InQueues(owner)
      <4>1. Queued = InQueues(owner)
        BY <1>1, <3>1, QueuedRecords DEF PoolInv
      <4> QED
        BY <4>1 DEF Queued
    <3>3. /\ \A r \in InQueues(owner) : runs[job[r]] = IF r \in Called THEN 1 ELSE 0
          /\ \A j \in 1 .. submitted : runs[j] = 0 => \E r \in InQueues(owner) : job[r] = j
          /\ \A r \in InQueues(owner) : next[r] # 0 => job[next[r]] < job[r]
      BY <3>1 DEF Calls
    <3>4. \A j \in 1 .. submitted : runs[j] # 0 => runs[j] = 1
      <4>1. \A j \in 1 .. submitted : j \in 1 .. MaxJobs
        BY <1>1, BoundsAssumption DEF PoolInv, Typed, TypeOK
      <4> QED
        BY <1>1, <4>1 DEF PoolInv, RunsOnce
    <3>5. \A j \in 1 .. submitted :
            runs[j] = 0 => \E r \in Queued \ Called : job[r] = j
      BY <3>2, <3>3
    <3>6. \A j \in 1 .. submitted :
            runs[j] # 0 => \A r \in Queued \ Called : job[r] # j
      BY <3>2, <3>3
    <3> QED
      BY <3>2, <3>3, <3>4, <3>5, <3>6 DEF CalledOnceOrWaiting, Called
  <2> QED
    BY <2>1, <2>2
<1> QED
  BY <1>1, PoolAlways, PTL

(***************************************************************************)
(* The record acquired for a callback holds none that still waits or runs: *)
(* below its capacity the pool is never refilled over records in use       *)
(* (reverse/deferred_callback_queue.cpp, acquiring a record).              *)
(***************************************************************************)
THEOREM AcquiredIsUnused ==
  ASSUME CallersBehave
  PROVE  Spec => AcquiredRecordIsUnused
<1>1. ASSUME PoolInv, NEW q \in Queue, Enqueue(q)
      PROVE  head'[q] \notin Queued
  <2>1. CASE submitted = 0
    BY <1>1, <2>1, NothingQueued DEF PoolInv
  <2>2. CASE submitted # 0
    <3>1. PICK owner, rank : Lists(next, Firsts(free), owner, rank) /\ Calls(next, job, owner)
      BY <1>1, <2>2 DEF PoolInv
    <3>2. free # 0
      BY <1>1, <2>2, FreeBelowCapacity DEF Enqueue
    <3>3. head'[q] = free
      BY <1>1, <3>2 DEF Enqueue, Refilled, PoolInv, Typed, TypeOK
    <3>4. owner[free] = Pool
      <4>1. Pool \in Owner /\ Firsts(free)[Pool] = free
        BY DEF Owner, Firsts
      <4> QED
        BY <3>1, <3>2, <4>1 DEF Lists
    <3>5. Queued = InQueues(owner)
      BY <1>1, <3>1, QueuedRecords DEF PoolInv
    <3> QED
      BY <3>3, <3>4, <3>5 DEF InQueues
  <2> QED
    BY <2>1, <2>2
<1>2. PoolInv /\ [Next]_vars => [\A q \in Queue : Enqueue(q) => head'[q] \notin Queued]_vars
  BY <1>1
<1> QED
  BY <1>2, PoolAlways, PTL DEF Spec, AcquiredRecordIsUnused

\* That a drain's frame stands at its queue's head needs nothing of the pool.
LEMMA FramesNext == ~Reentrant /\ Typed /\ Frames /\ [Next]_vars => Frames'
<1> SUFFICES ASSUME ~Reentrant, Typed, Frames, [Next]_vars PROVE Frames'
  OBVIOUS
<1>0. stack \in Seq(FrameType) /\ head \in [Queue -> Record \union {0}]
      /\ \A k \in DOMAIN stack : stack[k].queue \in Queue
  BY DEF Typed, TypeOK
<1>1. ASSUME NEW q \in Queue, Enqueue(q)
      PROVE  Frames'
  <2>1. /\ q \notin Draining /\ stack' = stack
        /\ \A p \in Queue : p # q => head'[p] = head[p]
    BY <1>0, <1>1 DEF Enqueue
  <2>2. \A k \in DOMAIN stack : stack[k].queue # q
    BY <2>1 DEF Draining
  <2> QED
    BY <1>0, <2>1, <2>2 DEF Frames
<1>2. ASSUME NEW q \in Queue, Drain(q)
      PROVE  Frames'
  <2>1. PICK n, f : n = Len(stack) /\ f = Frame(q, head[q])
    OBVIOUS
  <2>2. head' = head /\ stack' = Append(stack, f) /\ q \notin Draining /\ head[q] # 0
    BY <1>2, <2>1 DEF Drain
  <2>3. f \in FrameType /\ f.queue = q /\ f.at = head[q]
    BY <1>0, <2>1, <2>2 DEF Frame, FrameType, Typed, TypeOK
  <2>4. /\ n \in Nat /\ DOMAIN stack = 1 .. n /\ DOMAIN stack' = 1 .. n + 1
        /\ \A k \in 1 .. n : stack'[k] = stack[k]
        /\ stack'[n + 1] = f
    BY <1>0, <2>1, <2>2, <2>3, PushedFrame
  <2>5. \A k \in 1 .. n + 1 : k \in 1 .. n \/ k = n + 1
    BY <2>4
  <2>6. \A k \in 1 .. n : stack[k].queue # q
    BY <2>2, <2>4 DEF Draining
  <2> QED
    BY <2>2, <2>3, <2>4, <2>5, <2>6 DEF Frames
<1>3. CASE CallbackReturns
  <2>1. PICK n, a, g : n = Len(stack) /\ a = Top.queue /\ g = Top.saved
    OBVIOUS
  <2>2. /\ stack # <<>> /\ head' = [head EXCEPT ![a] = g]
        /\ stack' = IF g = 0 THEN Below ELSE Append(Below, Frame(a, g))
    BY <1>3, <2>1 DEF CallbackReturns, Advanced
  <2>3. /\ n \in Nat \ {0} /\ DOMAIN stack = 1 .. n
        /\ Below \in Seq(FrameType) /\ Len(Below) = n - 1
        /\ \A k \in 1 .. n - 1 : Below[k] = stack[k]
    BY <1>0, <2>1, <2>2, BelowElements, LenProperties DEF Below
  <2>4. n \in DOMAIN stack /\ Top = stack[n] /\ stack[n] \in FrameType
    BY <1>0, <2>1, <2>3 DEF Top
  <2>5. a \in Queue /\ g \in Record \union {0} /\ a = stack[n].queue
    BY <2>1, <2>4 DEF FrameType
  <2>6. \A k \in 1 .. n - 1 : /\ k \in DOMAIN stack /\ stack[k].queue # a
                              /\ head'[stack[k].queue] = stack[k].at
    <3>1. \A k \in 1 .. n - 1 : k \in DOMAIN stack /\ k # n
      BY <2>3
    <3>2. \A k \in 1 .. n - 1 : stack[k].queue # a
      BY <2>4, <2>5, <3>1 DEF Frames
    <3> QED
      BY <1>0, <2>2, <3>1, <3>2 DEF Frames
  <2>7. CASE g = 0
    <3>1. stack' = Below /\ DOMAIN Below = 1 .. n - 1
      BY <2>2, <2>3, <2>7, LenProperties
    <3> QED
      BY <2>3, <2>6, <3>1 DEF Frames
  <2>8. CASE g # 0
    <3>1. Frame(a, g) \in FrameType /\ Frame(a, g).queue = a /\ Frame(a, g).at = g
      BY <2>5, <2>8 DEF Frame, FrameType, Typed, TypeOK
    <3>2. stack' = Append(Below, Frame(a, g)) /\ n - 1 + 1 = n
      BY <2>2, <2>3, <2>8
    <3>3. /\ DOMAIN stack' = 1 .. n
          /\ \A k \in 1 .. n - 1 : stack'[k] = stack[k]
          /\ stack'[n] = Frame(a, g)
      BY <2>3, <3>1, <3>2, PushedFrame
    <3>4. \A k \in 1 .. n : k \in 1 .. n - 1 \/ k = n
      BY <2>3
    <3>5. head'[a] = g
      BY <1>0, <2>2, <2>5
    <3> QED
      BY <2>6, <3>1, <3>3, <3>4, <3>5 DEF Frames
  <2> QED
    BY <2>7, <2>8
<1>4. CASE UNCHANGED vars
  BY <1>4 DEF vars, Frames
<1> QED
  BY <1>1, <1>2, <1>3, <1>4 DEF Next

(***************************************************************************)
(* The head recycled when a callback returns is the record whose callback  *)
(* it was, however small the pool, if callbacks leave a queue alone that   *)
(* is being drained (reverse/deferred_callback_queue.cpp, the drain).      *)
(***************************************************************************)
THEOREM ProcessedIsRecycled ==
  ASSUME ~Reentrant
  PROVE  Spec => ProcessedRecordIsRecycled
<1>1. Init => Typed /\ Frames
  BY TypedInit DEF Init, Frames
<1>2. Typed /\ Frames /\ [Next]_vars => Typed' /\ Frames'
  BY TypedNext, FramesNext
<1>3. ASSUME Typed, Frames, CallbackReturns
      PROVE  free' = Top.at
  <2>1. Len(stack) \in DOMAIN stack
    BY <1>3, EmptySeq, LenProperties DEF Typed, CallbackReturns
  <2> QED
    BY <1>3, <2>1 DEF CallbackReturns, Top, Frames
<1>4. Typed /\ Frames /\ [Next]_vars => [CallbackReturns => free' = Top.at]_vars
  BY <1>3
<1> QED
  BY <1>1, <1>2, <1>4, PTL DEF Spec, ProcessedRecordIsRecycled
=============================================================================
