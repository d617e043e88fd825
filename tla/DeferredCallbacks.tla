-------------------------- MODULE DeferredCallbacks --------------------------
(***************************************************************************)
(* reverse::DeferredCallbackPool: the records behind the callback queues   *)
(* of all block allocations.  Records are linked through one field, either *)
(* in a queue or in the free list all queues share, and a queue is drained *)
(* by calling its callbacks one after the other.                           *)
(*                                                                         *)
(* A callback runs in the middle of the drain, with the drain's variables  *)
(* saved, and may itself enqueue on queues and drain others.  The stack    *)
(* holds one frame for every drain that waits for its callback.            *)
(***************************************************************************)
EXTENDS Integers, Sequences, FiniteSets

CONSTANTS
  Queue,       \* the queue heads callers own
  Prealloc,    \* pool.preallocation_count; records are 1 .. Prealloc, 0 is null
  MaxJobs,     \* bound: callbacks enqueued in a behaviour
  MaxPending,  \* bound: records in queues at one time
  MaxNesting,  \* bound: drains running inside each other
  Reentrant    \* may a callback enqueue on a queue that is being drained?

ASSUME BoundsAssumption ==
  /\ Prealloc \in Nat \ {0}
  /\ MaxJobs \in Nat /\ MaxPending \in Nat /\ MaxNesting \in Nat
  /\ Reentrant \in BOOLEAN

VARIABLES
  next,       \* record.next
  job,        \* which enqueued callback a record holds; 0 when cleared
  free,       \* pool.free_head
  head,       \* queue_head, by queue
  stack,      \* the drains in progress: queue, address and saved next
  submitted,  \* history: number of callbacks enqueued, their names 1, 2, ...
  runs        \* history: how often each was called (2 stands for more)

vars == <<next, job, free, head, stack, submitted, runs>>

Record == 1 .. Prealloc

Init ==
  /\ next = [r \in Record |-> 0]
  /\ job = [r \in Record |-> 0]
  /\ free = 0
  /\ head = [q \in Queue |-> 0]
  /\ stack = <<>>
  /\ submitted = 0
  /\ runs = [j \in 1 .. MaxJobs |-> 0]

-----------------------------------------------------------------------------

Draining == {stack[k].queue : k \in DOMAIN stack}

\* Callbacks whose record is in a queue: the waiting and the running ones.
Pending == submitted - Cardinality({j \in 1 .. MaxJobs : runs[j] > 0}) + Len(stack)

\* Mutant of Refilled: an ascending chain without an end.
RefilledUnterminated ==
  IF free = 0
  THEN [next |-> [r \in Record |-> r + 1], job |-> [r \in Record |-> 0], free |-> 1]
  ELSE [next |-> next, job |-> job, free |-> free]

\* An empty free list is refilled from the start of the pool's storage.
Refilled ==
  IF free = 0
  THEN [next |-> [r \in Record |-> r - 1], job |-> [r \in Record |-> 0],
        free |-> Prealloc]
  ELSE [next |-> next, job |-> job, free |-> free]

\* acquire_deferred_callback_record, and the record published at the head.
Enqueue(q) ==
  /\ submitted < MaxJobs /\ Pending < MaxPending
  /\ Reentrant \/ q \notin Draining
  /\ LET pool == Refilled
         r == pool.free
     IN  /\ r # 0
         /\ free' = pool.next[r]
         /\ next' = [pool.next EXCEPT ![r] = head[q]]
         /\ job' = [pool.job EXCEPT ![r] = submitted + 1]
         /\ head' = [head EXCEPT ![q] = r]
  /\ submitted' = submitted + 1
  /\ UNCHANGED <<stack, runs>>

Invoked(r) == [runs EXCEPT ![job[r]] = IF @ = 0 THEN 1 ELSE 2]

Frame(q, r) == [queue |-> q, at |-> r, saved |-> next[r]]

\* A drain starts and calls the callback at the head.  Draining a queue from
\* its own callback would call that callback again, and again: callers are
\* assumed not to.
Drain(q) ==
  /\ head[q] # 0
  /\ q \notin Draining
  /\ Len(stack) < MaxNesting
  /\ stack' = Append(stack, Frame(q, head[q]))
  /\ runs' = Invoked(head[q])
  /\ UNCHANGED <<next, job, free, head, submitted>>

Top == stack[Len(stack)]
Below == SubSeq(stack, 1, Len(stack) - 1)

\* Mutant of Advanced: the link is read after the record was recycled.
AdvancedAlongFreeList(f) == free

\* Mutant of Advanced: the drain does not go on at all.
AdvancedNowhere(f) == head[f.queue]

Advanced(f) == f.saved

\* The head, whatever it is by now, is recycled; the loop goes on with the
\* record saved before the call.
CallbackReturns ==
  /\ stack # <<>>
  /\ LET f == Top
         r == Advanced(f)
     IN  /\ free' = head[f.queue]
         /\ next' = [next EXCEPT ![head[f.queue]] = free]
         /\ head' = [head EXCEPT ![f.queue] = r]
         /\ IF r = 0
            THEN stack' = Below /\ UNCHANGED runs
            ELSE stack' = Append(Below, Frame(f.queue, r)) /\ runs' = Invoked(r)
  /\ UNCHANGED <<job, submitted>>

Next ==
  \/ \E q \in Queue : Enqueue(q) \/ Drain(q)
  \/ CallbackReturns

\* Callbacks return.  Nothing obliges a caller to enqueue or to drain.
Spec == Init /\ [][Next]_vars /\ WF_vars(CallbackReturns)

-----------------------------------------------------------------------------

\* The records reached from r in k links, and all of them.
Walk(r) ==
  LET reach[k \in 0 .. Prealloc] ==
        IF k = 0 THEN r ELSE IF reach[k - 1] = 0 THEN 0 ELSE next[reach[k - 1]]
  IN  reach
Chain(r) == {Walk(r)[k] : k \in 0 .. Prealloc} \ {0}
Terminates(r) == Walk(r)[Prealloc] = 0

Queued == UNION {Chain(head[q]) : q \in Queue}

TypeOK ==
  /\ next \in [Record -> Record \union {0}]
  /\ job \in [Record -> 0 .. MaxJobs]
  /\ free \in Record \union {0}
  /\ head \in [Queue -> Record \union {0}]
  /\ \A k \in DOMAIN stack :
       stack[k] \in [queue: Queue, at: Record, saved: Record \union {0}]
  /\ Len(stack) <= MaxNesting
  /\ submitted \in 0 .. MaxJobs
  /\ runs \in [1 .. MaxJobs -> 0 .. 2]

(***************************************************************************)
(* While the records in use fit the preallocation, the links keep the pool *)
(* in order through nested drains: every list ends, no record is in two    *)
(* lists, and once the pool is filled none is missing from all of them.    *)
(***************************************************************************)
RecordsPartitioned ==
  /\ Terminates(free) /\ \A q \in Queue : Terminates(head[q])
  /\ \A q \in Queue : Chain(head[q]) \intersect Chain(free) = {}
  /\ \A p, q \in Queue : p # q => Chain(head[p]) \intersect Chain(head[q]) = {}
  /\ submitted > 0 => Queued \union Chain(free) = Record

(***************************************************************************)
(* Every enqueued callback is either waiting in exactly one record of a    *)
(* queue or was called exactly once: nested drains lose and repeat none.   *)
(* Along a queue the callbacks get older, so that a drain calls the newest *)
(* first: docs/research/dmc3-ptx-callback-arena-2026-09-23.md:35-36, "the  *)
(* queue is drained in head-first order; enqueue itself is LIFO".          *)
(***************************************************************************)
CalledOnceOrWaiting ==
  LET called == {stack[k].at : k \in DOMAIN stack}
  IN  /\ \A j \in 1 .. submitted :
           runs[j] = 0 => \E r \in Queued \ called : job[r] = j
      /\ \A j \in 1 .. submitted :
           runs[j] # 0 => runs[j] = 1 /\ \A r \in Queued \ called : job[r] # j
      /\ \A q \in Queue : \A r \in Chain(head[q]) : next[r] # 0 => job[next[r]] < job[r]

\* If callbacks return and stop enqueueing, every drain comes to its end.
DrainsComplete == stack # <<>> ~> stack = <<>>

(***************************************************************************)
(* The same document, lines 33-34: "After the callback returns, it pushes  *)
(* the processed record onto the global free list".                        *)
(***************************************************************************)
ProcessedRecordIsRecycled == [][CallbackReturns => free' = Top.at]_vars

(***************************************************************************)
(* The same document, lines 29-31: when the free list is empty, acquiring a *)
(* record "allocates 32 records": none of them is a record still in use.    *)
(***************************************************************************)
AcquiredRecordIsUnused ==
  [][\A q \in Queue : Enqueue(q) => head'[q] \notin Queued]_vars
=============================================================================
