# A TLA+ model of DMC Rengine

DMC Rengine is a C++20 framework for taking a game's executable and archives
apart and putting modified ones together. Most of its lines decode file formats.
The part that this directory models is the rest: the objects that live through
many calls, that several tools share, or that touch a file system which other
processes touch as well, and whose guarantees depend on the order in which all
of that happens.

Paths below are relative to the root of the repository.

## 1. Inventory

The library has no threads. Its concurrency is of three other kinds: tools that
work on one resource in turn and act on what they saw earlier; callbacks that
run in the middle of the operation that calls them; and command-line processes
that publish into one directory and may die at any call.

| Component | State it keeps | Operations | Interacts with | What is hard | What makes it correct |
|---|---|---|---|---|---|
| Working copy (`src/gdspaces/working_copy.cpp`) | bytes, revision, stack of deltas | `apply`, `undo_last`, `reset` | held by a session | edits prepared earlier; deltas of different lengths; revisions used twice | an edit meets the bytes it was made for; undo restores exactly |
| Resource workspace session (`src/integration/resource_workspace*.cpp`) | working copy, format, parser validation, routes, attachments, evidence links, journal | parser completion, diagnostics, enable, edit, undo, reset, attach, link, record work | working copy, journal, tool routes | order of diagnostics and completions; journal against state | a gated format never opens after an error; journal tells the history |
| Event journal (`src/integration/workspace_event.cpp`) | sequence of events | `record` | called by sessions | results are dropped by callers | one entry for every change |
| Integration project (`src/source/integration_project.cpp`) | packages, report, conflicts, decisions, gates, state | select, two analyses, resolve, record gate, transition, fail | registered (copied) in a project workspace, read by custom builds | everything may be called at any time and again | what a state promises still holds later |
| No-replace publication (`src/core/no_replace_publication.cpp`) | staging directory, stream; the file system | reserve, write, validate, link, clean up | commands that publish outputs and receipts; other processes | races, faults, crashes, hard links | what is visible is complete and never replaced |
| Temporary backing (`src/reverse/temporary_backing_allocator.cpp`) | cursor, lease counters, leases | acquire, allocate, release | gives the block arenas their memory | rounding after the bound check, words | spans in use are nobody else's |
| Deferred callbacks (`src/reverse/deferred_callback_queue.cpp`) | pool of linked records, queue heads | acquire, enqueue, drain | drained by the block allocator's release | drains inside callbacks, a full pool | every job called once |
| Runtime block allocator (`src/reverse/runtime_block_allocator.cpp`) | occupancy cells, counters, nodes | initialise, find, allocate, route, release | takes memory from a backing; its releases drain callbacks | a search with a run counter never reset; callbacks in the middle of a release | map, counters and nodes agree; live runs are disjoint; the first fit is found |
| Texture manager (`src/reverse/ptx_*.cpp`) | table of counted entries, pool of records, occupancy map, palette banks | acquire, release, load step by step, place, set up and destroy banks, reset keys | a parser, a finalizer and the block allocator, which may refuse | each step of a load may fail and undoes something else; keys reset while textures are held | map, records and owners agree; held means loaded |
| Guarded patching (`src/patch/`) | a compiled patch; a private copy | compile, execute with rollback check | project workspace, which it reads and is registered in | what it was compiled from moves on | a patch once compiled can be registered and executed |
| Project workspace (`src/integration/project_workspace*.cpp`) | evidence, artifacts, packets, sessions, graph; packages, projects, builds | imports, sessions, registrations | sessions and their journals, validation plans, patches | values derived from it are registered later; results of `connect` dropped | provenance hangs together; graph and journals agree |
| Validation plans (`src/item/runtime_request.cpp`, `src/validation/item_runtime_plan.cpp`) | none | make a request, build its plan | read the workspace, are registered in it | revisions used twice | a plan is about the bytes of its request |
| Custom builds (`src/source/custom_build*.cpp`) | build records | register, reopen | integration project | project moved on meanwhile | record agrees with its project |
| NBZ repacker (`src/gdspaces/nbz_zip_repacker.cpp`) | archive bound by digest | bind, copy, publish | publication | source changes under it | output is of the bound source |
| Resource spaces (`src/gdspaces/source_registry.cpp`, ...) | mounted sources, key index | mount, enumerate, read, expand | sessions | collisions, depth limits | stable identities |
| DMC3 resolution (`src/profiles/dmc3/volume_bootstrap_policy.cpp`, ...) | ordered providers | discover, resolve | resource spaces | gaps in volume numbers, order | the first provider in order wins |

The remaining directories (`src/formats`, `src/binary`, `src/exe`, `src/codecs`,
`src/hits`, `src/item`, `src/save`, `src/stageops`, `src/modviz`, `src/analysis`,
`src/validation`, `src/evidence`) hold decoders, writers, projections and
append-only registries: functions of their input, or one guard and one insertion.
`PROJECT.json` lists each component with its status, and under `hazards` every
place we know of where the order of things bites.

## 2. Modules

| Module | Models | Extends or instantiates |
|---|---|---|
| `UndoStack` | abstract promise of a working copy: a content and a stack of earlier contents | |
| `WorkingCopy` | `gdspaces::WorkingCopy` | implements `UndoStack` (`before` is the abstract stack) |
| `ResourceWorkspace` | `integration::ResourceWorkspaceSession` with its journal, and the tools that prepare edits | extends `WorkingCopy` |
| `IntegrationProject` | `source::IntegrationProject` | |
| `TemporaryBacking` | `reverse::TemporaryBackingArena` and its leases | |
| `DeferredCallbacks` | `reverse::DeferredCallbackPool` and its queues | |
| `RefCountedCache` | abstract promise of a table of shared resources: loaded once, counted, unloaded by the last holder, never evicted | |
| `PtxManager` | `reverse::PtxManagerImage` with `PtxPoolImage` and `PtxPaletteContextImage` | implements `RefCountedCache` |
| `WriteOnceStore` | abstract promise of a directory published to: a free path may receive one finished artifact and keeps it | |
| `NoReplacePublication` | `core::publish_bytes_no_replace` run by many processes over one file system | implements `WriteOnceStore` |
| `BlockStore` | abstract promise of a block allocator: a run of free blocks is one holder's until it gives the run back | |
| `RuntimeBlocks` | `reverse::BlockArenaState`, `BlockAllocationState` and the functions over them | implements `BlockStore` |
| `ProjectWorkspace` | `integration::ProjectWorkspace` with its graph, and the callers that make requests, plans, patches and copies | |
| `MC...` | the instance TLC checks | extends the module named |
| `...Proofs` | theorems about the module named | extends it, and `TLAPS` |

### Working copy and session

`current`, `revision`, `applied` are the fields of the class; `before` is a history
variable (the contents before each applied edit, which the code does not keep: it
keeps deltas). `Apply`, `UndoLast`, `Reset` are the three members. Refused calls
change nothing and are no steps; what they refuse is `Accepts` and `UndoFits`.

In the session, tools compose a *draft* from what they see (`Compose`) and submit
it later (`ApplyEdit`, `EditRefused`); in between others edit, undo or reset. The
draft is the caller's variable, `op` being the `EditOperation`, `seen` and `lifetime`
history variables. Every action appends the journal entry its function records. Documents,
stage and executable contexts are attached and evidence is linked beside the edits, and tools journal
their work (`RecordWork`): these entries fall between those of the edits and carry the revision they found.
Parser completion replaces the validation, an error spoils it for good. The session
is `valid()`; an invalid one refuses everything. All tools of the checked instance
have a route: a tool without one is refused before it can change anything, and
the proofs cover it.

### Integration project

Packages are records with exactly what the analyses compare: identifier, version,
dependencies, declared conflicts, symbols, file results, configuration keys. Version
constraints are `*`, a version, or something the code does not support (which
never matches). `stage` is the position in the pipeline, `failure` the failure state;
in the code both are `state_`. `conflicts` is a function from conflict identifiers, because the
code keeps the first conflict of each identifier. `vouched` and `reopened` are history
variables: whether a gate that analyses normally write was a caller's word when
the project passed it, and whether the analysis ran again after INTEGRATING.

### Temporary backing

All sizes are machine words: `Rounded` is the cast of line 52, `Word` being 2^32 in
the program. `live` is the history of spans handed out under leases still held.

### Deferred callbacks

Records are numbered 1 to `Prealloc`, null is 0. The links of records are the code's,
so the properties are about chains through storage, not about sequences. The stack
of frames is the machine's: each frame is a drain in the middle of a callback with
its saved `record.next`. `Reentrant` says whether a callback may enqueue on a queue
that is being drained.

### Texture manager

The code is the state image of a texture manager recovered from the game: 32 entries, 128
records, a map of one byte per unit of graphics memory. `entry`, `record`, `occupied`, `limit`
and `bank` are that state. A record is free, reserved (word 0 set by `allocate_ptx_record`) or
placed (word 0x46 set by `mark_ptx_record_spans`); its span is the cell of the image and, when
its palette lies beside it, one more. `holds`, `forgotten` and `stray` are history
variables about the callers: who acquired a key since the last reset, who before.

`acquire_ptx` either shares (`Share`) or runs the loader, which is told in steps because each of
them has its own exit: `ParseFails`, `RecordsExhausted`, `PaletteRefused`, `PlacementFails` and
`FinalizerFails`. All of them make `acquire_ptx` return null and leave the entry vacant, and each
undoes something else; `job` is the call in progress and nothing else runs meanwhile.
The palette context is set up in steps for the same reason (`StartSetUp`, `BankPlaced`,
`BankUnplaced`, `SetUpEnds`). `FirstFit` says what the automatic scan of `place_ptx_record` finds, and
`BelowLimit` keeps its peculiarity: the limit is read only while occupied cells are skipped, so
the run at the pool's base is taken whatever the limit. Two cells per record is all the
scan ever asks for in these paths (length mode 0).

The parser, the finalizer and the memory of the banks are external: they succeed or fail.
The basic and the variant loader differ in the argument that decides whether palettes are
shared, which is the `palette` of a texture here.

### Publication

One action per call into the file system: `create_directory`, opening with `trunc`, writing
through to `close`, the validator, `is_regular_file`, `create_hard_link`, `exists`, `remove_all`. Each may
fail at any time (`...Fails`, `...Refused`; a failed `exists` explains a refused link as `publication_failed`, see `Verdicts`), and a process may die between any two
(`Crash`). Files are inodes: `file` says which inode a destination names, `directory` which
one a staging directory holds, `data` what an inode contains; so a crash after
linking leaves two names for one inode, as it does on disk. `Plan` gives every process
its destination and suffix per artifact, `WithReceipt` those which publish a receipt after
a successful output, `Checked` those with a validator, `Flawed` those whose output
would not reopen as requested.

### Runtime blocks

`cell` is the occupancy map, one byte per block as in the code, `live` the counter of an arena, `node`
the `BlockAllocationState` of every caller. `find_runtime_block_run` is not a definition that says what it should
return: it is told in steps, one where each of its loops turns (`SkipGroup`, `EnterGroup`, `ProbeBreaks`, `GroupsEnd`,
`TailEnters`, `TailBreaks`, ...), over the variables it has (`scan`), so that `SearchFindsFirstFit` is a
consequence of what its loops do. `call` is the allocation in progress; nothing else runs meanwhile. `Attempt` writes the arena into the
node before the search, as the code does, and a search that fails takes it out again (`Withdrawn`), before the fallback is
tried with the same node or the caller is told; `Settled` are the nodes that are neither in an attempt nor in a release, of which `OccupancyIsOwned` speaks.
`Seen` is the run counter that line 43 never resets, and with it the model reaches the one place where the search
is not a first fit (`Overlooked`): a run that starts exactly behind the last whole word of cells, when that word is full, may
be passed over. No document promises more.

A release is two steps, `Release` and `ReleaseEnds`, because the drain of callbacks stands between them: the run is
already free, the node still names it, and everything else may be called. `releasing` is the stack of
releases that wait for their callbacks. A callback that releases the node being
released would be called by itself without end; callers are assumed not to. Which callbacks run is left open:
`DeferredCallbacks` models the queue, here any call an owner may make is possible.

Addresses are numbers: the backing of an arena is `Backing[a]`, `Data` its first block, `BlockBytes` a rounded block.
`BlockStore` sees only who holds which block (`Owner`).

### Project workspace

The module follows a change of the game's rules through the tools. Evidence is added one record at a time or in
packets with artifacts (`AddEvidence`, `ImportPacket`); sessions are opened for items and executables and analysed; an item
is edited and reset. From an item's view a tool makes a *request* (`MakeRequest`), registers it, has a
validation *plan* built for it and registers that, compiles a *patch* from both, registers it, executes it on a
*copy* of the executable, and registers the copy. Requests, plans, patches and copies are values: `requests`, `plans`,
`compiled` and `copies` are what the callers hold, and between two calls anything else may happen. Each `Register...` is the whole
handler: what it refuses, the nodes and the edges it writes, the events it records. `Connect` is
`ProjectGraph::connect` for all the edges of a call; it takes only those whose two ends exist, as the callers ignore its result.

A session for an item may be opened `elsewhere`, for a stage or a menu, and then has no route to the Item Editor; `routed` are the items
that have it. Registering a request writes node and edges first and asks the session last, which refuses to record the event without that route: the
call then returns false and leaves the node behind, and the node refuses a second attempt. What keeps this from happening is far away, in the
making of requests (`MayRequest`): a view without the route rejects its own, and routes do not change. `JournalAccountsForNodes` depends on it.

`nodes` and `edges` are the graph, with nodes named as the code names them: kind and identifier. So `Id` has the
change, its value and the revision, and neither item nor artifact (`src/item/runtime_request.cpp:31`): two items
at one revision that ask for the same change have one node between them, and the second is refused. `asked`, `validated`, `patched` and
`executed` remember from which value a node was written; they stand for the attributes of the nodes. `journal` has
the events of each session. A plan is `ready` or blocked; `Ready` is the conjunction of its requirements. Of a record,
the model keeps the artifacts its locations name and whether its confidence is patch grade.

## 3. Runs

| Run | Instance | What it shows |
|---|---|---|
| `workspace` | 2 tools, bytes {0,1}, contents up to 2 bytes, 2 edit identifiers, 2 evidence records, formats like pac, hits and pe, journal of up to 5 entries, 1 of them the parser's; entries beside the working copy count twice, an open draft once | types; an up-to-date draft saw the bytes it changes; undo always fits; implements `UndoStack`; the journal replays to the history, its revisions connect and it tells what was found; a parser error is final |
| `stale_edit` (violation) | the same | an edit prepared before a reset is accepted after it |
| `integration_project` | 4 packages (two versions of one), at most 2 selected, 2 decision identifiers, 1 failed gate, 1 gate recorded early | types; the state is earned: gates stand behind it and dependencies checked are satisfied; the analysis misses no overlap; decisions and settled conflicts match; only a new analysis reopens |
| `temporary_backing` | 3 leases, unaligned base, requests 0, 1, 3, 4, 6 over 13 bytes at alignment 4 | types; leases nest; live spans are disjoint and owned; the cursor passes the end by less than an alignment and comes back to where it was |
| `backing_word` (violation) | a word of 16 values, request 13 | a rounded size truncated to zero |
| `callbacks` | 3 queues, pool of 3, 6 jobs, at most 3 pending, 3 levels of drains | types; every record in one place; every job called once, newest first; every drain ends |
| `callback_reentrant` (violation) | callbacks enqueue on the queue being drained | the record recycled is not the one processed |
| `pool_refill` (violation) | more jobs than records | an acquired record waits in a queue |
| `ptx_manager` | 3 keys, 2 entries, 3 records, limits of 2 and 4 cells, banks of one slot; bundles of one texture with a palette, of two textures the second longer, and of one with two levels and a shared palette | types; the pool is consistent: the map is exact and a record has one owner; held means loaded; only named steps lose records; implements `RefCountedCache` |
| `publication` | an acquisition and its retry with receipts, a good and a flawed overlay build, all to one output path, three suffixes | types; visible files are complete and validated; words are true: a receipt stands beside its output and reports are so; only faults leave staging; staging is its owner's; implements `WriteOnceStore` |
| `runtime_blocks` | words of 3 cells; an arena of 3 words and a tail of 2 cells, one of two blocks of twice the size, one whose map is not aligned, one too small; 6 nodes asking for 1 to 3 blocks, routed, with fallbacks that succeed and that fail; one release inside which others allocate | types; the search finds the first fit, but for the place named; map, counters and nodes agree; memory is owned; implements `BlockStore` |
| `project_workspace` | 2 items, 2 executables of the same bytes, 2 artifacts (one of these bytes), a record that locates both, a packet; 2 requests and 2 plans held, 1 edit, 1 reset, 1 link of evidence, to an executable | types; provenance is connected; graph and journals agree; a plan saw the requested bytes; held work stays good |

The records that `OnlyNamedStepsStrand` speaks of are real: the header of the materializer says that two of
its exits bypass the rollback, and the reset says it releases nothing. The property is the complete list,
and it says that no other failure, release or set-up adds to it.

Why the bounds are enough. Five journal entries allow enable, edit, edit, undo, undo and
enable, edit, edit, reset, edit, which with drafts composed at any point are all the shapes
in which a revision may repeat. Two selected packages are all an overlap or a
dependency can relate; which two, and in which order, is free. Three leases
make one that is neither outermost nor innermost. Three queues and
three levels give a drain in a drain in a drain, each on its own queue. Two entries for three keys fill the table, and a vacant entry may stand before or after
the one looked for; three records are exhausted in the middle of a texture, of a bundle and of a
set-up, and leave holes for the scan to skip; the limit of 2 refuses placements, that of 4
does not at first. `MaxHolds` is below `Word`, so counts do not wrap: in the program they
wrap after 2^32 acquisitions of one key. Four processes give two that
share a suffix, two that share only the destination, and one whose validator refuses;
the retry finds what the first one left wherever it died. In an arena of
three words and a tail there is a word to skip, one to enter and one to fall back into, and 11 cells with runs of 1, 2 and 3
leave every pattern of holes that these can; the place the search overlooks is reached. One nested release is a
callback that allocates what is being released; a release inside a release is left to the theorems, which hold for any nesting. One
edit and one reset let a revision stand for two contents; two requests that differ in the item, in the artifact or in the revision
compete for one identifier, with and without a route for the item; with the second executable analysed, a target becomes ambiguous after a plan was ready. The theorems of
section 5 lift most of these bounds.

`SYMMETRY` is used where the permuted values are interchangeable (tools with the same
routes, edit and decision identifiers, evidence records, leases, keys, nodes with one demand, items, executables, the acquisition and its retry) and never in a run with a
liveness property.

Deadlock is checked except in the callback runs and in `project_workspace`, where the bounds end every behaviour, and
in `publication`, where every process ends or dies.

Fairness is assumed in one place: `WF_vars(CallbackReturns)` in `DeferredCallbacks`, which says a
callback returns. Nothing obliges anyone to enqueue or drain. That is what the loop of
`drain_deferred_callbacks` relies on; a callback that never returns hangs the caller
in the program as well. `DrainsComplete` also needs the number of jobs to be
finite, which the bound `MaxJobs` says: callbacks that enqueue for ever keep a drain alive for ever.

## 4. Disagreements with the documents

- **Stale edits after a reset.** `docs/gdspaces/working-copy.md:47`: "stale operations cannot
  apply after another accepted edit". `reset` rewinds the revision to 0 (as line 46 says),
  and `apply` compares only revisions. Run `stale_edit`. What does hold, and is proved, is
  the same promise between two resets.
- **Truncated rounding.** The header of the temporary backing says each request is rounded
  up; within an alignment of 2^32 it is rounded to 0 and the next request gets the
  same span. Run `backing_word`. No arena of the documented set-up is that large.
- **The record recycled after a callback.** The document says the processed record
  goes to the free list; the code recycles whatever is at the head by then. The document mentions that
  the head is re-read and that reentrancy was not exercised. Run
  `callback_reentrant`: the callback enqueued from inside is dropped, and the processed record is lost.
- **The pool refills itself in place.** The document says 32 records are *allocated*; the
  code chains the one preallocated block again, records in use included. Run `pool_refill`.

## 5. Proofs

All theorems are for every value of the constants that the modules' assumptions allow.
`PROJECT.json` lists them.

**Working copy.** `UndoNeverRefused` is not inductive: it speaks of the last delta only. The
invariant `CopyInv` adds `HistoryLinked`, that the deltas chain the original through
`before` to the current bytes. The work is in the lemmas about `Slice`
and `Splice` (a splice contains its replacement where it was put; splicing back
restores the original), which are about sequences of any length. From the same
invariant, every step is a step of `UndoStack`.

**Session.** Each action of the session is an action of the working copy or leaves it
alone (`SessionImplementsWorkingCopy`), so the working copy's invariant is
inherited and not proved again. `CurrentDraftSawCurrentBytes` is then inductive with typing,
because within one lifetime revisions only grow. `UndoFitsInSessions` and `SessionImplementsUndoStack` state
the working copy's promises of sessions. `JournalReplaysHistory` is proved whole. `JournalConnects` has its first two parts: the
revisions of the journal connect and everything found is told. The crux is one lemma about an appended entry, and
that before the working copy is enabled nothing is composed and the revision is 0, which is what enabling records.
`JournalReplays` adds the third, that replaying the journal gives the identifiers and the history. `Replay` is a recursive
function, so what it computes would take an induction; instead the invariant `JournalRead` says that some
*reading* of the journal ends in the present identifiers, where a reading satisfies the recursion's equations at each position,
and every reading is `Replay`, because two readings that differed would differ at a least
position (`LeastElement`), where the equations make them equal. Each step extends the reading by one value.

**Integration project.** `StateIsEarned` (its parts are `GatesBehindState` and `CheckedMeansSatisfied`)
and typing are inductive together with `VerdictInv`: a dependency gate the analysis wrote
says whether the *present* selection is satisfied, and past DEPENDENCY_CHECKED it is, or
the caller vouched for it. `DecisionsSettleConflicts` and `OnlyReanalysisReopensConflicts` are
each inductive with typing. The arguments are a case for each action.
`AnalysisMissesNoOverlap` follows from `RegisterInv`: as long as the conflict gate is the analysis' word, the register is about
the packages selected *now*, and overlaps in it block. What carries it is that selecting, the only
change of the selection, forgets every gate, and that a resolution leaves `blocking` alone.

**Temporary backing.** Types hold for every word (`TypeCorrect`). The rest is proved under the assumption `NoTruncation` that the word is large enough for the
rounded requests; `backing_word` shows the assumption is needed. The invariant relates depths, snapshots and
spans: spans of depth d lie between the snapshot of depth d and that of depth d+1.

**Texture manager.** Two invariants, one on top of the other. `PoolInv` is about records: what
the pool, the map and the load in progress say of each other, and that entries, banks and the load own
disjoint sets of placed records; `PoolIsConsistent` (the map, and one owner per record) is part of it. That the
first free record is nobody's, and that the run found overlaps no span, carry the load;
that a payload's records are nobody else's carries every release. `CountInv` is about entries: one entry for a key,
a key being loaded has none, and, as long as no stray release happened, counts are holders. From it come `HeldMeansLoaded`
and, with a lemma that a vacant entry is room for one more key, that every step is one of
`RefCountedCache` or a stutter. `OnlyNamedStepsStrand` says that no other step than those it names leaves records in use that
nothing owns. Stranded records are those in use less those named; a step that gives back named records
only and comes to name records in use only if they were named strands none and finds none, and this is shown of each other step. Ending a load needs one
invariant more, `BetweenTextures`: when no texture is left to build, the load holds no record of one. All of it holds for any number of keys, entries, records and levels,
under the assumption that holders of a key are fewer than the word can count.

**Publication.** `IInv` says which inode belongs to which process (`Owned`, `Staged`), what each staging directory
is left from (`Accounted`), that a linked inode is complete and that its writer is
past the link (`Linked`), that a receipt is preceded by its output (`Ordered`), and
that the file that was there stays (`ForeignKept`). The crux is that opening with
`trunc` never meets a payload: a directory is entered only by its creator, which has put
nothing there yet; so an inode shared with a crashed process's directory is never written again.
The refinement follows.

**Runtime blocks.** The invariant `IInv` has a part for the search and one for what the search leaves. `BlockInv`: a
settled node that names an arena names a run inside it and the address of that run, releases in progress are of different nodes, and `OccupancyIsOwned`;
`CallInv` says of the node of the call that no release waits for it, and that it is vacant again whenever an attempt was refused.
`SearchInv` is the loop invariant of every phase, and `InGroups` its crux: either nothing fits before the cursor, and a
cursor that stands beyond the second cell of its word has a free cell two places before it; or the cursor has run one cell ahead of its word, nothing
fits before that word, and the word before is full. So a word that is skipped as full leaves at most one cell unseen, and
only where no word follows is that cell lost, which is `Overlooked`. Disjoint memory follows from disjoint runs and
arithmetic on block sizes (`Geometry`), and the refinement from `BlockInv`: no other step than `Bind` and `Release` changes an
owner, and they change those of one run.

**Deferred callbacks.** The properties are about walks along links, and a walk is computed by a recursive function, so the
invariant does without: `PoolInv` gives each record an *owner* (the pool, a queue) and a *rank*, such that the records of an owner have the ranks
from its length down, the owner's first is the one of the highest rank, and each is linked to the one below. `ListIsChain`
shows that the walk from a first record passes exactly its owner's records, and by it the invariant speaks of the chains the properties speak of.
What a step does to the lists is one lemma, `MoveFirst`: the first record of one list becomes the first of another. Acquiring,
processing and returning a record are moves of this form, and the invariant keeps with them that a drain's frame stands at its queue's
first record, that the link it saved before the call is still the link, and that a callback has been called at most once.
`CallersBehave` is assumed: no callback adds to the queue that is being drained, and no more is pending than the pool holds. Both are needed:
`callback_reentrant` and `pool_refill` show what becomes of the properties when one of them fails. `TypeCorrect` needs
neither, and `ProcessedIsRecycled` only the first.

**Project workspace.** The invariant `IInv` adds to the properties: what was never opened holds nothing and has no route (`Fresh`), and requests are of items with one (`Known`); what the registries hold the
graph shows (`Shown`), which is why no edge is lost; an event stands for a node and for one only (`Told`, `Recorded`); and without
a later reset a request's revision is at most that of the working copy, and less after an edit (`Aged`), which is why equal
revisions mean that nothing was edited. Most steps are dealt with by one lemma: registries and graph only grow
(`StepsGrow`), and connection and held work survive growth. Another (`JournalStep`) says that a step is silent or tells one proper event.

What is only model-checked: `DrainsComplete`, which is liveness under fairness (`ENABLED` is beyond
these provers), and the violations, which are counterexamples.

Constants are assumed as the code justifies: sizes are numbers, alignments positive, `None` is no value of
the type it marks, packages are of the package type.

## 6. What the models leave out

- Text: messages, titles, rationales; refusals that depend only on an argument being empty or malformed.
- Hashes: a content stands for its digest.
- In the session: what attached documents and contexts contain, the list of diagnostics (no operation decides by what was added to it after construction), the constructor's two journal entries, and sessions that are not `valid()`, which refuse nearly everything.
- Power failures: a crash is the death of a process. The code does not synchronise with the disk and does not promise to.
- In the texture manager: records as bytes, sizes beyond the represented memory (which the code refuses with exceptions of its own), the placement at an explicit index, which only the test bridges reach,
  and the address tag a destroyed manager keeps.
- A second arena of the temporary backing or a second initialisation of an arena; no caller has one.
- In the block allocator: cells other than 0 and 1, blocks of size zero, allocation before initialisation, and the zeroing of what is given out.
- In the project workspace: attributes of nodes; nodes and edges of tools, formats, events and requirements; stages, binary documents, parser results and manifests; modifications, integration projects and builds that are copied in; packets that contradict what is registered; requests without an evidence record, or for slots whose place in the executable is not confirmed (none of these gets as far as a patch); requests put together by hand instead of from a view: one that equals a made one behaves as that does, one for an item without the route to its editor is registered half-way as section 2 says; sessions without the route to the Build & Test Lab, and, for executables, without the one to their editor, which is as if nothing were ever attached to them.
- The bytes of guarded patches: a patch replaces the expected bytes, which are those of the digest it was compiled for.
- Draining a queue from its own callback, which would call the running callback again without end.
- Commands that do other things than publish, and the parsers.

## 7. Not modelled, and what could follow

Most of the repository's lines decode, encode or print: `src/formats`, `src/codecs`, the readers and writers of archives, the manifests, the analyses of
executables, the commands. They are functions of their input, their difficulty is in the bytes, and the
repository tests them against its corpus; a model of them would repeat them line by line. The registries
beside them (formats, tools, evidence, sources) are one guard and one insertion each.

What has an order and is not modelled:

- **Custom builds and projects in the workspace.** Registration compares the values given with the copies registered and inserts. A property
  over it restates the comparisons; what the original does after the copy is `IntegrationProject`.
- **The repacker.** The publication it ends in is modelled; its copy is byte layout. A source that changes under it is a hazard that no
  property covers: it would need the repacker's binding as a component of its own.
- **Guarded patches as bytes.** All-or-nothing application to a private copy, with a rollback that restores the source, is a function
  of the bytes; the workspace relies on it only through the digests.
- **Volumes and providers.** A gap in the volume numbers ends discovery, the first provider in order wins: a function of what is found.

Proofs that could follow: that no lease of the temporary backing is forgotten; for `DrainsComplete`, that every step of a drain
brings it nearer its end; and `RefCountedCache` with the number of free records as part of the promise.
