------------------------- MODULE ProjectWorkspace -------------------------
(***************************************************************************)
(* integration::ProjectWorkspace along the way a change of the game's      *)
(* rules takes: evidence and artifacts are imported, sessions opened, an   *)
(* item is edited, the Item Editor turns the edit into a runtime change    *)
(* request, the Build & Test Lab into a validation plan, the EXE Editor    *)
(* compiles a guarded patch from both, and the patch is executed on a copy *)
(* of the executable.                                                      *)
(*                                                                         *)
(* Requests, plans, compiled patches and executed copies are values that   *)
(* the callers hold between two calls; nothing in the workspace knows of   *)
(* them until they are registered.  What they are derived from can change  *)
(* meanwhile.  Registering writes a node of the project graph, edges to    *)
(* the nodes it derives from, and an event in the journal of a session.    *)
(* ProjectGraph::connect refuses an edge one of whose ends is missing, and *)
(* every caller drops that result.                                         *)
(*                                                                         *)
(* Nodes carry their kind in their identifier, so upsert never meets a     *)
(* node of another kind; nodes and edges are never removed.  Every session *)
(* has the route to the Build & Test Lab.  The one to the editor of its    *)
(* format is missing when a stage or a menu it was opened for sent it to   *)
(* another tool: an item then asks for no change, and an executable is not *)
(* attached, which is as well told by attaching it never.  Items are       *)
(* opened with the evidence context.                                       *)
(***************************************************************************)
EXTENDS Integers, Sequences, FiniteSets

CONSTANTS
  Item, Executable,        \* resource identifiers, by the format of the resource
  Artifact, Record, Packet,\* identifiers of the evidence data
  Sha,                     \* digests
  ArtifactSha,             \* digest each artifact names
  PayloadSha,              \* digest of the bytes of each executable resource
  Locates,                 \* artifacts the locations of each record name
  Graded,                  \* records of patch-grade confidence, fully located
  PacketArtifacts, PacketRecords,
  Change,                  \* kind and value of a runtime change whose place is confirmed
  Replacement,             \* replacement bytes, never the source bytes
  MaxRequests, MaxPlans,   \* bounds: what the callers hold at a time,
  MaxEdits, MaxResets,     \* and how often the items are edited and reset
  MaxLinks, Linkable       \* and evidence is linked, and to which sessions

Resource == Item \union Executable

ASSUME ResourceAssumption == Item \intersect Executable = {}
ASSUME EvidenceAssumption ==
  /\ ArtifactSha \in [Artifact -> Sha]
  /\ PayloadSha \in [Executable -> Sha]
  /\ Locates \in [Record -> SUBSET Artifact]
  /\ Graded \subseteq Record
ASSUME PacketAssumption ==
  /\ PacketArtifacts \in [Packet -> SUBSET Artifact]
  /\ PacketRecords \in [Packet -> SUBSET Record]
  /\ \A p \in Packet : \A r \in PacketRecords[p] : Locates[r] \subseteq PacketArtifacts[p]

VARIABLES
  artifacts, records, packets,   \* artifacts_, evidence_, packets_
  sessions,                      \* keys of sessions_
  routed,                        \* items whose session has a route to the Item Editor
  linked,                        \* evidence_record_ids_ of each session
  attached,                      \* sessions whose executable_context_ is set
  working,                       \* revision of each item's working copy
  journal,                       \* events_ of each session
  nodes, edges,                  \* graph_
  asked, validated, patched,     \* what the request, plan and patch nodes of the
                                 \* graph were written from
  executed,                      \* ... and the execution and rollback nodes
  requests, plans, compiled, copies  \* what the callers hold

evidenceVars == <<artifacts, records, packets>>
sessionVars == <<sessions, routed, linked, attached, working, journal>>
graphVars == <<nodes, edges>>
registered == <<asked, validated, patched, executed>>
held == <<requests, plans, compiled, copies>>
vars == <<evidenceVars, sessionVars, graphVars, registered, held>>

NoCopy == -1

Request == [item: Item, revision: Nat, change: Change, artifact: Artifact, record: Record]
Plan == [request: Request, ready: BOOLEAN]
Compiled == [request: Request, executable: Executable, replacement: Replacement]

\* The identifiers callers derive: neither the item nor the artifact is part of them.
Id(q) == <<q.change, q.revision>>
PatchId(c) == <<c.request.change, c.request.revision, c.request.record>>

ResourceNode(s) == <<"resource", s>>
ArtifactNode(a) == <<"artifact", a>>
RecordNode(r) == <<"evidence", r>>
PacketNode(p) == <<"evidence-packet", p>>
AnalysisNode(x) == <<"executable-analysis", x>>
RequestNode(q) == <<"runtime-request", Id(q)>>
PlanNode(q) == <<"validation-plan", Id(q)>>
PatchNode(c) == <<"patch-plan", PatchId(c)>>
ExecutionNode(c) == <<"patch-execution", PatchId(c)>>
RollbackNode(c) == <<"rollback-plan", PatchId(c)>>

Event ==
  [type: {"edit_applied", "working_copy_reset", "runtime_change_requested",
          "validation_requested", "validation_plan_created",
          "patch_plan_compiled", "patch_copy_executed"},
   subject: {<<>>} \union (Change \X Nat) \union (Change \X Nat \X Record),
   revision: Nat]

Init ==
  /\ artifacts = {} /\ records = {} /\ packets = {}
  /\ sessions = {} /\ routed = {}
  /\ linked = [s \in Resource |-> {}]
  /\ attached = {}
  /\ working = [i \in Item |-> NoCopy]
  /\ journal = [s \in Resource |-> <<>>]
  /\ nodes = {} /\ edges = {}
  /\ asked = {} /\ validated = {} /\ patched = {} /\ executed = {}
  /\ requests = {} /\ plans = {} /\ compiled = {} /\ copies = {}

-----------------------------------------------------------------------------

\* ProjectGraph::connect for every candidate, its results dropped.
Connect(candidates) ==
  edges' = edges \union {e \in candidates : e[1] \in nodes' /\ e[2] \in nodes'}

\* ingest_workspace: what a synchronised session shows beside its journal.
SessionNodes(s, l) == {ResourceNode(s)} \union {RecordNode(r) : r \in l}
SessionEdges(s, l) == {<<RecordNode(r), ResourceNode(s), "evidence_for">> : r \in l}

Revision(s) == IF s \in Item /\ working[s] # NoCopy THEN working[s] ELSE 0

\* WorkspaceEventLog::record.
Log(s, entry) == journal' = [journal EXCEPT ![s] = Append(@, entry)]

LogBoth(s, entry, next) ==
  journal' = [journal EXCEPT ![s] = Append(Append(@, entry), next)]

Entry(type, subject, rev) == [type |-> type, subject |-> subject, revision |-> rev]

-----------------------------------------------------------------------------

AddEvidence(r) ==
  /\ r \notin records
  /\ records' = records \union {r}
  /\ nodes' = nodes \union {RecordNode(r)}
  /\ UNCHANGED <<artifacts, packets, sessionVars, edges, registered, held>>

\* Mutant of PacketNodes: the artifacts are registered and not shown.
PacketNodesWithoutArtifacts(p) ==
  {PacketNode(p)} \union {RecordNode(r) : r \in PacketRecords[p]}

PacketNodes(p) ==
  {PacketNode(p)} \union {ArtifactNode(a) : a \in PacketArtifacts[p]}
    \union {RecordNode(r) : r \in PacketRecords[p]}

LocationEdges(r) ==
  {<<RecordNode(r), ArtifactNode(a), "references_artifact">> : a \in Locates[r]}

PacketEdges(p) ==
  {<<PacketNode(p), ArtifactNode(a), "declares">> : a \in PacketArtifacts[p]}
    \union {<<PacketNode(p), RecordNode(r), "declares">> : r \in PacketRecords[p]}
    \union UNION {LocationEdges(r) : r \in PacketRecords[p]}

\* Identifiers stand for what they identify, so a packet never disagrees with
\* what is already registered.
ImportPacket(p) ==
  /\ p \notin packets
  /\ packets' = packets \union {p}
  /\ artifacts' = artifacts \union PacketArtifacts[p]
  /\ records' = records \union PacketRecords[p]
  /\ nodes' = nodes \union PacketNodes(p)
  /\ Connect(PacketEdges(p))
  /\ UNCHANGED <<sessionVars, registered, held>>

\* Mutant of MayCreate: a session is replaced by a fresh one.
MayCreateAgain(s) == s \in Resource

MayCreate(s) == s \notin sessions

\* elsewhere: the stage or menu the item is opened for sends it to another tool.
CreateSession(s, elsewhere) ==
  /\ MayCreate(s)
  /\ elsewhere => s \in Item
  /\ sessions' = sessions \union {s}
  /\ routed' = IF s \in Item /\ ~elsewhere THEN routed \union {s} ELSE routed \ {s}
  /\ linked' = [linked EXCEPT ![s] = {}]
  /\ attached' = attached \ {s}
  /\ working' = [i \in Item |-> IF i = s THEN NoCopy ELSE working[i]]
  /\ journal' = [journal EXCEPT ![s] = <<>>]
  /\ nodes' = nodes \union SessionNodes(s, {})
  /\ UNCHANGED <<evidenceVars, edges, registered, held>>

LinksMade == UNION {{<<s, r>> : r \in linked[s]} : s \in Resource}

LinkEvidence(s, r) ==
  /\ s \in sessions \intersect Linkable /\ r \in records
  /\ r \notin linked[s] /\ Cardinality(LinksMade) < MaxLinks
  /\ linked' = [linked EXCEPT ![s] = @ \union {r}]
  /\ nodes' = nodes \union SessionNodes(s, linked'[s])
  /\ Connect(SessionEdges(s, linked'[s]))
  /\ UNCHANGED <<evidenceVars, sessions, routed, attached, working, journal, registered, held>>

EnableWorkingCopy(i) ==
  /\ i \in sessions
  /\ working[i] = NoCopy
  /\ working' = [working EXCEPT ![i] = 0]
  /\ UNCHANGED <<evidenceVars, sessions, routed, linked, attached, journal, graphVars, registered, held>>

\* Where an event of that type stands in the journal of s.
Places(s, type) == {k \in 1 .. Len(journal[s]) : journal[s][k].type = type}

Made(type) == Cardinality(UNION {{<<i, k>> : k \in Places(i, type)} : i \in Item})

\* An edit applied and an edit undone: both are accepted steps of WorkingCopy.
ChangeItem(i) ==
  /\ i \in sessions
  /\ working[i] # NoCopy /\ Made("edit_applied") < MaxEdits
  /\ working' = [working EXCEPT ![i] = @ + 1]
  /\ Log(i, Entry("edit_applied", <<>>, working[i] + 1))
  /\ UNCHANGED <<evidenceVars, sessions, routed, linked, attached, graphVars, registered, held>>

\* Mutant of AfterReset: the revision is counted back.
CountedBack(i) == working[i] - 2

AfterReset(i) == 0

ResetItem(i) ==
  /\ i \in sessions
  /\ working[i] # NoCopy /\ Made("working_copy_reset") < MaxResets
  /\ working' = [working EXCEPT ![i] = AfterReset(i)]
  /\ Log(i, Entry("working_copy_reset", <<>>, AfterReset(i)))
  /\ UNCHANGED <<evidenceVars, sessions, routed, linked, attached, graphVars, registered, held>>

SameBytes(x) == {a \in artifacts : ArtifactSha[a] = PayloadSha[x]}

\* analyze_pe computes the digest of the context from the bytes of the session.
AttachExecutable(x) ==
  /\ x \in sessions /\ x \notin attached
  /\ attached' = attached \union {x}
  /\ nodes' = nodes \union {AnalysisNode(x)}
  /\ Connect({<<AnalysisNode(x), ResourceNode(x), "derived_from">>}
             \union {<<AnalysisNode(x), ArtifactNode(a), "references_artifact">> :
                       a \in SameBytes(x)})
  /\ UNCHANGED <<evidenceVars, sessions, routed, linked, working, journal, registered, held>>

-----------------------------------------------------------------------------

\* executable_sessions_for_artifact
SessionsFor(a) ==
  IF a \in artifacts THEN {x \in attached : PayloadSha[x] = ArtifactSha[a]} ELSE {}

\* resolve_executable_evidence: the locations of r inside x, none on a diagnostic.
Resolved(x, r) ==
  IF x \in attached /\ r \in records /\ Locates[r] \subseteq artifacts
    THEN Locates[r] \intersect SameBytes(x)
    ELSE {}

\* Mutant of MayRequest: the view's routes are not looked at.
MayRequestAnywhere(q) == q.item \in sessions /\ q.record \in records

MayRequest(q) == q.item \in routed /\ q.record \in records

\* make_slot_registration_request, make_inventory_limit_request: a request the
\* item's view does not reject, made from the view as it is.
MakeRequest(q) ==
  /\ MayRequest(q)
  /\ q.revision = Revision(q.item)
  /\ q \notin requests /\ Cardinality(requests) < MaxRequests
  /\ requests' = requests \union {q}
  /\ UNCHANGED <<evidenceVars, sessionVars, graphVars, registered, plans, compiled, copies>>

RequestEdges(q) ==
  {<<RequestNode(q), ResourceNode(q.item), "derived_from">>,
   <<RequestNode(q), ArtifactNode(q.artifact), "requests_change">>,
   <<RequestNode(q), RecordNode(q.record), "evidence_for">>}

MayRegisterRequest(q) ==
  /\ RequestNode(q) \notin nodes
  /\ q.item \in sessions /\ q.artifact \in artifacts
  /\ working[q.item] = q.revision
  /\ q.record \in records /\ q.artifact \in Locates[q.record]

\* The node and its edges are written before the session is asked to record
\* the event, which it refuses without a route to the Item Editor: the call
\* fails then and leaves them behind.
RegisterRequest(q) ==
  /\ q \in requests
  /\ MayRegisterRequest(q)
  /\ asked' = asked \union {q}
  /\ nodes' = nodes \union {RequestNode(q)}
  /\ Connect(RequestEdges(q))
  /\ IF q.item \in routed
       THEN LogBoth(q.item, Entry("runtime_change_requested", Id(q), q.revision),
                            Entry("validation_requested", Id(q), q.revision))
       ELSE UNCHANGED journal
  /\ UNCHANGED <<evidenceVars, sessions, routed, linked, attached, working,
                 validated, patched, executed, held>>

-----------------------------------------------------------------------------

\* build_item_runtime_plan: no requirement blocked, no blocker added.
Ready(q) ==
  /\ q.record \in Graded
  /\ RequestNode(q) \in nodes
  /\ q.item \in sessions /\ working[q.item] = q.revision
  /\ q.artifact \in artifacts
  /\ \E x \in Executable : SessionsFor(q.artifact) = {x} /\ Resolved(x, q.record) # {}

BuildPlan(q) ==
  /\ q \in requests
  /\ [request |-> q, ready |-> Ready(q)] \notin plans /\ Cardinality(plans) < MaxPlans
  /\ plans' = plans \union {[request |-> q, ready |-> Ready(q)]}
  /\ UNCHANGED <<evidenceVars, sessionVars, graphVars, registered, requests, compiled, copies>>

\* The only comparison of a plan with a request: identifier and item.
PlanFor(p, q) == Id(p.request) = Id(q) /\ p.request.item = q.item

PlanOrigins(q) ==
  {<<PlanNode(q), RequestNode(q), "derived_from">>,
   <<PlanNode(q), ResourceNode(q.item), "validates">>,
   <<PlanNode(q), ArtifactNode(q.artifact), "validates">>,
   <<PlanNode(q), RecordNode(q.record), "evidence_for">>}

PlanEdges(q) ==
  PlanOrigins(q)
    \union {<<PlanNode(q), ResourceNode(x), "validates">> : x \in SessionsFor(q.artifact)}

\* Mutant of Current: the revision is not looked at again.
StillOpen(q) == q.item \in sessions

Current(q) == q.item \in sessions /\ working[q.item] = q.revision

RegisterPlan(p, q) ==
  /\ p \in plans /\ q \in requests /\ PlanFor(p, q)
  /\ PlanNode(q) \notin nodes /\ RequestNode(q) \in nodes
  /\ q.artifact \in artifacts /\ Current(q)
  /\ p.request.record \in records
  /\ validated' = validated \union {[request |-> q, ready |-> p.ready]}
  /\ nodes' = nodes \union {PlanNode(q)}
  /\ Connect(PlanEdges(q))
  /\ Log(q.item, Entry("validation_plan_created", Id(q), Revision(q.item)))
  /\ UNCHANGED <<evidenceVars, sessions, routed, linked, attached, working,
                 asked, patched, executed, held>>

-----------------------------------------------------------------------------

\* ItemRuntimePatchCompiler::compile: the working copy is not looked at.
Compile(q, p, x, b) ==
  /\ q \in requests /\ q.record \in Graded
  /\ p \in plans /\ p.ready /\ PlanFor(p, q)
  /\ RequestNode(q) \in nodes /\ PlanNode(q) \in nodes
  /\ SessionsFor(q.artifact) = {x}
  /\ Cardinality(Resolved(x, q.record)) = 1
  /\ compiled' = compiled \union {[request |-> q, executable |-> x, replacement |-> b]}
  /\ UNCHANGED <<evidenceVars, sessionVars, graphVars, registered, requests, plans, copies>>

SourceIs(x, a) ==
  /\ x \in sessions /\ x \in attached
  /\ a \in artifacts
  /\ PayloadSha[x] = ArtifactSha[a]

PatchEdges(c) ==
  {<<PatchNode(c), PlanNode(c.request), "compiled_from">>,
   <<PatchNode(c), RequestNode(c.request), "derived_from">>,
   <<PatchNode(c), ResourceNode(c.request.item), "derived_from">>,
   <<PatchNode(c), ResourceNode(c.executable), "targets">>,
   <<PatchNode(c), ArtifactNode(c.request.artifact), "requests_change">>,
   <<PatchNode(c), RecordNode(c.request.record), "evidence_for">>}

MayRegisterPatch(c) ==
  /\ RequestNode(c.request) \in nodes /\ PlanNode(c.request) \in nodes
  /\ c.request.item \in sessions
  /\ SourceIs(c.executable, c.request.artifact)
  /\ c.request.record \in records

RegisterPatch(c) ==
  /\ c \in compiled
  /\ PatchNode(c) \notin nodes
  /\ MayRegisterPatch(c)
  /\ patched' = patched \union {c}
  /\ nodes' = nodes \union {PatchNode(c)}
  /\ Connect(PatchEdges(c))
  /\ Log(c.request.item,
         Entry("patch_plan_compiled", PatchId(c), Revision(c.request.item)))
  /\ UNCHANGED <<evidenceVars, sessions, routed, linked, attached, working,
                 asked, validated, executed, held>>

MayExecute(c) == PatchNode(c) \in nodes /\ SourceIs(c.executable, c.request.artifact)

\* PatchCopyExecutor::execute: the source bytes have the digest of the context,
\* so the guarded patch applies to the copy and its rollback restores them.
Execute(c) ==
  /\ c \in compiled \ copies
  /\ MayExecute(c)
  /\ copies' = copies \union {c}
  /\ UNCHANGED <<evidenceVars, sessionVars, graphVars, registered, requests, plans, compiled>>

CopyEdges(c) ==
  {<<ExecutionNode(c), PatchNode(c), "executed_from">>,
   <<ExecutionNode(c), ResourceNode(c.executable), "targets">>,
   <<ExecutionNode(c), ArtifactNode(c.request.artifact), "references_artifact">>,
   <<ExecutionNode(c), RollbackNode(c), "produces">>,
   <<RollbackNode(c), ExecutionNode(c), "rollback_for">>}

RegisterCopy(c) ==
  /\ c \in copies
  /\ ExecutionNode(c) \notin nodes /\ RollbackNode(c) \notin nodes
  /\ MayExecute(c)
  /\ executed' = executed \union {c}
  /\ nodes' = nodes \union {ExecutionNode(c), RollbackNode(c)}
  /\ Connect(CopyEdges(c))
  /\ Log(c.executable, Entry("patch_copy_executed", PatchId(c), 0))
  /\ UNCHANGED <<evidenceVars, sessions, routed, linked, attached, working,
                 asked, validated, patched, held>>

-----------------------------------------------------------------------------

Next ==
  \/ \E r \in Record : AddEvidence(r)
  \/ \E p \in Packet : ImportPacket(p)
  \/ \E s \in Resource, elsewhere \in BOOLEAN : CreateSession(s, elsewhere)
  \/ \E s \in Resource, r \in Record : LinkEvidence(s, r)
  \/ \E i \in Item : EnableWorkingCopy(i) \/ ChangeItem(i) \/ ResetItem(i)
  \/ \E x \in Executable : AttachExecutable(x)
  \/ \E i \in Item, c \in Change, a \in Artifact, r \in Record :
       MakeRequest([item |-> i, revision |-> Revision(i), change |-> c,
                    artifact |-> a, record |-> r])
  \/ \E q \in requests : RegisterRequest(q) \/ BuildPlan(q)
  \/ \E p \in plans, q \in requests :
       \/ RegisterPlan(p, q)
       \/ \E x \in Executable, b \in Replacement : Compile(q, p, x, b)
  \/ \E c \in compiled : RegisterPatch(c) \/ Execute(c) \/ RegisterCopy(c)

Spec == Init /\ [][Next]_vars

-----------------------------------------------------------------------------

TypeOK ==
  /\ artifacts \subseteq Artifact /\ records \subseteq Record /\ packets \subseteq Packet
  /\ sessions \subseteq Resource /\ routed \subseteq Item /\ attached \subseteq Executable
  /\ linked \in [Resource -> SUBSET Record]
  /\ working \in [Item -> Nat \union {NoCopy}]
  /\ journal \in [Resource -> Seq(Event)]
  /\ requests \subseteq Request /\ asked \subseteq requests
  /\ plans \subseteq Plan /\ validated \subseteq Plan
  /\ compiled \subseteq Compiled /\ patched \subseteq compiled
  /\ copies \subseteq compiled /\ executed \subseteq copies

(***************************************************************************)
(* Every node on the way from a request to an executed copy hangs together *)
(* with all it was derived from, back to the evidence, the artifact and    *)
(* the sessions: although registration drops what connect returns, no edge *)
(* is ever lost for want of a node (project_workspace_item.cpp,            *)
(* project_workspace_validation.cpp, _patch.cpp, _execution.cpp).          *)
(***************************************************************************)
ProvenanceIsConnected ==
  /\ \A q \in asked : RequestEdges(q) \subseteq edges
  /\ \A p \in validated : PlanOrigins(p.request) \subseteq edges
  /\ \A c \in patched : PatchEdges(c) \subseteq edges
  /\ \A c \in executed : CopyEdges(c) \subseteq edges

\* The places of the events of that type about that subject.
About(s, type, subject) == {k \in Places(s, type) : journal[s][k].subject = subject}

Once(s, type, subject) == \E k \in Places(s, type) : About(s, type, subject) = {k}

Never(s, type, subject) == About(s, type, subject) = {}

(***************************************************************************)
(* What the graph shows, the journals tell once: each registered node has  *)
(* exactly one event, in the journal of the session it was registered for, *)
(* and a journal tells of no request or plan the graph does not have.  A   *)
(* registration that fails half-way would leave a node without its event   *)
(* (project_workspace_item.cpp:100-165): no request a view makes meets it. *)
(***************************************************************************)
JournalAccountsForNodes ==
  /\ \A q \in asked : Once(q.item, "runtime_change_requested", Id(q))
  /\ \A p \in validated : Once(p.request.item, "validation_plan_created", Id(p.request))
  /\ \A c \in patched : Once(c.request.item, "patch_plan_compiled", PatchId(c))
  /\ \A c \in executed : Once(c.executable, "patch_copy_executed", PatchId(c))
  /\ \A q \in requests, i \in Item :
       /\ RequestNode(q) \notin nodes => Never(i, "runtime_change_requested", Id(q))
       /\ PlanNode(q) \notin nodes => Never(i, "validation_plan_created", Id(q))

(***************************************************************************)
(* The revision stands for the bytes: when a request and its validation    *)
(* plan are in one journal, the item was not changed in between, unless it *)
(* was reset, after which the revisions are given out once more            *)
(* (project_workspace_validation.cpp:54 compares revision numbers only).   *)
(***************************************************************************)
PlanSeesTheRequestedBytes ==
  \A p \in validated :
    LET i == p.request.item
        from == About(i, "runtime_change_requested", Id(p.request))
        to == About(i, "validation_plan_created", Id(p.request))
    IN  \A k \in from, n \in to :
          /\ k < n
          /\ \A m \in Places(i, "edit_applied") :
               k < m /\ m < n => \E z \in Places(i, "working_copy_reset") : k < z /\ z < n

(***************************************************************************)
(* What a caller holds does not go stale: a compiled patch can still be    *)
(* registered, and executed once it is, and an executed copy can still be  *)
(* registered, whatever was imported, opened, edited or reset since; only  *)
(* a node of the same name stands in the way.                              *)
(***************************************************************************)
HeldWorkStaysGood ==
  /\ \A c \in compiled : MayRegisterPatch(c)
  /\ \A c \in copies : MayExecute(c) /\ (ExecutionNode(c) \in nodes <=> RollbackNode(c) \in nodes)
=============================================================================
