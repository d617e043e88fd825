---------------------- MODULE ProjectWorkspaceProofs ----------------------
(***************************************************************************)
(* The invariants of ProjectWorkspace, for any sets of resources, evidence *)
(* and changes, and any bounds.  The inductive invariant adds three parts  *)
(* to what the run checks: what the registries hold the graph shows        *)
(* (Shown), an event of the journals stands for a node of the graph and no *)
(* two events of a type have the same subject (Told), and as long as no    *)
(* reset came after it the revision of a request event is at most the      *)
(* revision of the item, and less once the item was changed (Aged).        *)
(***************************************************************************)
EXTENDS ProjectWorkspace, TLAPS

(***************************************************************************)
(* A session that is not open holds nothing.                               *)
(***************************************************************************)
Fresh ==
  \A s \in Resource \ sessions :
    /\ linked[s] = {} /\ journal[s] = <<>> /\ s \notin attached
    /\ s \notin routed
    /\ s \in Item => working[s] = NoCopy

Known(q) == q.item \in sessions /\ q.item \in routed /\ q.record \in records

Shown ==
  /\ \A a \in artifacts : ArtifactNode(a) \in nodes
  /\ \A r \in records : RecordNode(r) \in nodes
  /\ \A s \in sessions : ResourceNode(s) \in nodes
  /\ \A q \in requests : Known(q)
  /\ \A p \in plans : Known(p.request)
  /\ \A q \in asked : RequestNode(q) \in nodes
  /\ \A p \in validated : /\ Known(p.request)
                          /\ PlanNode(p.request) \in nodes /\ RequestNode(p.request) \in nodes
  /\ \A c \in patched : PatchNode(c) \in nodes
  /\ \A c \in executed : ExecutionNode(c) \in nodes /\ RollbackNode(c) \in nodes

\* The kind of node each type of event tells of.
Tells(type) ==
  IF type = "runtime_change_requested" THEN "runtime-request"
  ELSE IF type = "validation_plan_created" THEN "validation-plan"
  ELSE IF type = "patch_plan_compiled" THEN "patch-plan" ELSE "patch-execution"

Telling ==
  {"runtime_change_requested", "validation_plan_created",
   "patch_plan_compiled", "patch_copy_executed"}

Told ==
  /\ \A s \in Resource : \A k \in 1 .. Len(journal[s]) :
       LET e == journal[s][k]
       IN  /\ e.type \in Telling => <<Tells(e.type), e.subject>> \in nodes
           /\ e.type = "validation_plan_created" => <<"runtime-request", e.subject>> \in nodes
  /\ \A s \in Resource : \A k, n \in 1 .. Len(journal[s]) :
       /\ journal[s][k].type \in Telling
       /\ journal[s][n].type = journal[s][k].type
       /\ journal[s][n].subject = journal[s][k].subject
       => n = k

Tale(s, type, subject) ==
  \E k \in 1 .. Len(journal[s]) :
    journal[s][k].type = type /\ journal[s][k].subject = subject

Recorded ==
  /\ \A q \in asked : Tale(q.item, "runtime_change_requested", Id(q))
  /\ \A p \in validated : Tale(p.request.item, "validation_plan_created", Id(p.request))
  /\ \A c \in patched : Tale(c.request.item, "patch_plan_compiled", PatchId(c))
  /\ \A c \in executed : Tale(c.executable, "patch_copy_executed", PatchId(c))

\* An event of that type stands between places k and n of the journal j.
Between(j, type, k, n) == \E m \in 1 .. Len(j) : k < m /\ m < n /\ j[m].type = type

Aged ==
  \A i \in Item : \A k \in 1 .. Len(journal[i]) :
    journal[i][k].type = "runtime_change_requested" =>
      /\ journal[i][k].revision = journal[i][k].subject[2]
      /\ ~ Between(journal[i], "working_copy_reset", k, Len(journal[i]) + 1) =>
           /\ journal[i][k].revision <= working[i]
           /\ Between(journal[i], "edit_applied", k, Len(journal[i]) + 1) =>
                journal[i][k].revision < working[i]

Ordered ==
  \A i \in Item : \A k, n \in 1 .. Len(journal[i]) :
    /\ journal[i][k].type = "runtime_change_requested"
    /\ journal[i][n].type = "validation_plan_created"
    /\ journal[i][n].subject = journal[i][k].subject
    => /\ k < n
       /\ Between(journal[i], "edit_applied", k, n) => Between(journal[i], "working_copy_reset", k, n)

\* Execution and rollback nodes come in pairs.
Paired ==
  \A z : <<"patch-execution", z>> \in nodes <=> <<"rollback-plan", z>> \in nodes

State == TypeOK /\ Fresh /\ Shown /\ Paired /\ HeldWorkStaysGood

IInv == State /\ ProvenanceIsConnected /\ Told /\ Recorded /\ Aged /\ Ordered

-----------------------------------------------------------------------------

(***************************************************************************)
(* Opening a session changes only the set of sessions and the graph.       *)
(***************************************************************************)
LEMMA OpeningIsFresh ==
  ASSUME TypeOK, Fresh, NEW s \in Resource, NEW elsewhere \in BOOLEAN, CreateSession(s, elsewhere)
  PROVE  UNCHANGED <<linked, attached, working, journal>>
<1>1. linked' = linked /\ journal' = journal
  BY DEF CreateSession, MayCreate, Fresh, TypeOK
<1>2. attached' = attached
  BY DEF CreateSession, MayCreate, Fresh
<1>3. working' = working
  BY DEF CreateSession, MayCreate, Fresh, TypeOK
<1> QED  BY <1>1, <1>2, <1>3

LEMMA RevisionIsNat ==
  ASSUME TypeOK, NEW s \in Resource
  PROVE  Revision(s) \in Nat
BY DEF Revision, TypeOK, NoCopy

(***************************************************************************)
(* What only grows in a step.                                              *)
(***************************************************************************)
Grows ==
  /\ artifacts \subseteq artifacts' /\ records \subseteq records'
  /\ sessions \subseteq sessions' /\ routed \subseteq routed' /\ attached \subseteq attached'
  /\ nodes \subseteq nodes' /\ edges \subseteq edges'
  /\ requests \subseteq requests'

LEMMA StepsGrow ==
  ASSUME TypeOK, Fresh, [Next]_vars
  PROVE  Grows
<1> USE DEF Grows, vars, evidenceVars, sessionVars, graphVars, registered, held
<1>1. ASSUME NEW r \in Record, AddEvidence(r)  PROVE Grows
  BY <1>1 DEF AddEvidence
<1>2. ASSUME NEW p \in Packet, ImportPacket(p)  PROVE Grows
  BY <1>2 DEF ImportPacket, Connect
<1>3. ASSUME NEW s \in Resource, NEW elsewhere \in BOOLEAN, CreateSession(s, elsewhere)
      PROVE  Grows
  <2>1. s \notin routed
    BY <1>3 DEF CreateSession, MayCreate, Fresh
  <2> QED  BY <1>3, <2>1, OpeningIsFresh DEF CreateSession
<1>4. ASSUME NEW s \in Resource, NEW r \in Record, LinkEvidence(s, r)  PROVE Grows
  BY <1>4 DEF LinkEvidence, Connect
<1>5. ASSUME NEW i \in Item, EnableWorkingCopy(i) \/ ChangeItem(i) \/ ResetItem(i)
      PROVE  Grows
  BY <1>5 DEF EnableWorkingCopy, ChangeItem, ResetItem
<1>6. ASSUME NEW x \in Executable, AttachExecutable(x)  PROVE Grows
  BY <1>6 DEF AttachExecutable, Connect
<1>7. ASSUME NEW q, MakeRequest(q)  PROVE Grows
  BY <1>7 DEF MakeRequest
<1>8. ASSUME NEW q \in requests, RegisterRequest(q) \/ BuildPlan(q)  PROVE Grows
  BY <1>8 DEF RegisterRequest, BuildPlan, Connect
<1>9. ASSUME NEW p \in plans, NEW q \in requests,
             RegisterPlan(p, q)
               \/ \E x \in Executable, b \in Replacement : Compile(q, p, x, b)
      PROVE  Grows
  BY <1>9 DEF RegisterPlan, Compile, Connect
<1>10. ASSUME NEW c \in compiled, RegisterPatch(c) \/ Execute(c) \/ RegisterCopy(c)
       PROVE  Grows
  BY <1>10 DEF RegisterPatch, Execute, RegisterCopy, Connect
<1>11. CASE UNCHANGED vars
  BY <1>11
<1> QED  BY <1>1, <1>2, <1>3, <1>4, <1>5, <1>6, <1>7, <1>8, <1>9, <1>10, <1>11 DEF Next

-----------------------------------------------------------------------------

LEMMA TypeStep ==
  ASSUME State, [Next]_vars
  PROVE  TypeOK'
<1> USE DEF State, TypeOK, vars, evidenceVars, sessionVars, graphVars, registered, held
<1>1. ASSUME NEW r \in Record, AddEvidence(r)  PROVE TypeOK'
  BY <1>1 DEF AddEvidence
<1>2. ASSUME NEW p \in Packet, ImportPacket(p)  PROVE TypeOK'
  BY <1>2, PacketAssumption DEF ImportPacket
<1>3. ASSUME NEW s \in Resource, NEW elsewhere \in BOOLEAN, CreateSession(s, elsewhere)
      PROVE  TypeOK'
  BY <1>3, OpeningIsFresh DEF CreateSession
<1>4. ASSUME NEW s \in Resource, NEW r \in Record, LinkEvidence(s, r)  PROVE TypeOK'
  BY <1>4 DEF LinkEvidence
<1>5. ASSUME NEW i \in Item, EnableWorkingCopy(i) \/ ChangeItem(i) \/ ResetItem(i)
      PROVE  TypeOK'
  <2>1. CASE EnableWorkingCopy(i)
    BY <2>1 DEF EnableWorkingCopy
  <2>2. CASE ChangeItem(i)
    <3>1. working[i] + 1 \in Nat
      BY <2>2 DEF ChangeItem, NoCopy
    <3>2. Entry("edit_applied", <<>>, working[i] + 1) \in Event
      BY <3>1 DEF Entry, Event
    <3> QED  BY <2>2, <3>1, <3>2 DEF ChangeItem, Log, Resource
  <2>3. CASE ResetItem(i)
    <3>1. Entry("working_copy_reset", <<>>, AfterReset(i)) \in Event
      BY DEF Entry, Event, AfterReset
    <3> QED  BY <2>3, <3>1 DEF ResetItem, Log, Resource, AfterReset
  <2> QED  BY <1>5, <2>1, <2>2, <2>3
<1>6. ASSUME NEW x \in Executable, AttachExecutable(x)  PROVE TypeOK'
  BY <1>6 DEF AttachExecutable
<1>7. ASSUME NEW i \in Item, NEW c \in Change, NEW a \in Artifact, NEW r \in Record,
             MakeRequest([item |-> i, revision |-> Revision(i), change |-> c,
                          artifact |-> a, record |-> r])
      PROVE  TypeOK'
  <2>1. Revision(i) \in Nat
    BY RevisionIsNat DEF Resource
  <2> QED  BY <1>7, <2>1 DEF MakeRequest, Request
<1>8. ASSUME NEW q \in requests, RegisterRequest(q) \/ BuildPlan(q)  PROVE TypeOK'
  <2> q \in Request
    OBVIOUS
  <2>1. CASE RegisterRequest(q)
    <3>1. Entry("runtime_change_requested", Id(q), q.revision) \in Event
      BY DEF Entry, Event, Id, Request
    <3>2. Entry("validation_requested", Id(q), q.revision) \in Event
      BY DEF Entry, Event, Id, Request
    <3>3. q.item \in Resource
      BY DEF Request, Resource
    <3>4. journal' \in [Resource -> Seq(Event)]
      <4>1. CASE q.item \in routed
        <5>1. LogBoth(q.item, Entry("runtime_change_requested", Id(q), q.revision),
                              Entry("validation_requested", Id(q), q.revision))
          BY <2>1, <4>1 DEF RegisterRequest
        <5> QED  BY <3>1, <3>2, <3>3, <5>1 DEF LogBoth
      <4>2. CASE q.item \notin routed
        BY <2>1, <4>2 DEF RegisterRequest
      <4> QED  BY <4>1, <4>2
    <3> QED  BY <2>1, <3>4 DEF RegisterRequest
  <2>2. CASE BuildPlan(q)
    <3>1. Ready(q) \in BOOLEAN
      BY ZenonT(30) DEF Ready
    <3> HIDE DEF Ready
    <3>2. [request |-> q, ready |-> Ready(q)] \in Plan
      BY <3>1 DEF Plan
    <3> QED  BY <2>2, <3>2 DEF BuildPlan
  <2> QED  BY <1>8, <2>1, <2>2
<1>9. ASSUME NEW p \in plans, NEW q \in requests, RegisterPlan(p, q)
      PROVE  TypeOK'
  <2> q \in Request /\ p.ready \in BOOLEAN
    BY DEF Plan
  <2>1. q.item \in Resource
    BY DEF Request, Resource
  <2>2. Entry("validation_plan_created", Id(q), Revision(q.item)) \in Event
    BY <2>1, RevisionIsNat DEF Entry, Event, Id, Request
  <2>3. journal' \in [Resource -> Seq(Event)]
    BY <1>9, <2>1, <2>2 DEF RegisterPlan, Log
  <2> QED  BY <1>9, <2>3 DEF RegisterPlan, Plan
<1>10. ASSUME NEW p \in plans, NEW q \in requests, NEW x \in Executable,
              NEW b \in Replacement, Compile(q, p, x, b)
       PROVE  TypeOK'
  <2>1. [request |-> q, executable |-> x, replacement |-> b] \in Compiled
    BY DEF Compiled
  <2> QED  BY <1>10, <2>1 DEF Compile
<1>11. ASSUME NEW c \in compiled, RegisterPatch(c) \/ Execute(c) \/ RegisterCopy(c)
       PROVE  TypeOK'
  <2> c \in Compiled
    OBVIOUS
  <2>1. c.request.item \in Resource /\ c.executable \in Resource
    BY DEF Compiled, Request, Resource
  <2>2. PatchId(c) \in Change \X Nat \X Record
    BY DEF Compiled, Request, PatchId
  <2>3. CASE RegisterPatch(c)
    <3>1. Entry("patch_plan_compiled", PatchId(c), Revision(c.request.item)) \in Event
      BY <2>1, <2>2, RevisionIsNat DEF Entry, Event
    <3>2. journal' \in [Resource -> Seq(Event)]
      BY <2>1, <2>3, <3>1 DEF RegisterPatch, Log
    <3> QED  BY <2>3, <3>2 DEF RegisterPatch
  <2>4. CASE Execute(c)
    BY <2>4 DEF Execute
  <2>5. CASE RegisterCopy(c)
    <3>1. Entry("patch_copy_executed", PatchId(c), 0) \in Event
      BY <2>2 DEF Entry, Event
    <3>2. journal' \in [Resource -> Seq(Event)]
      BY <2>1, <2>5, <3>1 DEF RegisterCopy, Log
    <3> QED  BY <2>5, <3>2 DEF RegisterCopy
  <2> QED  BY <1>11, <2>3, <2>4, <2>5
<1>12. CASE UNCHANGED vars
  BY <1>12
<1> QED  BY <1>1, <1>2, <1>3, <1>4, <1>5, <1>6, <1>7, <1>8, <1>9, <1>10, <1>11, <1>12 DEF Next

LEMMA FreshStep ==
  ASSUME State, [Next]_vars
  PROVE  Fresh'
<1> USE DEF State, TypeOK, Fresh, vars, evidenceVars, sessionVars, graphVars, registered, held
<1>1. ASSUME NEW r \in Record, AddEvidence(r)
      PROVE  Fresh'
  BY <1>1 DEF AddEvidence
<1>2. ASSUME NEW p \in Packet, ImportPacket(p)
      PROVE  Fresh'
  BY <1>2 DEF ImportPacket
<1>3. ASSUME NEW s \in Resource, NEW elsewhere \in BOOLEAN, CreateSession(s, elsewhere)
      PROVE  Fresh'
  BY <1>3, OpeningIsFresh DEF CreateSession
<1>4. ASSUME NEW s \in Resource, NEW r \in Record, LinkEvidence(s, r)
      PROVE  Fresh'
  BY <1>4 DEF LinkEvidence
<1>5. ASSUME NEW i \in Item, EnableWorkingCopy(i)
      PROVE  Fresh'
  BY <1>5 DEF EnableWorkingCopy
<1>6. ASSUME NEW i \in Item, ChangeItem(i)
      PROVE  Fresh'
  BY <1>6 DEF ChangeItem, Log
<1>7. ASSUME NEW i \in Item, ResetItem(i)
      PROVE  Fresh'
  BY <1>7 DEF ResetItem, Log
<1>8. ASSUME NEW x \in Executable, AttachExecutable(x)
      PROVE  Fresh'
  BY <1>8 DEF AttachExecutable
<1>9. ASSUME NEW i \in Item, NEW c \in Change, NEW a \in Artifact, NEW r \in Record,
             MakeRequest([item |-> i, revision |-> Revision(i), change |-> c,
                          artifact |-> a, record |-> r])
      PROVE  Fresh'
  BY <1>9 DEF MakeRequest
<1>10. ASSUME NEW q \in requests, RegisterRequest(q)
      PROVE  Fresh'
  BY <1>10 DEF RegisterRequest, LogBoth, MayRegisterRequest, Request
<1>11. ASSUME NEW q \in requests, BuildPlan(q)
      PROVE  Fresh'
  BY <1>11 DEF BuildPlan
<1>12. ASSUME NEW p \in plans, NEW q \in requests, RegisterPlan(p, q)
      PROVE  Fresh'
  BY <1>12 DEF RegisterPlan, Log, Current, Request
<1>13. ASSUME NEW p \in plans, NEW q \in requests, NEW x \in Executable,
             NEW b \in Replacement, Compile(q, p, x, b)
      PROVE  Fresh'
  BY <1>13 DEF Compile
<1>14. ASSUME NEW c \in compiled, RegisterPatch(c)
      PROVE  Fresh'
  BY <1>14 DEF RegisterPatch, Log, MayRegisterPatch, Compiled, Request
<1>15. ASSUME NEW c \in compiled, Execute(c)
      PROVE  Fresh'
  BY <1>15 DEF Execute
<1>16. ASSUME NEW c \in compiled, RegisterCopy(c)
      PROVE  Fresh'
  BY <1>16 DEF RegisterCopy, Log, MayExecute, SourceIs, Compiled
<1>17. CASE UNCHANGED vars
  BY <1>17
<1> QED
  BY <1>1, <1>2, <1>3, <1>4, <1>5, <1>6, <1>7, <1>8, <1>9,
     <1>10, <1>11, <1>12, <1>13, <1>14, <1>15, <1>16, <1>17 DEF Next

LEMMA ShownStep ==
  ASSUME State, [Next]_vars
  PROVE  Shown'
<1> Grows
  BY StepsGrow DEF State
<1> USE DEF State, Shown, Known, Grows, vars, evidenceVars, sessionVars, graphVars, registered, held
<1>1. ASSUME NEW r \in Record, AddEvidence(r)
      PROVE  Shown'
  BY <1>1 DEF AddEvidence
<1>2. ASSUME NEW p \in Packet, ImportPacket(p)
      PROVE  Shown'
  BY <1>2 DEF ImportPacket, PacketNodes
<1>3. ASSUME NEW s \in Resource, NEW elsewhere \in BOOLEAN, CreateSession(s, elsewhere)
      PROVE  Shown'
  BY <1>3 DEF CreateSession, SessionNodes
<1>4. ASSUME NEW s \in Resource, NEW r \in Record, LinkEvidence(s, r)
      PROVE  Shown'
  BY <1>4 DEF LinkEvidence, SessionNodes
<1>5. ASSUME NEW i \in Item, EnableWorkingCopy(i)
      PROVE  Shown'
  BY <1>5 DEF EnableWorkingCopy
<1>6. ASSUME NEW i \in Item, ChangeItem(i)
      PROVE  Shown'
  BY <1>6 DEF ChangeItem
<1>7. ASSUME NEW i \in Item, ResetItem(i)
      PROVE  Shown'
  BY <1>7 DEF ResetItem
<1>8. ASSUME NEW x \in Executable, AttachExecutable(x)
      PROVE  Shown'
  BY <1>8 DEF AttachExecutable
<1>9. ASSUME NEW i \in Item, NEW c \in Change, NEW a \in Artifact, NEW r \in Record,
             MakeRequest([item |-> i, revision |-> Revision(i), change |-> c,
                          artifact |-> a, record |-> r])
      PROVE  Shown'
  <2>1. i \in sessions /\ i \in routed /\ r \in records
    BY <1>9 DEF MakeRequest, MayRequest, Fresh, Resource
  <2> QED  BY <1>9, <2>1 DEF MakeRequest
<1>10. ASSUME NEW q \in requests, RegisterRequest(q)
      PROVE  Shown'
  BY <1>10 DEF RegisterRequest
<1>11. ASSUME NEW q \in requests, BuildPlan(q)
      PROVE  Shown'
  BY <1>11 DEF BuildPlan
<1>12. ASSUME NEW p \in plans, NEW q \in requests, RegisterPlan(p, q)
      PROVE  Shown'
  <2>1. /\ PlanNode(q)' = PlanNode(q) /\ RequestNode(q)' = RequestNode(q)
        /\ PlanNode(q) \in nodes' /\ RequestNode(q) \in nodes'
    BY <1>12 DEF RegisterPlan, PlanNode, RequestNode, Id
  <2> QED  BY <1>12, <2>1 DEF RegisterPlan
<1>13. ASSUME NEW p \in plans, NEW q \in requests, NEW x \in Executable,
             NEW b \in Replacement, Compile(q, p, x, b)
      PROVE  Shown'
  BY <1>13 DEF Compile
<1>14. ASSUME NEW c \in compiled, RegisterPatch(c)
      PROVE  Shown'
  BY <1>14 DEF RegisterPatch
<1>15. ASSUME NEW c \in compiled, Execute(c)
      PROVE  Shown'
  BY <1>15 DEF Execute
<1>16. ASSUME NEW c \in compiled, RegisterCopy(c)
      PROVE  Shown'
  BY <1>16 DEF RegisterCopy
<1>17. CASE UNCHANGED vars
  BY <1>17
<1> QED
  BY <1>1, <1>2, <1>3, <1>4, <1>5, <1>6, <1>7, <1>8, <1>9,
     <1>10, <1>11, <1>12, <1>13, <1>14, <1>15, <1>16, <1>17 DEF Next

LEMMA PairedStep ==
  ASSUME State, [Next]_vars
  PROVE  Paired'
<1> USE DEF State, Paired, vars, evidenceVars, sessionVars, graphVars, registered, held
<1>1. ASSUME NEW r \in Record, AddEvidence(r)
      PROVE  Paired'
  BY <1>1 DEF AddEvidence, RecordNode
<1>2. ASSUME NEW p \in Packet, ImportPacket(p)
      PROVE  Paired'
  BY <1>2 DEF ImportPacket, PacketNodes, ResourceNode, ArtifactNode, RecordNode, PacketNode, AnalysisNode
<1>3. ASSUME NEW s \in Resource, NEW elsewhere \in BOOLEAN, CreateSession(s, elsewhere)
      PROVE  Paired'
  BY <1>3 DEF CreateSession, SessionNodes, ResourceNode, ArtifactNode, RecordNode, PacketNode, AnalysisNode
<1>4. ASSUME NEW s \in Resource, NEW r \in Record, LinkEvidence(s, r)
      PROVE  Paired'
  BY <1>4 DEF LinkEvidence, SessionNodes, ResourceNode, ArtifactNode, RecordNode, PacketNode, AnalysisNode
<1>5. ASSUME NEW i \in Item, EnableWorkingCopy(i)
      PROVE  Paired'
  BY <1>5 DEF EnableWorkingCopy
<1>6. ASSUME NEW i \in Item, ChangeItem(i)
      PROVE  Paired'
  BY <1>6 DEF ChangeItem
<1>7. ASSUME NEW i \in Item, ResetItem(i)
      PROVE  Paired'
  BY <1>7 DEF ResetItem
<1>8. ASSUME NEW x \in Executable, AttachExecutable(x)
      PROVE  Paired'
  BY <1>8 DEF AttachExecutable, ResourceNode, ArtifactNode, RecordNode, PacketNode, AnalysisNode
<1>9. ASSUME NEW i \in Item, NEW c \in Change, NEW a \in Artifact, NEW r \in Record,
             MakeRequest([item |-> i, revision |-> Revision(i), change |-> c,
                          artifact |-> a, record |-> r])
      PROVE  Paired'
  BY <1>9 DEF MakeRequest
<1>10. ASSUME NEW q \in requests, RegisterRequest(q)
      PROVE  Paired'
  BY <1>10 DEF RegisterRequest, RequestNode
<1>11. ASSUME NEW q \in requests, BuildPlan(q)
      PROVE  Paired'
  BY <1>11 DEF BuildPlan
<1>12. ASSUME NEW p \in plans, NEW q \in requests, RegisterPlan(p, q)
      PROVE  Paired'
  BY <1>12 DEF RegisterPlan, PlanNode
<1>13. ASSUME NEW p \in plans, NEW q \in requests, NEW x \in Executable,
             NEW b \in Replacement, Compile(q, p, x, b)
      PROVE  Paired'
  BY <1>13 DEF Compile
<1>14. ASSUME NEW c \in compiled, RegisterPatch(c)
      PROVE  Paired'
  BY <1>14 DEF RegisterPatch, PatchNode
<1>15. ASSUME NEW c \in compiled, Execute(c)
      PROVE  Paired'
  BY <1>15 DEF Execute
<1>16. ASSUME NEW c \in compiled, RegisterCopy(c)
      PROVE  Paired'
  <2>1. nodes' = nodes \union {<<"patch-execution", PatchId(c)>>, <<"rollback-plan", PatchId(c)>>}
    BY <1>16 DEF RegisterCopy, ExecutionNode, RollbackNode
  <2> HIDE DEF State
  <2> QED  BY <2>1 DEF Paired, State
<1>17. CASE UNCHANGED vars
  BY <1>17
<1> QED
  BY <1>1, <1>2, <1>3, <1>4, <1>5, <1>6, <1>7, <1>8, <1>9,
     <1>10, <1>11, <1>12, <1>13, <1>14, <1>15, <1>16, <1>17 DEF Next

(***************************************************************************)
(* What the guards of the later registrations ask for never goes away.     *)
(***************************************************************************)
LEMMA GuardsLast ==
  ASSUME Grows, NEW c
  PROVE  /\ MayRegisterPatch(c) => MayRegisterPatch(c)'
         /\ MayExecute(c) => MayExecute(c)'
BY DEF Grows, MayRegisterPatch, MayExecute, SourceIs, RequestNode, PlanNode, PatchNode

LEMMA HeldStep ==
  ASSUME State, [Next]_vars
  PROVE  HeldWorkStaysGood'
<1> Grows
  BY StepsGrow DEF State
<1>a. \A d \in compiled : MayRegisterPatch(d)'
  BY GuardsLast DEF State, HeldWorkStaysGood
<1>b. \A d \in copies : MayExecute(d)'
  BY GuardsLast DEF State, HeldWorkStaysGood
<1>c. (\A d \in compiled' : MayRegisterPatch(d)') /\ (\A d \in copies' : MayExecute(d)')
  <2> USE DEF vars, evidenceVars, sessionVars, graphVars, registered, held
  <2>1. ASSUME NEW r \in Record, AddEvidence(r)
        PROVE  (\A d \in compiled' : MayRegisterPatch(d)') /\ (\A d \in copies' : MayExecute(d)')
    BY <2>1, <1>a, <1>b DEF AddEvidence
  <2>2. ASSUME NEW p \in Packet, ImportPacket(p)
        PROVE  (\A d \in compiled' : MayRegisterPatch(d)') /\ (\A d \in copies' : MayExecute(d)')
    BY <2>2, <1>a, <1>b DEF ImportPacket
  <2>3. ASSUME NEW s \in Resource, NEW elsewhere \in BOOLEAN, CreateSession(s, elsewhere)
        PROVE  (\A d \in compiled' : MayRegisterPatch(d)') /\ (\A d \in copies' : MayExecute(d)')
    BY <2>3, <1>a, <1>b DEF CreateSession
  <2>4. ASSUME NEW s \in Resource, NEW r \in Record, LinkEvidence(s, r)
        PROVE  (\A d \in compiled' : MayRegisterPatch(d)') /\ (\A d \in copies' : MayExecute(d)')
    BY <2>4, <1>a, <1>b DEF LinkEvidence
  <2>5. ASSUME NEW i \in Item, EnableWorkingCopy(i)
        PROVE  (\A d \in compiled' : MayRegisterPatch(d)') /\ (\A d \in copies' : MayExecute(d)')
    BY <2>5, <1>a, <1>b DEF EnableWorkingCopy
  <2>6. ASSUME NEW i \in Item, ChangeItem(i)
        PROVE  (\A d \in compiled' : MayRegisterPatch(d)') /\ (\A d \in copies' : MayExecute(d)')
    BY <2>6, <1>a, <1>b DEF ChangeItem
  <2>7. ASSUME NEW i \in Item, ResetItem(i)
        PROVE  (\A d \in compiled' : MayRegisterPatch(d)') /\ (\A d \in copies' : MayExecute(d)')
    BY <2>7, <1>a, <1>b DEF ResetItem
  <2>8. ASSUME NEW x \in Executable, AttachExecutable(x)
        PROVE  (\A d \in compiled' : MayRegisterPatch(d)') /\ (\A d \in copies' : MayExecute(d)')
    BY <2>8, <1>a, <1>b DEF AttachExecutable
  <2>9. ASSUME NEW i \in Item, NEW c \in Change, NEW a \in Artifact, NEW r \in Record,
               MakeRequest([item |-> i, revision |-> Revision(i), change |-> c,
                            artifact |-> a, record |-> r])
        PROVE  (\A d \in compiled' : MayRegisterPatch(d)') /\ (\A d \in copies' : MayExecute(d)')
    BY <2>9, <1>a, <1>b DEF MakeRequest
  <2>10. ASSUME NEW q \in requests, RegisterRequest(q)
        PROVE  (\A d \in compiled' : MayRegisterPatch(d)') /\ (\A d \in copies' : MayExecute(d)')
    BY <2>10, <1>a, <1>b DEF RegisterRequest
  <2>11. ASSUME NEW q \in requests, BuildPlan(q)
        PROVE  (\A d \in compiled' : MayRegisterPatch(d)') /\ (\A d \in copies' : MayExecute(d)')
    BY <2>11, <1>a, <1>b DEF BuildPlan
  <2>12. ASSUME NEW p \in plans, NEW q \in requests, RegisterPlan(p, q)
        PROVE  (\A d \in compiled' : MayRegisterPatch(d)') /\ (\A d \in copies' : MayExecute(d)')
    BY <2>12, <1>a, <1>b DEF RegisterPlan
  <2>13. ASSUME NEW p \in plans, NEW q \in requests, NEW x \in Executable,
               NEW b \in Replacement, Compile(q, p, x, b)
        PROVE  (\A d \in compiled' : MayRegisterPatch(d)') /\ (\A d \in copies' : MayExecute(d)')
    <3>1. MayRegisterPatch([request |-> q, executable |-> x, replacement |-> b])'
      <4>1. /\ q \in Request /\ q.item \in sessions /\ q.record \in records
        BY DEF State, TypeOK, Shown, Known
      <4>2. SessionsFor(q.artifact) = {x}
        BY <2>13 DEF Compile
      <4>3. x \in attached /\ q.artifact \in artifacts /\ PayloadSha[x] = ArtifactSha[q.artifact]
        BY <4>2 DEF SessionsFor
      <4>4. x \in sessions
        BY <4>3 DEF State, TypeOK, Fresh, Resource
      <4> QED  BY <2>13, <4>1, <4>3, <4>4 DEF Compile, MayRegisterPatch, SourceIs, RequestNode, PlanNode
    <3> QED  BY <2>13, <3>1, <1>a, <1>b DEF Compile
  <2>14. ASSUME NEW c \in compiled, RegisterPatch(c)
        PROVE  (\A d \in compiled' : MayRegisterPatch(d)') /\ (\A d \in copies' : MayExecute(d)')
    BY <2>14, <1>a, <1>b DEF RegisterPatch
  <2>15. ASSUME NEW c \in compiled, Execute(c)
        PROVE  (\A d \in compiled' : MayRegisterPatch(d)') /\ (\A d \in copies' : MayExecute(d)')
    <3>1. MayExecute(c)'
      BY <2>15, GuardsLast DEF Execute
    <3> QED  BY <2>15, <3>1, <1>a, <1>b DEF Execute
  <2>16. ASSUME NEW c \in compiled, RegisterCopy(c)
        PROVE  (\A d \in compiled' : MayRegisterPatch(d)') /\ (\A d \in copies' : MayExecute(d)')
    BY <2>16, <1>a, <1>b DEF RegisterCopy
  <2>17. CASE UNCHANGED vars
    BY <2>17, <1>a, <1>b
  <2> QED
    BY <2>1, <2>2, <2>3, <2>4, <2>5, <2>6, <2>7, <2>8, <2>9,
       <2>10, <2>11, <2>12, <2>13, <2>14, <2>15, <2>16, <2>17 DEF Next
<1> QED  BY <1>c, PairedStep DEF HeldWorkStaysGood, Paired, ExecutionNode, RollbackNode, PatchId

(***************************************************************************)
(* The edges of a node that is registered all find their ends, and stay.   *)
(***************************************************************************)
LEMMA ConnectedStep ==
  ASSUME State, ProvenanceIsConnected, [Next]_vars
  PROVE  ProvenanceIsConnected'
<1>0. /\ Grows /\ Shown
      /\ \A q : RequestEdges(q)' = RequestEdges(q) /\ PlanOrigins(q)' = PlanOrigins(q)
      /\ \A c : PatchEdges(c)' = PatchEdges(c) /\ CopyEdges(c)' = CopyEdges(c)
  BY StepsGrow DEF State, RequestEdges, PlanOrigins, PatchEdges, CopyEdges, RequestNode, PlanNode,
     PatchNode, ExecutionNode, RollbackNode, ResourceNode, ArtifactNode, RecordNode, Id, PatchId
<1> USE <1>0 DEF ProvenanceIsConnected, Grows, vars, evidenceVars, sessionVars,
                 graphVars, registered, held
<1>1. ASSUME NEW r \in Record, AddEvidence(r)
      PROVE  ProvenanceIsConnected'
  BY <1>1 DEF AddEvidence
<1>2. ASSUME NEW p \in Packet, ImportPacket(p)
      PROVE  ProvenanceIsConnected'
  BY <1>2 DEF ImportPacket
<1>3. ASSUME NEW s \in Resource, NEW elsewhere \in BOOLEAN, CreateSession(s, elsewhere)
      PROVE  ProvenanceIsConnected'
  BY <1>3 DEF CreateSession
<1>4. ASSUME NEW s \in Resource, NEW r \in Record, LinkEvidence(s, r)
      PROVE  ProvenanceIsConnected'
  BY <1>4 DEF LinkEvidence
<1>5. ASSUME NEW i \in Item, EnableWorkingCopy(i)
      PROVE  ProvenanceIsConnected'
  BY <1>5 DEF EnableWorkingCopy
<1>6. ASSUME NEW i \in Item, ChangeItem(i)
      PROVE  ProvenanceIsConnected'
  BY <1>6 DEF ChangeItem
<1>7. ASSUME NEW i \in Item, ResetItem(i)
      PROVE  ProvenanceIsConnected'
  BY <1>7 DEF ResetItem
<1>8. ASSUME NEW x \in Executable, AttachExecutable(x)
      PROVE  ProvenanceIsConnected'
  BY <1>8 DEF AttachExecutable
<1>9. ASSUME NEW i \in Item, NEW c \in Change, NEW a \in Artifact, NEW r \in Record,
             MakeRequest([item |-> i, revision |-> Revision(i), change |-> c,
                          artifact |-> a, record |-> r])
      PROVE  ProvenanceIsConnected'
  BY <1>9 DEF MakeRequest
<1>10. ASSUME NEW q \in requests, RegisterRequest(q)
      PROVE  ProvenanceIsConnected'
  <2>1. RequestEdges(q) \subseteq edges'
    <3>1. /\ RequestNode(q) \in nodes' /\ ResourceNode(q.item) \in nodes'
          /\ ArtifactNode(q.artifact) \in nodes' /\ RecordNode(q.record) \in nodes'
      BY <1>10 DEF RegisterRequest, MayRegisterRequest, Shown
    <3> QED  BY <1>10, <3>1 DEF RegisterRequest, Connect, RequestEdges
  <2> QED  BY <1>10, <2>1 DEF RegisterRequest
<1>11. ASSUME NEW q \in requests, BuildPlan(q)
      PROVE  ProvenanceIsConnected'
  BY <1>11 DEF BuildPlan
<1>12. ASSUME NEW p \in plans, NEW q \in requests, RegisterPlan(p, q)
      PROVE  ProvenanceIsConnected'
  <2>1. PlanOrigins(q) \subseteq edges'
    <3>1. q.record \in records
      BY DEF Shown, Known
    <3>2. /\ PlanNode(q) \in nodes' /\ RequestNode(q) \in nodes' /\ ResourceNode(q.item) \in nodes'
          /\ ArtifactNode(q.artifact) \in nodes' /\ RecordNode(q.record) \in nodes'
      BY <1>12, <3>1 DEF RegisterPlan, Current, Shown
    <3>3. PlanOrigins(q) \subseteq PlanEdges(q)
      BY DEF PlanEdges
    <3>4. \A e \in PlanOrigins(q) : e[1] \in nodes' /\ e[2] \in nodes'
      BY <3>2 DEF PlanOrigins
    <3> QED  BY <1>12, <3>3, <3>4 DEF RegisterPlan, Connect
  <2> QED  BY <1>12, <2>1 DEF RegisterPlan
<1>13. ASSUME NEW p \in plans, NEW q \in requests, NEW x \in Executable,
             NEW b \in Replacement, Compile(q, p, x, b)
      PROVE  ProvenanceIsConnected'
  BY <1>13 DEF Compile
<1>14. ASSUME NEW c \in compiled, RegisterPatch(c)
      PROVE  ProvenanceIsConnected'
  <2>1. PatchEdges(c) \subseteq edges'
    <3>1. c.executable \in sessions
      BY <1>14 DEF RegisterPatch, MayRegisterPatch, SourceIs
    <3>2. /\ PatchNode(c) \in nodes' /\ PlanNode(c.request) \in nodes'
          /\ RequestNode(c.request) \in nodes'
          /\ ResourceNode(c.request.item) \in nodes' /\ ResourceNode(c.executable) \in nodes'
          /\ ArtifactNode(c.request.artifact) \in nodes'
          /\ RecordNode(c.request.record) \in nodes'
      BY <1>14, <3>1 DEF RegisterPatch, MayRegisterPatch, SourceIs, Shown
    <3>3. \A e \in PatchEdges(c) : e[1] \in nodes' /\ e[2] \in nodes'
      BY <3>2 DEF PatchEdges
    <3> QED  BY <1>14, <3>3 DEF RegisterPatch, Connect
  <2> QED  BY <1>14, <2>1 DEF RegisterPatch
<1>15. ASSUME NEW c \in compiled, Execute(c)
      PROVE  ProvenanceIsConnected'
  BY <1>15 DEF Execute
<1>16. ASSUME NEW c \in compiled, RegisterCopy(c)
      PROVE  ProvenanceIsConnected'
  <2>1. CopyEdges(c) \subseteq edges'
    <3>2. /\ ExecutionNode(c) \in nodes' /\ RollbackNode(c) \in nodes'
          /\ PatchNode(c) \in nodes' /\ ResourceNode(c.executable) \in nodes'
          /\ ArtifactNode(c.request.artifact) \in nodes'
      BY <1>16 DEF RegisterCopy, MayExecute, SourceIs, Shown
    <3> QED  BY <1>16, <3>2 DEF RegisterCopy, Connect, CopyEdges
  <2> QED  BY <1>16, <2>1 DEF RegisterCopy
<1>17. CASE UNCHANGED vars
  BY <1>17
<1> QED
  BY <1>1, <1>2, <1>3, <1>4, <1>5, <1>6, <1>7, <1>8, <1>9,
     <1>10, <1>11, <1>12, <1>13, <1>14, <1>15, <1>16, <1>17 DEF Next

-----------------------------------------------------------------------------

(***************************************************************************)
(* A step that logs writes e at the next place of the journal of s, and    *)
(* nothing else but requests for validation.                               *)
(***************************************************************************)
Extends(s, e) ==
  /\ \A t \in Resource :
       /\ Len(journal'[t]) \in Nat /\ Len(journal'[t]) >= Len(journal[t])
       /\ \A k \in 1 .. Len(journal[t]) : journal'[t][k] = journal[t][k]
       /\ \A k \in (Len(journal[t]) + 1) .. Len(journal'[t]) :
            \/ journal'[t][k].type = "validation_requested"
            \/ t = s /\ k = Len(journal[s]) + 1 /\ journal'[t][k] = e
  /\ Len(journal'[s]) >= Len(journal[s]) + 1
  /\ journal'[s][Len(journal[s]) + 1] = e

Proper(s, e) ==
  /\ e.type \in Telling =>
       <<Tells(e.type), e.subject>> \in nodes' /\ <<Tells(e.type), e.subject>> \notin nodes
  /\ e.type = "validation_plan_created" =>
       /\ <<"runtime-request", e.subject>> \in nodes'
       /\ s \in Item /\ e.subject[2] = working[s]
  /\ e.type = "runtime_change_requested" =>
       s \in Item /\ e.subject[2] = e.revision /\ e.revision = working[s]
  /\ \A i \in Item : i # s => working'[i] = working[i]
  /\ s \in Item /\ e.type = "edit_applied" => working'[s] > working[s]
  /\ s \in Item /\ e.type \notin {"edit_applied", "working_copy_reset"} =>
       working'[s] = working[s]

\* e, in the journal of s, is the event of that type a node of session t needs.
IsTold(t, subject, type, s, e) == t = s /\ e.type = type /\ e.subject = subject

\* What a logging step adds to the registries is what its event tells of.
Registers(s, e) ==
  /\ \A q \in asked' : q \in asked \/ IsTold(q.item, Id(q), "runtime_change_requested", s, e)
  /\ \A p \in validated' : p \in validated
       \/ IsTold(p.request.item, Id(p.request), "validation_plan_created", s, e)
  /\ \A c \in patched' : c \in patched
       \/ IsTold(c.request.item, PatchId(c), "patch_plan_compiled", s, e)
  /\ \A c \in executed' : c \in executed
       \/ IsTold(c.executable, PatchId(c), "patch_copy_executed", s, e)

Logs(s, e) == Extends(s, e) /\ Proper(s, e) /\ Registers(s, e)

Quiet ==
  /\ journal' = journal
  /\ \A i \in Item : working'[i] = working[i] \/ working[i] = NoCopy
  /\ UNCHANGED registered

LEMMA LogExtends ==
  ASSUME TypeOK, NEW s \in Resource, NEW e \in Event, Log(s, e)
  PROVE  Extends(s, e)
<1>1. \A t \in Resource : journal[t] \in Seq(Event)
  BY DEF TypeOK
<1>2. journal'[s] = Append(journal[s], e)
  BY DEF Log, TypeOK
<1>3. \A t \in Resource : t # s => journal'[t] = journal[t]
  BY DEF Log, TypeOK
<1>4. /\ Len(journal'[s]) = Len(journal[s]) + 1
      /\ journal'[s][Len(journal[s]) + 1] = e
      /\ \A k \in 1 .. Len(journal[s]) : journal'[s][k] = journal[s][k]
  BY <1>1, <1>2
<1>5. \A t \in Resource : Len(journal[t]) \in Nat
  BY <1>1
<1> QED  BY <1>3, <1>4, <1>5 DEF Extends

LEMMA LogBothExtends ==
  ASSUME TypeOK, NEW s \in Resource, NEW e \in Event, NEW f \in Event, LogBoth(s, e, f),
         f.type = "validation_requested"
  PROVE  Extends(s, e)
<1>1. \A t \in Resource : journal[t] \in Seq(Event)
  BY DEF TypeOK
<1>2. journal'[s] = Append(Append(journal[s], e), f)
  BY DEF LogBoth, TypeOK
<1>3. \A t \in Resource : t # s => journal'[t] = journal[t]
  BY DEF LogBoth, TypeOK
<1>4. /\ Len(journal'[s]) = Len(journal[s]) + 2
      /\ journal'[s][Len(journal[s]) + 1] = e
      /\ journal'[s][Len(journal[s]) + 2] = f
      /\ \A k \in 1 .. Len(journal[s]) : journal'[s][k] = journal[s][k]
  <2>1. /\ Append(journal[s], e) \in Seq(Event) /\ Len(Append(journal[s], e)) = Len(journal[s]) + 1
        /\ Append(journal[s], e)[Len(journal[s]) + 1] = e
        /\ \A k \in 1 .. Len(journal[s]) : Append(journal[s], e)[k] = journal[s][k]
    BY <1>1
  <2> QED  BY <1>1, <1>2, <2>1
<1>5. \A t \in Resource : Len(journal[t]) \in Nat
  BY <1>1
<1> QED  BY <1>3, <1>4, <1>5 DEF Extends

LEMMA BetweenKept ==
  ASSUME TypeOK, NEW s \in Resource, NEW e, Extends(s, e), NEW t \in Resource,
         NEW type, NEW k \in Nat
  PROVE  /\ \A n \in 1 .. (Len(journal[t]) + 1) : Between(journal'[t], type, k, n) <=> Between(journal[t], type, k, n)
         /\ Between(journal[t], type, k, Len(journal[t]) + 1)
              => Between(journal'[t], type, k, Len(journal'[t]) + 1)
         /\ Between(journal'[t], type, k, Len(journal'[t]) + 1)
              => \/ Between(journal[t], type, k, Len(journal[t]) + 1)
                 \/ type = "validation_requested"
                 \/ t = s /\ type = e.type
<1>1. Len(journal[t]) \in Nat
  BY DEF TypeOK
<1>2. /\ Len(journal'[t]) \in Nat /\ Len(journal'[t]) >= Len(journal[t])
      /\ \A m \in 1 .. Len(journal[t]) : journal'[t][m] = journal[t][m]
      /\ \A m \in (Len(journal[t]) + 1) .. Len(journal'[t]) :
           journal'[t][m].type = "validation_requested" \/ (t = s /\ journal'[t][m] = e)
  BY DEF Extends
<1>3. \A n \in 1 .. (Len(journal[t]) + 1) : Between(journal'[t], type, k, n) <=> Between(journal[t], type, k, n)
  <2> TAKE n \in 1 .. (Len(journal[t]) + 1)
  <2>1. ASSUME Between(journal'[t], type, k, n)  PROVE Between(journal[t], type, k, n)
    <3>1. PICK m \in 1 .. Len(journal'[t]) : k < m /\ m < n /\ journal'[t][m].type = type
      BY <2>1 DEF Between
    <3>2. m \in 1 .. Len(journal[t])
      BY <1>1, <1>2, <3>1
    <3> QED  BY <1>2, <3>1, <3>2 DEF Between
  <2>2. ASSUME Between(journal[t], type, k, n)  PROVE Between(journal'[t], type, k, n)
    <3>1. PICK m \in 1 .. Len(journal[t]) : k < m /\ m < n /\ journal[t][m].type = type
      BY <2>2 DEF Between
    <3>2. m \in 1 .. Len(journal'[t])
      BY <1>1, <1>2, <3>1
    <3> QED  BY <1>2, <3>1, <3>2 DEF Between
  <2> QED  BY <2>1, <2>2
<1>4. ASSUME Between(journal[t], type, k, Len(journal[t]) + 1)
      PROVE  Between(journal'[t], type, k, Len(journal'[t]) + 1)
  <2>1. PICK m \in 1 .. Len(journal[t]) : k < m /\ journal[t][m].type = type
    BY <1>4 DEF Between
  <2>2. m \in 1 .. Len(journal'[t]) /\ m < Len(journal'[t]) + 1
    BY <1>1, <1>2, <2>1
  <2> QED  BY <1>2, <2>1, <2>2 DEF Between
<1>5. ASSUME Between(journal'[t], type, k, Len(journal'[t]) + 1)
      PROVE  \/ Between(journal[t], type, k, Len(journal[t]) + 1)
             \/ type = "validation_requested"
             \/ t = s /\ type = e.type
  <2>1. PICK m \in 1 .. Len(journal'[t]) : k < m /\ journal'[t][m].type = type
    BY <1>5 DEF Between
  <2>2. CASE m <= Len(journal[t])
    <3>1. m \in 1 .. Len(journal[t]) /\ m < Len(journal[t]) + 1
      BY <1>1, <2>2
    <3> QED  BY <1>2, <2>1, <3>1 DEF Between
  <2>3. CASE m > Len(journal[t])
    <3>1. m \in (Len(journal[t]) + 1) .. Len(journal'[t])
      BY <1>1, <1>2, <2>3
    <3> QED  BY <1>2, <2>1, <3>1
  <2> QED  BY <1>1, <1>2, <2>2, <2>3
<1> QED  BY <1>3, <1>4, <1>5

(***************************************************************************)
(* Every step leaves the journals alone or adds one event that is true.    *)
(***************************************************************************)
LEMMA JournalStep ==
  ASSUME State, [Next]_vars
  PROVE  Quiet \/ \E t \in Resource, e \in Event : Logs(t, e)
<1> USE DEF vars, evidenceVars, sessionVars, graphVars, registered, held
<1>1. ASSUME NEW r \in Record, AddEvidence(r)
      PROVE  Quiet \/ \E t \in Resource, e \in Event : Logs(t, e)
  BY <1>1 DEF AddEvidence, Quiet
<1>2. ASSUME NEW p \in Packet, ImportPacket(p)
      PROVE  Quiet \/ \E t \in Resource, e \in Event : Logs(t, e)
  BY <1>2 DEF ImportPacket, Quiet
<1>3. ASSUME NEW s \in Resource, NEW elsewhere \in BOOLEAN, CreateSession(s, elsewhere)
      PROVE  Quiet \/ \E t \in Resource, e \in Event : Logs(t, e)
  BY <1>3, OpeningIsFresh DEF CreateSession, Quiet, State
<1>4. ASSUME NEW s \in Resource, NEW r \in Record, LinkEvidence(s, r)
      PROVE  Quiet \/ \E t \in Resource, e \in Event : Logs(t, e)
  BY <1>4 DEF LinkEvidence, Quiet
<1>5. ASSUME NEW i \in Item, EnableWorkingCopy(i)
      PROVE  Quiet \/ \E t \in Resource, e \in Event : Logs(t, e)
  BY <1>5 DEF EnableWorkingCopy, Quiet
<1>6. ASSUME NEW i \in Item, ChangeItem(i)
      PROVE  Quiet \/ \E t \in Resource, e \in Event : Logs(t, e)
  <2>0. i \in Resource /\ working[i] \in Nat
    BY <1>6 DEF ChangeItem, State, TypeOK, Resource, NoCopy
  <2>r. working[i] + 1 \in Nat
    BY <2>0
  <2>1. PICK e \in Event : e = Entry("edit_applied", <<>>, working[i] + 1)
    BY <2>r DEF Entry, Event
  <2>2. e.type = "edit_applied"
    BY <2>1 DEF Entry
  <2>3. Extends(i, e)
    BY <1>6, <2>0, <2>1, LogExtends DEF ChangeItem, State
  <2>4. Proper(i, e)
    BY <1>6, <2>0, <2>2 DEF ChangeItem, Proper, Telling, State, TypeOK
  <2>5. Registers(i, e)
    BY <1>6 DEF ChangeItem, Registers
  <2> QED  BY <2>0, <2>3, <2>4, <2>5 DEF Logs
<1>7. ASSUME NEW i \in Item, ResetItem(i)
      PROVE  Quiet \/ \E t \in Resource, e \in Event : Logs(t, e)
  <2>0. i \in Resource
    BY DEF Resource
  <2>1. PICK e \in Event : e = Entry("working_copy_reset", <<>>, AfterReset(i))
    BY DEF Entry, Event, AfterReset
  <2>2. e.type = "working_copy_reset"
    BY <2>1 DEF Entry
  <2>3. Extends(i, e)
    BY <1>7, <2>0, <2>1, LogExtends DEF ResetItem, State
  <2>4. Proper(i, e)
    BY <1>7, <2>0, <2>2 DEF ResetItem, Proper, Telling, State, TypeOK
  <2>5. Registers(i, e)
    BY <1>7 DEF ResetItem, Registers
  <2> QED  BY <2>0, <2>3, <2>4, <2>5 DEF Logs
<1>8. ASSUME NEW x \in Executable, AttachExecutable(x)
      PROVE  Quiet \/ \E t \in Resource, e \in Event : Logs(t, e)
  BY <1>8 DEF AttachExecutable, Quiet
<1>9. ASSUME NEW i \in Item, NEW c \in Change, NEW a \in Artifact, NEW r \in Record,
             MakeRequest([item |-> i, revision |-> Revision(i), change |-> c,
                          artifact |-> a, record |-> r])
      PROVE  Quiet \/ \E t \in Resource, e \in Event : Logs(t, e)
  BY <1>9 DEF MakeRequest, Quiet
<1>10. ASSUME NEW q \in requests, RegisterRequest(q)
      PROVE  Quiet \/ \E t \in Resource, e \in Event : Logs(t, e)
  <2>0. q \in Request /\ q.item \in Resource /\ q.item \in Item
    BY DEF State, TypeOK, Request, Resource
  <2>1. PICK e \in Event : e = Entry("runtime_change_requested", Id(q), q.revision)
    BY <2>0 DEF Entry, Event, Id, Request
  <2>2. PICK f \in Event : f = Entry("validation_requested", Id(q), q.revision)
    BY <2>0 DEF Entry, Event, Id, Request
  <2>3. /\ e.type = "runtime_change_requested" /\ e.subject = Id(q) /\ e.revision = q.revision
        /\ f.type = "validation_requested"
    BY <2>1, <2>2 DEF Entry
  <2>4. Extends(q.item, e)
    <3>1. q.item \in routed
      BY DEF State, Shown, Known
    <3> QED
      BY <1>10, <2>0, <2>1, <2>2, <2>3, <3>1, LogBothExtends DEF RegisterRequest, State
  <2>5. /\ <<"runtime-request", e.subject>> \in nodes' /\ <<"runtime-request", e.subject>> \notin nodes
        /\ working' = working /\ working[q.item] = q.revision
    BY <1>10, <2>3 DEF RegisterRequest, MayRegisterRequest, RequestNode
  <2>6. Id(q)[2] = q.revision
    BY DEF Id
  <2>7. Proper(q.item, e)
    BY <2>0, <2>3, <2>5, <2>6 DEF Proper, Telling, Tells
  <2>8. Registers(q.item, e)
    BY <1>10, <2>3 DEF RegisterRequest, Registers, IsTold
  <2> QED  BY <2>0, <2>4, <2>7, <2>8 DEF Logs
<1>11. ASSUME NEW q \in requests, BuildPlan(q)
      PROVE  Quiet \/ \E t \in Resource, e \in Event : Logs(t, e)
  BY <1>11 DEF BuildPlan, Quiet
<1>12. ASSUME NEW p \in plans, NEW q \in requests, RegisterPlan(p, q)
      PROVE  Quiet \/ \E t \in Resource, e \in Event : Logs(t, e)
  <2>0. q \in Request /\ q.item \in Resource /\ q.item \in Item
    BY DEF State, TypeOK, Request, Resource
  <2>1. PICK e \in Event : e = Entry("validation_plan_created", Id(q), Revision(q.item))
    BY <2>0, RevisionIsNat DEF Entry, Event, Id, Request, State
  <2>3. e.type = "validation_plan_created" /\ e.subject = Id(q)
    BY <2>1 DEF Entry
  <2>4. Extends(q.item, e)
    BY <1>12, <2>0, <2>1, LogExtends DEF RegisterPlan, State
  <2>5. /\ <<"validation-plan", e.subject>> \in nodes' /\ <<"validation-plan", e.subject>> \notin nodes
        /\ <<"runtime-request", e.subject>> \in nodes'
        /\ working' = working /\ working[q.item] = q.revision
    BY <1>12, <2>3 DEF RegisterPlan, Current, RequestNode, PlanNode
  <2>6. Id(q)[2] = q.revision
    BY DEF Id
  <2>7. Proper(q.item, e)
    BY <2>0, <2>3, <2>5, <2>6 DEF Proper, Telling, Tells
  <2>8. Registers(q.item, e)
    BY <1>12, <2>3 DEF RegisterPlan, Registers, IsTold
  <2> QED  BY <2>0, <2>4, <2>7, <2>8 DEF Logs
<1>13. ASSUME NEW p \in plans, NEW q \in requests, NEW x \in Executable,
             NEW b \in Replacement, Compile(q, p, x, b)
      PROVE  Quiet \/ \E t \in Resource, e \in Event : Logs(t, e)
  BY <1>13 DEF Compile, Quiet
<1>14. ASSUME NEW c \in compiled, RegisterPatch(c)
      PROVE  Quiet \/ \E t \in Resource, e \in Event : Logs(t, e)
  <2>0. c \in Compiled /\ c.request.item \in Resource /\ PatchId(c) \in Change \X Nat \X Record
    BY DEF State, TypeOK, Compiled, Request, Resource, PatchId
  <2>1. PICK e \in Event : e = Entry("patch_plan_compiled", PatchId(c), Revision(c.request.item))
    BY <2>0, RevisionIsNat DEF Entry, Event, State
  <2>3. e.type = "patch_plan_compiled" /\ e.subject = PatchId(c)
    BY <2>1 DEF Entry
  <2>4. Extends(c.request.item, e)
    BY <1>14, <2>0, <2>1, LogExtends DEF RegisterPatch, State
  <2>5. /\ <<"patch-plan", e.subject>> \in nodes' /\ <<"patch-plan", e.subject>> \notin nodes
        /\ working' = working
    BY <1>14, <2>3 DEF RegisterPatch, PatchNode
  <2>7. Proper(c.request.item, e)
    BY <2>3, <2>5 DEF Proper, Telling, Tells
  <2>8. Registers(c.request.item, e)
    BY <1>14, <2>3 DEF RegisterPatch, Registers, IsTold
  <2> QED  BY <2>0, <2>4, <2>7, <2>8 DEF Logs
<1>15. ASSUME NEW c \in compiled, Execute(c)
      PROVE  Quiet \/ \E t \in Resource, e \in Event : Logs(t, e)
  BY <1>15 DEF Execute, Quiet
<1>16. ASSUME NEW c \in compiled, RegisterCopy(c)
      PROVE  Quiet \/ \E t \in Resource, e \in Event : Logs(t, e)
  <2>0. c \in Compiled /\ c.executable \in Resource /\ PatchId(c) \in Change \X Nat \X Record
    BY DEF State, TypeOK, Compiled, Request, Resource, PatchId
  <2>1. PICK e \in Event : e = Entry("patch_copy_executed", PatchId(c), 0)
    BY <2>0 DEF Entry, Event
  <2>3. e.type = "patch_copy_executed" /\ e.subject = PatchId(c)
    BY <2>1 DEF Entry
  <2>4. Extends(c.executable, e)
    BY <1>16, <2>0, <2>1, LogExtends DEF RegisterCopy, State
  <2>5. /\ <<"patch-execution", e.subject>> \in nodes' /\ <<"patch-execution", e.subject>> \notin nodes
        /\ working' = working
    BY <1>16, <2>3 DEF RegisterCopy, ExecutionNode
  <2>7. Proper(c.executable, e)
    BY <2>3, <2>5 DEF Proper, Telling, Tells
  <2>8. Registers(c.executable, e)
    BY <1>16, <2>3 DEF RegisterCopy, Registers, IsTold
  <2> QED  BY <2>0, <2>4, <2>7, <2>8 DEF Logs
<1>17. CASE UNCHANGED vars
  BY <1>17 DEF Quiet
<1> QED
  BY <1>1, <1>2, <1>3, <1>4, <1>5, <1>6, <1>7, <1>8, <1>9,
     <1>10, <1>11, <1>12, <1>13, <1>14, <1>15, <1>16, <1>17 DEF Next

(***************************************************************************)
(* A place of a journal after a logging step: an old one, that of the new  *)
(* event, or that of a request for validation.                             *)
(***************************************************************************)
LEMMA Places3 ==
  ASSUME TypeOK, NEW s \in Resource, NEW e, Extends(s, e),
         NEW t \in Resource, NEW k \in 1 .. Len(journal'[t])
  PROVE  \/ k \in 1 .. Len(journal[t]) /\ journal'[t][k] = journal[t][k]
         \/ t = s /\ k = Len(journal[s]) + 1 /\ journal'[t][k] = e
         \/ journal'[t][k].type = "validation_requested"
<1>1. Len(journal[t]) \in Nat /\ Len(journal'[t]) \in Nat
  BY DEF TypeOK, Extends
<1>2. CASE k <= Len(journal[t])
  BY <1>1, <1>2 DEF Extends
<1>3. CASE k > Len(journal[t])
  BY <1>1, <1>3 DEF Extends
<1> QED  BY <1>1, <1>2, <1>3

LEMMA ToldStep ==
  ASSUME State, Told, [Next]_vars
  PROVE  Told'
<1>0. TypeOK /\ nodes \subseteq nodes'
  BY StepsGrow DEF State, Grows
<1>1. CASE Quiet
  BY <1>0, <1>1 DEF Quiet, Told
<1>2. ASSUME NEW s \in Resource, NEW e \in Event, Logs(s, e)
      PROVE  Told'
  <2>0. Extends(s, e) /\ Proper(s, e)
    BY <1>2 DEF Logs
  <2>1. ASSUME NEW t \in Resource, NEW k \in 1 .. Len(journal'[t])
        PROVE  /\ journal'[t][k].type \in Telling
                    => <<Tells(journal'[t][k].type), journal'[t][k].subject>> \in nodes'
               /\ journal'[t][k].type = "validation_plan_created"
                    => <<"runtime-request", journal'[t][k].subject>> \in nodes'
    <3>1. CASE k \in 1 .. Len(journal[t]) /\ journal'[t][k] = journal[t][k]
      BY <1>0, <3>1 DEF Told
    <3>2. CASE t = s /\ k = Len(journal[s]) + 1 /\ journal'[t][k] = e
      BY <2>0, <3>2 DEF Proper
    <3>3. CASE journal'[t][k].type = "validation_requested"
      BY <3>3 DEF Telling
    <3> QED  BY <1>0, <2>0, <3>1, <3>2, <3>3, Places3
  <2>2. ASSUME NEW t \in Resource, NEW k \in 1 .. Len(journal'[t]),
               NEW n \in 1 .. Len(journal'[t]),
               journal'[t][k].type \in Telling, journal'[t][n].type = journal'[t][k].type,
               journal'[t][n].subject = journal'[t][k].subject
        PROVE  n = k
    <3>0. journal'[t][k].type # "validation_requested" /\ journal'[t][n].type # "validation_requested"
      BY <2>2 DEF Telling
    <3>1. CASE /\ k \in 1 .. Len(journal[t]) /\ journal'[t][k] = journal[t][k]
               /\ n \in 1 .. Len(journal[t]) /\ journal'[t][n] = journal[t][n]
      BY <2>2, <3>1 DEF Told
    <3>2. CASE /\ k \in 1 .. Len(journal[t]) /\ journal'[t][k] = journal[t][k]
               /\ t = s /\ n = Len(journal[s]) + 1 /\ journal'[t][n] = e
      <4>1. <<Tells(e.type), e.subject>> \in nodes
        BY <2>2, <3>2 DEF Told
      <4> QED  BY <2>0, <2>2, <3>2, <4>1 DEF Proper
    <3>3. CASE /\ n \in 1 .. Len(journal[t]) /\ journal'[t][n] = journal[t][n]
               /\ t = s /\ k = Len(journal[s]) + 1 /\ journal'[t][k] = e
      <4>1. <<Tells(e.type), e.subject>> \in nodes
        BY <2>2, <3>3 DEF Told
      <4> QED  BY <2>0, <2>2, <3>3, <4>1 DEF Proper
    <3>4. CASE t = s /\ k = Len(journal[s]) + 1 /\ n = Len(journal[s]) + 1
      BY <3>4
    <3> QED  BY <1>0, <2>0, <3>0, <3>1, <3>2, <3>3, <3>4, Places3
  <2> QED  BY <2>1, <2>2 DEF Told
<1> QED  BY <1>1, <1>2, JournalStep

LEMMA TaleKept ==
  ASSUME TypeOK, NEW s \in Resource, NEW e, Extends(s, e),
         NEW t \in Resource, NEW type, NEW subject
  PROVE  /\ Tale(t, type, subject) => Tale(t, type, subject)'
         /\ IsTold(t, subject, type, s, e) => Tale(t, type, subject)'
<1>1. Len(journal[t]) \in Nat /\ Len(journal'[t]) \in Nat /\ Len(journal'[t]) >= Len(journal[t])
  BY DEF TypeOK, Extends
<1>2. ASSUME Tale(t, type, subject)  PROVE Tale(t, type, subject)'
  <2>1. PICK k \in 1 .. Len(journal[t]) : journal[t][k].type = type /\ journal[t][k].subject = subject
    BY <1>2 DEF Tale
  <2>2. k \in 1 .. Len(journal'[t]) /\ journal'[t][k] = journal[t][k]
    BY <1>1, <2>1 DEF Extends
  <2> QED  BY <2>1, <2>2 DEF Tale
<1>3. ASSUME IsTold(t, subject, type, s, e)  PROVE Tale(t, type, subject)'
  <2>1. /\ Len(journal[t]) + 1 \in 1 .. Len(journal'[t])
        /\ journal'[t][Len(journal[t]) + 1] = e /\ e.type = type /\ e.subject = subject
    BY <1>1, <1>3 DEF Extends, IsTold
  <2> QED  BY <2>1 DEF Tale
<1> QED  BY <1>2, <1>3

LEMMA RecordedStep ==
  ASSUME State, Recorded, [Next]_vars
  PROVE  Recorded'
<1>0. TypeOK /\ TypeOK'
  BY TypeStep DEF State
<1>1. CASE Quiet
  BY <1>1 DEF Quiet, Recorded, Tale, registered
<1>2. ASSUME NEW s \in Resource, NEW e \in Event, Logs(s, e)
      PROVE  Recorded'
  <2>0. Extends(s, e) /\ Registers(s, e)
    BY <1>2 DEF Logs
  <2>1. \A q \in asked' : Tale(q.item, "runtime_change_requested", Id(q))'
    <3> TAKE q \in asked'
    <3>1. q.item \in Resource
      BY <1>0 DEF TypeOK, Request, Resource
    <3>2. \/ Tale(q.item, "runtime_change_requested", Id(q))
          \/ IsTold(q.item, Id(q), "runtime_change_requested", s, e)
      BY <2>0 DEF Registers, Recorded
    <3> QED  BY <1>0, <2>0, <3>1, <3>2, TaleKept DEF Id
  <2>2. \A p \in validated' : Tale(p.request.item, "validation_plan_created", Id(p.request))'
    <3> TAKE p \in validated'
    <3>1. p.request.item \in Resource
      BY <1>0 DEF TypeOK, Plan, Request, Resource
    <3>2. \/ Tale(p.request.item, "validation_plan_created", Id(p.request))
          \/ IsTold(p.request.item, Id(p.request), "validation_plan_created", s, e)
      BY <2>0 DEF Registers, Recorded
    <3> QED  BY <1>0, <2>0, <3>1, <3>2, TaleKept DEF Id
  <2>3. \A c \in patched' : Tale(c.request.item, "patch_plan_compiled", PatchId(c))'
    <3> TAKE c \in patched'
    <3>1. c.request.item \in Resource
      BY <1>0 DEF TypeOK, Compiled, Request, Resource
    <3>2. \/ Tale(c.request.item, "patch_plan_compiled", PatchId(c))
          \/ IsTold(c.request.item, PatchId(c), "patch_plan_compiled", s, e)
      BY <2>0 DEF Registers, Recorded
    <3> QED  BY <1>0, <2>0, <3>1, <3>2, TaleKept DEF PatchId
  <2>4. \A c \in executed' : Tale(c.executable, "patch_copy_executed", PatchId(c))'
    <3> TAKE c \in executed'
    <3>1. c.executable \in Resource
      BY <1>0 DEF TypeOK, Compiled, Resource
    <3>2. \/ Tale(c.executable, "patch_copy_executed", PatchId(c))
          \/ IsTold(c.executable, PatchId(c), "patch_copy_executed", s, e)
      BY <2>0 DEF Registers, Recorded
    <3> QED  BY <1>0, <2>0, <3>1, <3>2, TaleKept DEF PatchId
  <2> QED  BY <2>1, <2>2, <2>3, <2>4 DEF Recorded
<1> QED  BY <1>1, <1>2, JournalStep

LEMMA EntryIsEvent ==
  ASSUME TypeOK, NEW t \in Resource, NEW k \in 1 .. Len(journal[t])
  PROVE  journal[t][k] \in Event
<1>1. journal[t] \in Seq(Event)
  BY DEF TypeOK
<1> QED  BY <1>1

LEMMA AgedStep ==
  ASSUME State, Aged, [Next]_vars
  PROVE  Aged'
<1>0. TypeOK /\ TypeOK' /\ Item \subseteq Resource
  BY TypeStep DEF State, Resource
<1>i. \A i \in Item : working[i] \in Int
  BY <1>0 DEF TypeOK, NoCopy
<1>1. CASE Quiet
  <2> SUFFICES ASSUME NEW i \in Item, NEW k \in 1 .. Len(journal[i]),
                      journal[i][k].type = "runtime_change_requested",
                      ~ Between(journal[i], "working_copy_reset", k, Len(journal[i]) + 1),
                      working'[i] # working[i]
               PROVE  FALSE
    BY <1>1 DEF Quiet, Aged, Between
  <2>1. journal[i][k].revision <= working[i] /\ working[i] = NoCopy
    BY <1>1 DEF Quiet, Aged
  <2>2. journal[i][k].revision \in Nat
    BY <1>0, EntryIsEvent DEF Event
  <2> QED  BY <2>1, <2>2 DEF NoCopy
<1>2. ASSUME NEW s \in Resource, NEW e \in Event, Logs(s, e)
      PROVE  Aged'
  <2>0. Extends(s, e) /\ Proper(s, e)
    BY <1>2 DEF Logs
  <2> SUFFICES ASSUME NEW i \in Item, NEW k \in 1 .. Len(journal'[i]),
                      journal'[i][k].type = "runtime_change_requested"
               PROVE  (/\ journal[i][k].revision = journal[i][k].subject[2]
                       /\ ~ Between(journal[i], "working_copy_reset", k, Len(journal[i]) + 1) =>
                            /\ journal[i][k].revision <= working[i]
                            /\ Between(journal[i], "edit_applied", k, Len(journal[i]) + 1) =>
                                 journal[i][k].revision < working[i])'
    BY DEF Aged
  <2>r. i \in Resource /\ Len(journal[i]) \in Nat /\ Len(journal'[i]) \in Nat
    BY <1>0 DEF TypeOK
  <2>1. CASE k \in 1 .. Len(journal[i]) /\ journal'[i][k] = journal[i][k]
    <3>1. journal[i][k].revision = journal[i][k].subject[2] /\ journal[i][k].revision \in Nat
      BY <1>0, <2>1, <2>r, EntryIsEvent DEF Aged, Event
    <3>2. ASSUME ~ Between(journal'[i], "working_copy_reset", k, Len(journal'[i]) + 1)
          PROVE  /\ journal[i][k].revision <= working'[i]
                 /\ Between(journal'[i], "edit_applied", k, Len(journal'[i]) + 1) =>
                      journal[i][k].revision < working'[i]
      <4>k. k \in Nat
        BY <2>1, <2>r
      <4>1. ~ Between(journal[i], "working_copy_reset", k, Len(journal[i]) + 1)
        <5>1. \A type : Between(journal[i], type, k, Len(journal[i]) + 1)
                 => Between(journal'[i], type, k, Len(journal'[i]) + 1)
          BY <1>0, <2>0, <2>r, <4>k, BetweenKept
        <5> QED  BY <3>2, <5>1
      <4>2. ~ (i = s /\ e.type = "working_copy_reset")
        <5> SUFFICES ASSUME i = s, e.type = "working_copy_reset"  PROVE FALSE
          OBVIOUS
        <5>1. /\ Len(journal[i]) + 1 \in 1 .. Len(journal'[i])
              /\ journal'[i][Len(journal[i]) + 1].type = "working_copy_reset"
              /\ k < Len(journal[i]) + 1 /\ Len(journal[i]) + 1 < Len(journal'[i]) + 1
          BY <2>0, <2>1, <2>r DEF Extends
        <5> QED  BY <3>2, <5>1 DEF Between
      <4>3. working'[i] \in Int /\ working[i] \in Int
        <5>1. /\ working \in [Item -> Nat \union {NoCopy}]
              /\ working' \in [Item -> Nat \union {NoCopy}]
          BY <1>0 DEF TypeOK
        <5> QED  BY <1>i, <5>1 DEF NoCopy
      <4>4. /\ i # s \/ e.type # "edit_applied" => working'[i] = working[i]
            /\ i = s /\ e.type = "edit_applied" => working'[i] > working[i]
        BY <2>0, <4>2 DEF Proper
      <4>5. Between(journal'[i], "edit_applied", k, Len(journal'[i]) + 1)
              => Between(journal[i], "edit_applied", k, Len(journal[i]) + 1)
                 \/ (i = s /\ e.type = "edit_applied")
        <5>1. Between(journal'[i], "edit_applied", k, Len(journal'[i]) + 1)
                => \/ Between(journal[i], "edit_applied", k, Len(journal[i]) + 1)
                   \/ "edit_applied" = "validation_requested"
                   \/ i = s /\ "edit_applied" = e.type
          BY <1>0, <2>0, <2>r, <4>k, BetweenKept
        <5> QED  BY <5>1
      <4>6. /\ journal[i][k].revision <= working[i]
            /\ Between(journal[i], "edit_applied", k, Len(journal[i]) + 1) =>
                 journal[i][k].revision < working[i]
        BY <2>1, <4>1 DEF Aged
      <4> QED  BY <3>1, <4>3, <4>4, <4>5, <4>6
    <3> QED  BY <2>1, <3>1, <3>2
  <2>2. CASE i = s /\ k = Len(journal[s]) + 1 /\ journal'[i][k] = e
    <3>1. /\ e.subject[2] = e.revision /\ e.revision = working[i] /\ working'[i] = working[i]
      BY <2>0, <2>2 DEF Proper
    <3>2. ~ Between(journal'[i], "edit_applied", k, Len(journal'[i]) + 1)
      <4> SUFFICES ASSUME Between(journal'[i], "edit_applied", k, Len(journal'[i]) + 1)  PROVE FALSE
        OBVIOUS
      <4>1. PICK m \in 1 .. Len(journal'[i]) : k < m /\ journal'[i][m].type = "edit_applied"
        BY DEF Between
      <4>2. m \in (Len(journal[i]) + 1) .. Len(journal'[i]) /\ m # Len(journal[i]) + 1
        BY <2>2, <2>r, <4>1
      <4> QED  BY <2>0, <2>2, <2>r, <4>1, <4>2 DEF Extends
    <3>3. working[i] \in Int
      BY <1>i
    <3> QED  BY <2>2, <3>1, <3>2, <3>3
  <2>3. ~ journal'[i][k].type = "validation_requested"
    OBVIOUS
  <2> QED  BY <1>0, <2>0, <2>r, <2>1, <2>2, <2>3, Places3
<1> QED  BY <1>1, <1>2, JournalStep

LEMMA OrderedStep ==
  ASSUME State, Told, Aged, Ordered, [Next]_vars
  PROVE  Ordered'
<1>0. TypeOK /\ TypeOK' /\ Item \subseteq Resource
  BY TypeStep DEF State, Resource
<1>i. \A i \in Item : working[i] \in Int
  BY <1>0 DEF TypeOK, NoCopy
<1>1. CASE Quiet
  BY <1>1 DEF Quiet, Ordered, Between
<1>2. ASSUME NEW s \in Resource, NEW e \in Event, Logs(s, e)
      PROVE  Ordered'
  <2>0. Extends(s, e) /\ Proper(s, e)
    BY <1>2 DEF Logs
  <2> SUFFICES ASSUME NEW i \in Item, NEW k \in 1 .. Len(journal'[i]),
                      NEW n \in 1 .. Len(journal'[i]),
                      journal'[i][k].type = "runtime_change_requested",
                      journal'[i][n].type = "validation_plan_created",
                      journal'[i][n].subject = journal'[i][k].subject
               PROVE  /\ k < n
                      /\ Between(journal'[i], "edit_applied", k, n)
                           => Between(journal'[i], "working_copy_reset", k, n)
    BY DEF Ordered
  <2>r. i \in Resource /\ Len(journal[i]) \in Nat /\ Len(journal'[i]) \in Nat
    BY <1>0 DEF TypeOK
  <2>1. CASE /\ k \in 1 .. Len(journal[i]) /\ journal'[i][k] = journal[i][k]
             /\ n \in 1 .. Len(journal[i]) /\ journal'[i][n] = journal[i][n]
    <3>1. /\ k < n
          /\ Between(journal[i], "edit_applied", k, n) => Between(journal[i], "working_copy_reset", k, n)
      BY <2>1 DEF Ordered
    <3>2. n \in 1 .. (Len(journal[i]) + 1) /\ k \in Nat
      BY <2>1, <2>r
    <3>3. /\ Between(journal'[i], "edit_applied", k, n) <=> Between(journal[i], "edit_applied", k, n)
          /\ Between(journal'[i], "working_copy_reset", k, n) <=> Between(journal[i], "working_copy_reset", k, n)
      BY <1>0, <2>0, <2>r, <3>2, BetweenKept
    <3> QED  BY <3>1, <3>3
  <2>2. CASE /\ k \in 1 .. Len(journal[i]) /\ journal'[i][k] = journal[i][k]
             /\ i = s /\ n = Len(journal[s]) + 1 /\ journal'[i][n] = e
    <3>1. k < n /\ n \in 1 .. (Len(journal[i]) + 1) /\ k \in Nat
      BY <2>2, <2>r
    <3>2. ASSUME Between(journal'[i], "edit_applied", k, n)  PROVE Between(journal'[i], "working_copy_reset", k, n)
      <4>1. Between(journal[i], "edit_applied", k, n)
        BY <1>0, <2>0, <2>r, <3>1, <3>2, BetweenKept
      <4>2. Between(journal[i], "working_copy_reset", k, n)
        <5> SUFFICES ASSUME ~ Between(journal[i], "working_copy_reset", k, n)  PROVE FALSE
          OBVIOUS
        <5>1. journal[i][k].revision = journal[i][k].subject[2] /\ journal[i][k].revision < working[i]
          BY <2>2, <4>1 DEF Aged
        <5>2. e.subject[2] = working[i] /\ e.subject = journal[i][k].subject
          BY <2>0, <2>2 DEF Proper
        <5> QED  BY <5>1, <5>2, <1>i
      <4> QED  BY <1>0, <2>0, <2>r, <3>1, <4>2, BetweenKept
    <3> QED  BY <3>1, <3>2
  <2>3. CASE /\ n \in 1 .. Len(journal[i]) /\ journal'[i][n] = journal[i][n]
             /\ i = s /\ k = Len(journal[s]) + 1 /\ journal'[i][k] = e
    <3>1. <<"runtime-request", e.subject>> \in nodes
      BY <2>3, <2>r DEF Told
    <3>2. <<"runtime-request", e.subject>> \notin nodes
      BY <2>0, <2>3 DEF Proper, Telling, Tells
    <3> QED  BY <3>1, <3>2
  <2>4. ~ (journal'[i][k] = e /\ journal'[i][n] = e)
    OBVIOUS
  <2> QED  BY <1>0, <2>0, <2>r, <2>1, <2>2, <2>3, <2>4, Places3
<1> QED  BY <1>1, <1>2, JournalStep

-----------------------------------------------------------------------------

LEMMA InitHolds ==
  ASSUME Init
  PROVE  IInv
<1>1. TypeOK
  BY DEF Init, TypeOK, NoCopy
<1>2. Fresh /\ Shown /\ Paired /\ HeldWorkStaysGood
  BY DEF Init, Fresh, Shown, Paired, HeldWorkStaysGood, Resource
<1>3. ProvenanceIsConnected /\ Recorded
  BY DEF Init, ProvenanceIsConnected, Recorded
<1>4. \A s \in Resource : 1 .. Len(journal[s]) = {}
  BY DEF Init
<1>5. Told /\ Aged /\ Ordered
  BY <1>4 DEF Told, Aged, Ordered, Resource
<1> QED  BY <1>1, <1>2, <1>3, <1>5 DEF IInv, State

(***************************************************************************)
(* The inductive invariant: the types, what the registries and the graph   *)
(* have in common, and what the journals tell (project_workspace.cpp and   *)
(* its item, validation, patch and execution parts).                       *)
(***************************************************************************)
THEOREM WorkspaceInvariant == Spec => []IInv
<1>1. Init => IInv
  BY InitHolds
<1>2. IInv /\ [Next]_vars => IInv'
  <2> SUFFICES ASSUME IInv, [Next]_vars  PROVE IInv'
    OBVIOUS
  <2>1. State'
    BY TypeStep, FreshStep, ShownStep, PairedStep, HeldStep DEF IInv, State
  <2>2. ProvenanceIsConnected' /\ Told' /\ Recorded'
    BY ConnectedStep, ToldStep, RecordedStep DEF IInv
  <2>3. Aged' /\ Ordered'
    BY AgedStep, OrderedStep DEF IInv
  <2> QED  BY <2>1, <2>2, <2>3 DEF IInv
<1> QED  BY <1>1, <1>2, PTL DEF Spec

(***************************************************************************)
(* Every variable keeps its type; in particular what is registered is held *)
(* by a caller, and no revision falls below that of a missing copy.        *)
(***************************************************************************)
THEOREM TypeCorrect == Spec => []TypeOK
<1>1. IInv => TypeOK
  BY DEF IInv, State
<1> QED  BY <1>1, WorkspaceInvariant, PTL

(***************************************************************************)
(* No edge of a registered node is lost for want of a node, although every *)
(* caller drops what ProjectGraph::connect returns                         *)
(* (project_workspace_item.cpp:107, project_workspace_patch.cpp:99).       *)
(***************************************************************************)
THEOREM ProvenanceStaysConnected == Spec => []ProvenanceIsConnected
<1>1. IInv => ProvenanceIsConnected
  BY DEF IInv
<1> QED  BY <1>1, WorkspaceInvariant, PTL

(***************************************************************************)
(* A compiled patch and an executed copy that a caller holds can be        *)
(* registered however much was opened, edited or imported meanwhile.       *)
(***************************************************************************)
THEOREM HeldWorkIsGood == Spec => []HeldWorkStaysGood
<1>1. IInv => HeldWorkStaysGood
  BY DEF IInv, State
<1> QED  BY <1>1, WorkspaceInvariant, PTL

(***************************************************************************)
(* A tale told in the journals is told once.                               *)
(***************************************************************************)
LEMMA ToldOnce ==
  ASSUME Told, NEW s \in Resource, NEW type \in Telling, NEW subject, Tale(s, type, subject)
  PROVE  Once(s, type, subject)
<1>1. PICK k \in 1 .. Len(journal[s]) : journal[s][k].type = type /\ journal[s][k].subject = subject
  BY DEF Tale
<1>2. k \in Places(s, type) /\ k \in About(s, type, subject)
  BY <1>1 DEF Places, About
<1>3. \A n \in About(s, type, subject) : n = k
  <2> TAKE n \in About(s, type, subject)
  <2>1. n \in 1 .. Len(journal[s]) /\ journal[s][n].type = type /\ journal[s][n].subject = subject
    BY DEF Places, About
  <2> QED  BY <1>1, <2>1 DEF Told
<1> QED  BY <1>2, <1>3 DEF Once

(***************************************************************************)
(* Each registered node has exactly one event in the journal of its        *)
(* session, and no journal tells of a request or a plan the graph does not *)
(* have (project_workspace_item.cpp, _validation.cpp, _patch.cpp and       *)
(* _execution.cpp write node and event in one call).                       *)
(***************************************************************************)
THEOREM JournalsAccount == Spec => []JournalAccountsForNodes
<1>1. IInv => JournalAccountsForNodes
  <2> SUFFICES ASSUME IInv  PROVE JournalAccountsForNodes
    OBVIOUS
  <2>0. TypeOK /\ Told /\ Recorded
    BY DEF IInv, State
  <2>1. \A q \in asked : Once(q.item, "runtime_change_requested", Id(q))
    <3> TAKE q \in asked
    <3>1. q.item \in Resource
      BY <2>0 DEF TypeOK, Request, Resource
    <3> QED  BY <2>0, <3>1, ToldOnce DEF Recorded, Telling
  <2>2. \A p \in validated : Once(p.request.item, "validation_plan_created", Id(p.request))
    <3> TAKE p \in validated
    <3>1. p.request.item \in Resource
      BY <2>0 DEF TypeOK, Plan, Request, Resource
    <3> QED  BY <2>0, <3>1, ToldOnce DEF Recorded, Telling
  <2>3. \A c \in patched : Once(c.request.item, "patch_plan_compiled", PatchId(c))
    <3> TAKE c \in patched
    <3>1. c.request.item \in Resource
      BY <2>0 DEF TypeOK, Compiled, Request, Resource
    <3> QED  BY <2>0, <3>1, ToldOnce DEF Recorded, Telling
  <2>4. \A c \in executed : Once(c.executable, "patch_copy_executed", PatchId(c))
    <3> TAKE c \in executed
    <3>1. c.executable \in Resource
      BY <2>0 DEF TypeOK, Compiled, Resource
    <3> QED  BY <2>0, <3>1, ToldOnce DEF Recorded, Telling
  <2>5. ASSUME NEW q \in requests, NEW i \in Item
        PROVE  /\ RequestNode(q) \notin nodes => Never(i, "runtime_change_requested", Id(q))
               /\ PlanNode(q) \notin nodes => Never(i, "validation_plan_created", Id(q))
    <3>0. i \in Resource
      BY DEF Resource
    <3>1. ASSUME RequestNode(q) \notin nodes, NEW k \in About(i, "runtime_change_requested", Id(q))
          PROVE  FALSE
      <4>1. /\ k \in 1 .. Len(journal[i]) /\ journal[i][k].type = "runtime_change_requested"
            /\ journal[i][k].subject = Id(q)
        BY <3>1 DEF About, Places
      <4> QED  BY <2>0, <3>0, <3>1, <4>1 DEF Told, Telling, Tells, RequestNode
    <3>2. ASSUME PlanNode(q) \notin nodes, NEW k \in About(i, "validation_plan_created", Id(q))
          PROVE  FALSE
      <4>1. /\ k \in 1 .. Len(journal[i]) /\ journal[i][k].type = "validation_plan_created"
            /\ journal[i][k].subject = Id(q)
        BY <3>2 DEF About, Places
      <4> QED  BY <2>0, <3>0, <3>2, <4>1 DEF Told, Telling, Tells, PlanNode
    <3> QED  BY <3>1, <3>2 DEF Never
  <2> QED  BY <2>1, <2>2, <2>3, <2>4, <2>5 DEF JournalAccountsForNodes
<1> QED  BY <1>1, WorkspaceInvariant, PTL

(***************************************************************************)
(* A request and its validation plan in one journal are about the same     *)
(* bytes, unless the item was reset in between                             *)
(* (project_workspace_validation.cpp:54).                                  *)
(***************************************************************************)
THEOREM PlansSeeTheBytes == Spec => []PlanSeesTheRequestedBytes
<1>1. IInv => PlanSeesTheRequestedBytes
  <2> SUFFICES ASSUME IInv, NEW p \in validated,
                      NEW k \in About(p.request.item, "runtime_change_requested", Id(p.request)),
                      NEW n \in About(p.request.item, "validation_plan_created", Id(p.request))
               PROVE  /\ k < n
                      /\ \A m \in Places(p.request.item, "edit_applied") :
                           k < m /\ m < n =>
                             \E z \in Places(p.request.item, "working_copy_reset") : k < z /\ z < n
    BY DEF PlanSeesTheRequestedBytes
  <2> DEFINE i == p.request.item
  <2>0. i \in Item
    BY DEF IInv, State, TypeOK, Plan, Request
  <2>1. /\ k \in 1 .. Len(journal[i]) /\ n \in 1 .. Len(journal[i])
        /\ journal[i][k].type = "runtime_change_requested"
        /\ journal[i][n].type = "validation_plan_created"
        /\ journal[i][n].subject = journal[i][k].subject
    BY DEF About, Places
  <2>2. /\ k < n
        /\ Between(journal[i], "edit_applied", k, n) => Between(journal[i], "working_copy_reset", k, n)
    <3> HIDE DEF i
    <3> QED  BY <2>0, <2>1 DEF IInv, Ordered
  <2> QED  BY <2>2 DEF Between, Places
<1> QED  BY <1>1, WorkspaceInvariant, PTL

=============================================================================
