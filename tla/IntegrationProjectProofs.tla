----------------------- MODULE IntegrationProjectProofs -----------------------
(***************************************************************************)
(* Theorems about IntegrationProject, for every universe of packages and   *)
(* every order of calls.  The strengthening the gates need is that what    *)
(* the dependency analysis concluded stays true: its verdict is a function *)
(* of a selection that no longer changes.                                  *)
(***************************************************************************)
EXTENDS IntegrationProject, TLAPS

Satisfied(sel) == \A i \in DependencyIssues(sel) : ~i.blocking

Late == stage >= DependencyChecked

VerdictInv ==
  /\ gates["dependency_check"].by = "analysis" =>
       (gates["dependency_check"].passed <=> Satisfied(selected))
  /\ Late /\ "dependency_check" \notin vouched => Satisfied(selected)

-----------------------------------------------------------------------------
(* Types. *)

\* Appending a package to a selection adds just this package.
LEMMA ChosenAppend ==
  ASSUME NEW sel \in Seq(Package), NEW p \in Package
  PROVE  /\ Append(sel, p) \in Seq(Package)
         /\ Chosen(Append(sel, p)) = Chosen(sel) \union {p}
<1>1. Append(sel, p) \in Seq(Package)
  OBVIOUS
<1>2. DOMAIN Append(sel, p) = (DOMAIN sel) \union {Len(sel) + 1}
  OBVIOUS
<1>3. \A k \in DOMAIN sel : Append(sel, p)[k] = sel[k]
  OBVIOUS
<1>4. Append(sel, p)[Len(sel) + 1] = p
  OBVIOUS
<1> QED
  BY <1>1, <1>2, <1>3, <1>4 DEF Chosen

\* Whatever is selected is a package.
LEMMA ChosenIsPackage ==
  ASSUME NEW sel \in Seq(Package)
  PROVE  Chosen(sel) \subseteq PackageType
<1>1. \A k \in DOMAIN sel : sel[k] \in Package
  OBVIOUS
<1> QED
  BY <1>1, PackageAssumption DEF Chosen

\* The dependency analysis produces well-formed issues.
LEMMA IssuesType ==
  ASSUME NEW sel \in Seq(Package)
  PROVE  DependencyIssues(sel) \subseteq [owner: Id, on: Id, blocking: BOOLEAN]
<1> SUFFICES ASSUME NEW i \in DependencyIssues(sel)
             PROVE  i \in [owner: Id, on: Id, blocking: BOOLEAN]
  OBVIOUS
<1>1. PICK p \in Chosen(sel) : \E d \in p.dependencies :
        i = [owner |-> p.id, on |-> d.on, blocking |-> d.mandatory]
  BY DEF DependencyIssues
<1> PICK d \in p.dependencies :
        i = [owner |-> p.id, on |-> d.on, blocking |-> d.mandatory]
  BY <1>1
<1>2. p \in PackageType
  BY ChosenIsPackage
<1>3. p.id \in Id /\ p.dependencies \subseteq Dependency
  BY <1>2 DEF PackageType
<1>4. d.on \in Id /\ d.mandatory \in BOOLEAN
  BY <1>3 DEF Dependency
<1> QED
  BY <1>1, <1>3, <1>4

\* The conflict analysis produces well-formed identifiers.
LEMMA ConflictIdsType ==
  ASSUME NEW sel \in Seq(Package)
  PROVE  ConflictIds(sel) \subseteq ConflictIdType
<1> USE DEF ConflictIdType
<1>1. ASSUME NEW p \in PackageType, NEW c \in Declared(p, sel)
      PROVE  c \in ConflictIdType
  <2>1. PICK d \in p.declares : c = Conflict(p, d.on, "declared", d.class)
    BY <1>1 DEF Declared
  <2>2. p.id \in Id /\ d \in Declaration
    BY <2>1, <1>1 DEF PackageType
  <2>3. d.on \in Id /\ d.class \in Subject
    BY <2>2 DEF Declaration
  <2>4. {p.id, d.on} \in SUBSET Id
    BY <2>2, <2>3
  <2> QED
    BY <2>1, <2>3, <2>4 DEF Conflict
<1>2. ASSUME NEW p \in PackageType, NEW q \in PackageType, NEW c \in Overlaps(p, q)
      PROVE  c \in ConflictIdType
  <2>1. p.symbols \subseteq Subject /\ p.keys \subseteq Subject
        /\ p.sources \subseteq [path: Subject, result: Result]
    BY <1>2 DEF PackageType
  <2>2. PICK origin \in {"symbol", "configuration", "path"}, s \in Subject :
          c = Conflict(p, q.id, origin, s)
    <3>1. CASE \E s \in p.symbols : c = Conflict(p, q.id, "symbol", s)
      BY <3>1, <2>1
    <3>2. CASE \E k \in p.keys : c = Conflict(p, q.id, "configuration", k)
      BY <3>2, <2>1
    <3>3. CASE \E u \in p.sources : c = Conflict(p, q.id, "path", u.path)
      <4>1. PICK u \in p.sources : c = Conflict(p, q.id, "path", u.path)
        BY <3>3
      <4>2. u.path \in Subject
        BY <2>1
      <4> QED
        BY <4>1, <4>2
    <3> QED
      BY <1>2, <3>1, <3>2, <3>3 DEF Overlaps
  <2>3. p.id \in Id /\ q.id \in Id
    BY DEF PackageType
  <2>4. {p.id, q.id} \in SUBSET Id
    BY <2>3
  <2> QED
    BY <2>2, <2>4 DEF Conflict
<1>3. \A p \in Chosen(sel) : p \in PackageType
  BY ChosenIsPackage
<1>4. \A k \in DOMAIN sel : sel[k] \in Chosen(sel)
  BY DEF Chosen
<1> QED
  <2> SUFFICES ASSUME NEW c \in ConflictIds(sel)
               PROVE  c \in ConflictIdType
    OBVIOUS
  <2>1. CASE \E p \in Chosen(sel) : c \in Declared(p, sel)
    BY <2>1, <1>1, <1>3
  <2>2. CASE \E i, j \in DOMAIN sel : c \in Overlaps(sel[i], sel[j])
    BY <2>2, <1>2, <1>3, <1>4
  <2>3. \A i \in DOMAIN sel : i + 1 .. Len(sel) \subseteq DOMAIN sel
    OBVIOUS
  <2> QED
    BY <2>1, <2>2, <2>3 DEF ConflictIds

\* A fresh register is well formed and leaves every conflict undecided.
LEMMA AnalysedType ==
  ASSUME NEW sel \in Seq(Package)
  PROVE  /\ DOMAIN Analysed(sel) \subseteq ConflictIdType
         /\ Analysed(sel) \in [DOMAIN Analysed(sel) -> ConflictType]
         /\ \A c \in DOMAIN Analysed(sel) : Analysed(sel)[c].status = "unresolved"
<1>1. DOMAIN Analysed(sel) = ConflictIds(sel)
  BY DEF Analysed
<1>2. \A c \in ConflictIds(sel) : Blocking(c, sel) \in BOOLEAN
  BY DEF Blocking
<1>3. \A c \in ConflictIds(sel) : Analysed(sel)[c] \in ConflictType
  BY <1>2 DEF Analysed, ConflictType
<1> QED
  BY <1>1, <1>3, ConflictIdsType DEF Analysed

LEMMA TypeInit == Init => TypeOK
<1> SUFFICES ASSUME Init PROVE TypeOK
  OBVIOUS
<1>1. stage \in Draft .. Maintaining
  BY DEF Init, Draft, Maintaining
<1>2. selected \in Seq(Package)
  BY DEF Init
<1>3. /\ DOMAIN conflicts \subseteq ConflictIdType
      /\ conflicts \in [DOMAIN conflicts -> ConflictType]
  BY DEF Init
<1>4. gates \in [GateKind -> Gate \union {NoGate}]
  BY DEF Init
<1> QED
  BY <1>1, <1>2, <1>3, <1>4 DEF Init, TypeOK

LEMMA TypeNext == TypeOK /\ [Next]_vars => TypeOK'
<1> SUFFICES ASSUME TypeOK, [Next]_vars
             PROVE  TypeOK'
  OBVIOUS
<1> USE DEF TypeOK, Draft, Maintaining
<1>1. CASE ConfigureGovernance
  BY <1>1 DEF ConfigureGovernance
<1>2. ASSUME NEW p \in Package, SelectModification(p)
      PROVE  TypeOK'
  <2>1. selected' \in Seq(Package)
    BY <1>2, ChosenAppend DEF SelectModification
  <2>2. gates' \in [GateKind -> Gate \union {NoGate}]
    BY <1>2 DEF SelectModification, Forgotten
  <2>3. DOMAIN conflicts' = {} /\ conflicts' \in [DOMAIN conflicts' -> ConflictType]
    BY <1>2 DEF SelectModification
  <2>4. issues' = {} /\ decisions' = {}
    BY <1>2 DEF SelectModification
  <2> QED
    BY <1>2, <2>1, <2>2, <2>3, <2>4 DEF SelectModification
<1>3. CASE AnalyzeDependencies
  <2>1. issues' \subseteq [owner: Id, on: Id, blocking: BOOLEAN]
    BY <1>3, IssuesType DEF AnalyzeDependencies
  <2>2. gates' \in [GateKind -> Gate \union {NoGate}]
    <3> DEFINE ok == \A i \in DependencyIssues(selected) : ~i.blocking
    <3>1. [passed |-> ok, by |-> "analysis"] \in Gate
      BY DEF Gate
    <3> HIDE DEF ok
    <3>2. gates' = [gates EXCEPT !["dependency_check"] =
                      [passed |-> ok, by |-> "analysis"]]
      BY <1>3 DEF AnalyzeDependencies, ok
    <3> QED
      BY <3>1, <3>2
  <2> QED
    BY <1>3, <2>1, <2>2 DEF AnalyzeDependencies
<1>4. CASE AnalyzeConflicts
  <2>1. /\ DOMAIN conflicts' \subseteq ConflictIdType
        /\ conflicts' \in [DOMAIN conflicts' -> ConflictType]
    BY <1>4, AnalysedType DEF AnalyzeConflicts
  <2>2. gates' \in [GateKind -> Gate \union {NoGate}]
    BY <1>4 DEF AnalyzeConflicts, Gate
  <2>3. reopened' \in BOOLEAN
    BY <1>4 DEF AnalyzeConflicts
  <2> QED
    BY <1>4, <2>1, <2>2, <2>3 DEF AnalyzeConflicts, DecisionsAfterAnalysis
<1>5. ASSUME NEW c \in DOMAIN conflicts, NEW s \in Resolution, NEW d \in DecisionId,
             NEW affected \in SUBSET DOMAIN conflicts,
             ResolveConflict(c, s, d, affected)
      PROVE  TypeOK'
  <2>1. conflicts[c] \in ConflictType
    OBVIOUS
  <2>2. Settled(conflicts[c], s, d) \in ConflictType
    BY <2>1 DEF Settled, ConflictType
  <2>3. conflicts' = [conflicts EXCEPT ![c] = Settled(conflicts[c], s, d)]
    BY <1>5 DEF ResolveConflict
  <2>4. /\ DOMAIN conflicts' = DOMAIN conflicts
        /\ conflicts' \in [DOMAIN conflicts -> ConflictType]
    BY <2>2, <2>3
  <2>5. [id |-> d, affected |-> affected] \in
          [id: DecisionId, affected: SUBSET ConflictIdType]
    OBVIOUS
  <2>6. decisions' \subseteq [id: DecisionId, affected: SUBSET ConflictIdType]
    BY <1>5, <2>5 DEF ResolveConflict
  <2> QED
    BY <1>5, <2>4, <2>6 DEF ResolveConflict
<1>6. ASSUME NEW k \in GateKind, NEW passed \in BOOLEAN, RecordGate(k, passed)
      PROVE  TypeOK'
  <2>1. [passed |-> passed, by |-> "caller"] \in Gate
    BY DEF Gate
  <2>2. gates' \in [GateKind -> Gate \union {NoGate}]
    BY <1>6, <2>1 DEF RecordGate
  <2> QED
    BY <1>6, <2>2 DEF RecordGate
<1>7. CASE Transition
  BY <1>7 DEF Transition
<1>8. ASSUME NEW f \in FailureState, Fail(f)
      PROVE  TypeOK'
  BY <1>8 DEF Fail
<1>9. CASE UNCHANGED vars
  BY <1>9 DEF vars
<1> QED
  BY <1>1, <1>2, <1>3, <1>4, <1>5, <1>6, <1>7, <1>8, <1>9 DEF Next

(***************************************************************************)
(* Every state the project reaches is well formed, including the rule of   *)
(* ConflictRecord::valid (integration_project.cpp:130-143) that a conflict *)
(* names a decision exactly when one settled it.                           *)
(***************************************************************************)
THEOREM TypeCorrect == Spec => []TypeOK
BY TypeInit, TypeNext, PTL DEF Spec

-----------------------------------------------------------------------------
(* Gates and verdicts. *)

GateInv == TypeOK /\ GatesBehindState /\ VerdictInv

LEMMA GateInit == Init => GatesBehindState /\ VerdictInv
BY DEF Init, GatesBehindState, VerdictInv, Late, Draft, DependencyChecked, NoGate, GateKind

\* A call that keeps the position, the selection and the vouched analyses,
\* and takes no passed gate back, keeps what stands behind the state.
LEMMA GatesKeptBehind ==
  ASSUME GatesBehindState, stage' = stage, vouched' = vouched,
         \A s \in 1 .. stage : \A k \in Required(s) :
           gates[k].passed => gates'[k].passed \/ k \in vouched \intersect {"dependency_check"}
  PROVE  GatesBehindState'
BY DEF GatesBehindState

\* The gates a state asks for are kinds of gates.
LEMMA RequiredKinds ==
  /\ \A s \in Int : Required(s) \subseteq GateKind
  /\ \A s \in Int : "dependency_check" \in Required(s) => s = DependencyChecked
  /\ \A s \in Int : s < DependencyChecked => Required(s) = {}
  /\ "dependency_check" \in Required(DependencyChecked)
BY DEF Required, GateKind, DependencyChecked, ConflictAnalysis

LEMMA GateNext == GateInv /\ [Next]_vars => GatesBehindState' /\ VerdictInv'
<1> SUFFICES ASSUME TypeOK, GatesBehindState, VerdictInv, [Next]_vars
             PROVE  GatesBehindState' /\ VerdictInv'
  BY DEF GateInv
<1> USE DEF Draft, ModificationsSelected, DependencyChecked
<1>0. /\ stage \in 0 .. 12
      /\ gates \in [GateKind -> Gate \union {NoGate}]
      /\ "dependency_check" \in GateKind /\ "conflict_analysis" \in GateKind
  BY DEF TypeOK, GateKind, Maintaining
<1>1. CASE ConfigureGovernance
  BY <1>1 DEF ConfigureGovernance, GatesBehindState, VerdictInv, Satisfied, Late
<1>2. ASSUME NEW p \in Package, SelectModification(p)
      PROVE  GatesBehindState' /\ VerdictInv'
  <2>1. stage' = stage /\ stage < 2 /\ gates' = [k \in GateKind |-> NoGate]
    BY <1>0, <1>2 DEF SelectModification, MayAdd, Forgotten
  <2>2. GatesBehindState'
    BY <1>0, <2>1, RequiredKinds DEF GatesBehindState
  <2>3. gates'["dependency_check"].by # "analysis" /\ ~Late'
    BY <1>0, <2>1 DEF NoGate, Late
  <2> QED
    BY <2>2, <2>3 DEF VerdictInv
<1>3. CASE AnalyzeDependencies
  <2>1. /\ stage' = stage /\ vouched' = vouched /\ selected' = selected
        /\ gates' = [gates EXCEPT !["dependency_check"] =
                       [passed |-> Satisfied(selected), by |-> "analysis"]]
    BY <1>3 DEF AnalyzeDependencies, Satisfied
  <2>2. /\ gates'["dependency_check"].passed = Satisfied(selected)
        /\ \A k \in GateKind : k # "dependency_check" => gates'[k] = gates[k]
    BY <1>0, <2>1
  <2>3. Satisfied(selected)' = Satisfied(selected)
    BY <2>1 DEF Satisfied
  <2>4. VerdictInv'
    BY <2>1, <2>2, <2>3 DEF VerdictInv, Late
  <2>5. ASSUME NEW s \in 1 .. stage, NEW k \in Required(s), gates[k].passed
        PROVE  gates'[k].passed \/ k \in vouched \intersect {"dependency_check"}
    <3>1. k \in GateKind
      BY RequiredKinds
    <3>2. CASE k # "dependency_check"
      BY <2>2, <2>5, <3>1, <3>2
    <3>3. CASE k = "dependency_check"
      <4>1. stage >= 2
        BY <1>0, <3>3, RequiredKinds
      <4> QED
        BY <2>2, <3>3, <4>1 DEF VerdictInv, Late
    <3> QED
      BY <3>2, <3>3
  <2> QED
    BY <2>1, <2>4, <2>5, GatesKeptBehind
<1>4. CASE AnalyzeConflicts
  <2>1. /\ stage' = stage /\ vouched' = vouched /\ selected' = selected
        /\ gates' = [gates EXCEPT !["conflict_analysis"] =
                       [passed |-> TRUE, by |-> "analysis"]]
    BY <1>4 DEF AnalyzeConflicts
  <2>2. /\ gates'["conflict_analysis"].passed
        /\ \A k \in GateKind : k # "conflict_analysis" => gates'[k] = gates[k]
    BY <1>0, <2>1
  <2>3. VerdictInv'
    BY <1>0, <2>1, <2>2 DEF VerdictInv, Late, Satisfied
  <2>4. \A s \in 1 .. stage : \A k \in Required(s) :
          gates[k].passed => gates'[k].passed
    BY <2>2, RequiredKinds
  <2> QED
    BY <2>1, <2>3, <2>4, GatesKeptBehind
<1>5. ASSUME NEW c \in DOMAIN conflicts, NEW s \in Resolution, NEW d \in DecisionId,
             NEW affected \in SUBSET DOMAIN conflicts,
             ResolveConflict(c, s, d, affected)
      PROVE  GatesBehindState' /\ VerdictInv'
  BY <1>5 DEF ResolveConflict, GatesBehindState, VerdictInv, Satisfied, Late
<1>6. ASSUME NEW kind \in GateKind, NEW passed \in BOOLEAN, RecordGate(kind, passed)
      PROVE  GatesBehindState' /\ VerdictInv'
  <2>1. /\ stage' = stage /\ vouched' = vouched /\ selected' = selected
        /\ ~gates[kind].passed
        /\ gates' = [gates EXCEPT ![kind] = [passed |-> passed, by |-> "caller"]]
    BY <1>6 DEF RecordGate, NoGate
  <2>2. /\ gates'[kind].by = "caller"
        /\ \A k \in GateKind : k # kind => gates'[k] = gates[k]
    BY <1>0, <2>1
  <2>3. VerdictInv'
    <3>1. gates'["dependency_check"].by = "analysis" =>
            gates'["dependency_check"] = gates["dependency_check"]
      BY <1>0, <2>2
    <3> QED
      BY <2>1, <3>1 DEF VerdictInv, Late, Satisfied
  <2>4. \A s \in 1 .. stage : \A k \in Required(s) :
          gates[k].passed => gates'[k].passed
    BY <2>1, <2>2, RequiredKinds
  <2> QED
    BY <2>1, <2>3, <2>4, GatesKeptBehind
<1>7. CASE Transition
  <2>1. /\ stage' = stage + 1 /\ gates' = gates /\ selected' = selected
        /\ vouched \subseteq vouched'
        /\ \A k \in Required(stage + 1) : gates[k].passed
    BY <1>7 DEF Transition, TransitionAllowed
  <2>2. GatesBehindState'
    <3> SUFFICES ASSUME NEW s \in 1 .. stage + 1, NEW k \in Required(s)
                 PROVE  gates[k].passed \/ k \in vouched' \intersect {"dependency_check"}
      BY <2>1 DEF GatesBehindState
    <3>1. CASE s = stage + 1
      BY <2>1, <3>1
    <3>2. CASE s \in 1 .. stage
      BY <2>1, <3>2 DEF GatesBehindState
    <3> QED
      BY <1>0, <3>1, <3>2
  <2>3. Late' /\ "dependency_check" \notin vouched' => Satisfied(selected)
    <3> SUFFICES ASSUME Late', "dependency_check" \notin vouched'
                 PROVE  Satisfied(selected)
      OBVIOUS
    <3>1. CASE Late
      BY <2>1, <3>1 DEF VerdictInv
    <3>2. CASE ~Late
      <4>1. stage + 1 = 2
        BY <1>0, <2>1, <3>2 DEF Late
      <4>2. "dependency_check" \in Required(stage + 1)
        BY <4>1, RequiredKinds
      <4>3. gates["dependency_check"].by # "caller"
        BY <1>7, <4>2 DEF Transition
      <4>4. gates["dependency_check"].passed
        BY <2>1, <4>2
      <4>5. gates["dependency_check"].by = "analysis"
        BY <1>0, <4>3, <4>4 DEF Gate, NoGate
      <4> QED
        BY <4>4, <4>5 DEF VerdictInv
    <3> QED
      BY <3>1, <3>2
  <2>4. VerdictInv'
    BY <2>1, <2>3 DEF VerdictInv, Satisfied
  <2> QED
    BY <2>2, <2>4
<1>8. ASSUME NEW f \in FailureState, Fail(f)
      PROVE  GatesBehindState' /\ VerdictInv'
  BY <1>8 DEF Fail, GatesBehindState, VerdictInv, Satisfied, Late
<1>9. CASE UNCHANGED vars
  BY <1>9 DEF vars, GatesBehindState, VerdictInv, Satisfied, Late
<1> QED
  BY <1>1, <1>2, <1>3, <1>4, <1>5, <1>6, <1>7, <1>8, <1>9 DEF Next

\* A report without blocking issues means that mandatory dependencies are met.
LEMMA SatisfiedMeansMet ==
  ASSUME NEW sel, Satisfied(sel)
  PROVE  \A p \in Chosen(sel) : \A d \in p.dependencies :
           d.mandatory =>
             \E q \in Chosen(sel) :
               q.id = d.on /\ (d.constraint = AnyVersion \/ d.constraint = q.version)
<1> SUFFICES ASSUME NEW p \in Chosen(sel), NEW d \in p.dependencies, d.mandatory,
                    ~ \E q \in Chosen(sel) :
                        q.id = d.on /\ Matches(d.constraint, q.version)
             PROVE  FALSE
  BY DEF Matches
<1> DEFINE missing(r) == {e \in r.dependencies :
                            ~ \E q \in Chosen(sel) :
                                q.id = e.on /\ Matches(e.constraint, q.version)}
           issue(r, e) == [owner |-> r.id, on |-> e.on, blocking |-> e.mandatory]
<1>0. DependencyIssues(sel) = UNION {{issue(r, e) : e \in missing(r)} : r \in Chosen(sel)}
  BY DEF DependencyIssues
<1>1. issue(p, d) \in DependencyIssues(sel)
  <2>1. d \in missing(p)
    OBVIOUS
  <2> HIDE DEF missing, issue
  <2> QED
    BY <1>0, <2>1
<1>2. ~ [owner |-> p.id, on |-> d.on, blocking |-> d.mandatory].blocking
  BY <1>1 DEF Satisfied
<1> QED
  BY <1>2

(***************************************************************************)
(* However selections, analyses, recordings and transitions interleave,    *)
(* the gates of transition_allowed (integration_project.cpp:647-704) stand *)
(* passed behind the state they let the project into, and past             *)
(* DEPENDENCY_CHECKED analysed dependencies are met, for every universe of *)
(* packages: the strengthening is VerdictInv, the verdict's agreement with *)
(* a selection that cannot change any more.                                *)
(***************************************************************************)
THEOREM StateStaysEarned == Spec => []StateIsEarned
<1>1. Init => GateInv
  BY TypeInit, GateInit DEF GateInv
<1>2. GateInv /\ [Next]_vars => GateInv'
  BY TypeNext, GateNext DEF GateInv
<1>3. GateInv => StateIsEarned
  <2>1. GateInv => CheckedMeansSatisfied
    BY SatisfiedMeansMet DEF GateInv, VerdictInv, Late, CheckedMeansSatisfied
  <2> QED
    BY <2>1 DEF GateInv, StateIsEarned
<1> QED
  BY <1>1, <1>2, <1>3, PTL DEF Spec

-----------------------------------------------------------------------------
(* Decisions and open conflicts. *)

LEMMA DecisionsInit == Init => DecisionsSettleConflicts /\ OnlyReanalysisReopensConflicts
BY DEF Init, DecisionsSettleConflicts, OnlyReanalysisReopensConflicts, Draft, Integrating

SettledOnes == {c \in DOMAIN conflicts : conflicts[c].status # "unresolved"}

\* A resolution adds one settled conflict and one decision, and pairs them.
LEMMA ResolveSettles ==
  ASSUME TypeOK, DecisionsSettleConflicts,
         NEW c \in DOMAIN conflicts, NEW s \in Resolution, NEW d \in DecisionId,
         NEW affected \in SUBSET DOMAIN conflicts, ResolveConflict(c, s, d, affected)
  PROVE  DecisionsSettleConflicts'
<1>1. /\ DOMAIN conflicts' = DOMAIN conflicts
      /\ conflicts'[c] = Settled(conflicts[c], s, d)
      /\ \A e \in DOMAIN conflicts : e # c => conflicts'[e] = conflicts[e]
  BY DEF ResolveConflict, TypeOK
<1>2. conflicts'[c].status = s /\ conflicts'[c].decision = d /\ s # "unresolved"
  <2>1. conflicts[c] \in ConflictType
    BY DEF TypeOK
  <2> QED
    BY <1>1, <2>1 DEF Settled, ConflictType, Resolution
<1>3. SettledOnes' = SettledOnes \union {c} /\ c \notin SettledOnes
  BY <1>1, <1>2 DEF SettledOnes, ResolveConflict
<1>4. /\ decisions' = decisions \union {[id |-> d, affected |-> affected]}
      /\ c \in affected /\ \A e \in decisions : e.id # d
  BY DEF ResolveConflict
<1>5. /\ \A e \in SettledOnes : \E x \in decisions :
            x.id = conflicts[e].decision /\ e \in x.affected
      /\ \A e1, e2 \in SettledOnes :
            conflicts[e1].decision = conflicts[e2].decision => e1 = e2
      /\ \A x \in decisions : \E e \in SettledOnes : conflicts[e].decision = x.id
  BY DEF DecisionsSettleConflicts, SettledOnes
<1>6. \A e \in SettledOnes : e # c /\ conflicts'[e] = conflicts[e]
  BY <1>1, <1>3 DEF SettledOnes
<1>7. \A e \in SettledOnes' : \E x \in decisions' :
        x.id = conflicts'[e].decision /\ e \in x.affected
  <2>1. [id |-> d, affected |-> affected] \in decisions' /\ c \in affected
    BY <1>4
  <2>2. \E x \in decisions' : x.id = conflicts'[c].decision /\ c \in x.affected
    BY <1>2, <2>1
  <2>3. \A e \in SettledOnes : \E x \in decisions' :
          x.id = conflicts'[e].decision /\ e \in x.affected
    BY <1>4, <1>5, <1>6
  <2> QED
    BY <1>3, <2>2, <2>3
<1>8. \A e1, e2 \in SettledOnes' :
        conflicts'[e1].decision = conflicts'[e2].decision => e1 = e2
  <2>1. \A e \in SettledOnes : conflicts'[e].decision # d
    BY <1>4, <1>5, <1>6
  <2> QED
    BY <1>2, <1>3, <1>5, <1>6, <2>1
<1>9. \A x \in decisions' : \E e \in SettledOnes' : conflicts'[e].decision = x.id
  BY <1>2, <1>3, <1>4, <1>5, <1>6
<1> QED
  BY <1>7, <1>8, <1>9 DEF DecisionsSettleConflicts, SettledOnes

LEMMA DecisionsNext == TypeOK /\ DecisionsSettleConflicts /\ [Next]_vars => DecisionsSettleConflicts'
<1> SUFFICES ASSUME TypeOK, DecisionsSettleConflicts, [Next]_vars
             PROVE  DecisionsSettleConflicts'
  OBVIOUS
<1>1. CASE UNCHANGED <<conflicts, decisions>>
  BY <1>1 DEF DecisionsSettleConflicts
<1>2. ASSUME NEW p \in Package, SelectModification(p)
      PROVE  DecisionsSettleConflicts'
  BY <1>2 DEF SelectModification, DecisionsSettleConflicts
<1>3. CASE AnalyzeConflicts
  <2>1. selected \in Seq(Package)
    BY DEF TypeOK
  <2>2. decisions' = {} /\ \A c \in DOMAIN conflicts' : conflicts'[c].status = "unresolved"
    BY <1>3, <2>1, AnalysedType DEF AnalyzeConflicts, DecisionsAfterAnalysis
  <2> QED
    BY <2>2 DEF DecisionsSettleConflicts
<1>4. ASSUME NEW c \in DOMAIN conflicts, NEW s \in Resolution, NEW d \in DecisionId,
             NEW affected \in SUBSET DOMAIN conflicts,
             ResolveConflict(c, s, d, affected)
      PROVE  DecisionsSettleConflicts'
  BY <1>4, ResolveSettles
<1> QED
  BY <1>1, <1>2, <1>3, <1>4
     DEF Next, vars, ConfigureGovernance, AnalyzeDependencies, RecordGate, Transition, Fail

(***************************************************************************)
(* Settled conflicts and decisions on file correspond one to one, whatever *)
(* order the analyses, resolutions and selections come in                  *)
(* (integration_project.cpp:246-260, 330-333, 497-528).                    *)
(***************************************************************************)
THEOREM DecisionsMatchConflicts == Spec => []DecisionsSettleConflicts
<1>1. Init => TypeOK /\ DecisionsSettleConflicts
  BY TypeInit, DecisionsInit
<1>2. TypeOK /\ DecisionsSettleConflicts /\ [Next]_vars => (TypeOK /\ DecisionsSettleConflicts)'
  BY TypeNext, DecisionsNext
<1> QED
  BY <1>1, <1>2, PTL DEF Spec

LEMMA ReopenNext ==
  TypeOK /\ OnlyReanalysisReopensConflicts /\ [Next]_vars => OnlyReanalysisReopensConflicts'
<1> SUFFICES ASSUME TypeOK, OnlyReanalysisReopensConflicts, [Next]_vars
             PROVE  OnlyReanalysisReopensConflicts'
  OBVIOUS
<1> USE DEF OnlyReanalysisReopensConflicts, Draft, ModificationsSelected, Integrating
<1>0. stage \in 0 .. 12 /\ conflicts \in [DOMAIN conflicts -> ConflictType]
  BY DEF TypeOK, Maintaining
<1>1. CASE UNCHANGED <<stage, conflicts, reopened>>
  BY <1>1
<1>2. ASSUME NEW p \in Package, SelectModification(p)
      PROVE  OnlyReanalysisReopensConflicts'
  BY <1>0, <1>2 DEF SelectModification
<1>3. CASE AnalyzeConflicts
  BY <1>3 DEF AnalyzeConflicts
<1>4. ASSUME NEW c \in DOMAIN conflicts, NEW s \in Resolution, NEW d \in DecisionId,
             NEW affected \in SUBSET DOMAIN conflicts,
             ResolveConflict(c, s, d, affected)
      PROVE  OnlyReanalysisReopensConflicts'
  <2> SUFFICES ASSUME stage >= 4, ~reopened, NEW e \in DOMAIN conflicts,
                      conflicts'[e].blocking
               PROVE  conflicts'[e] = conflicts[e]
    BY <1>4 DEF ResolveConflict
  <2>1. CASE e # c
    BY <1>4, <2>1 DEF ResolveConflict
  <2>2. CASE e = c
    <3>1. conflicts[c] \in ConflictType
      BY <1>0
    <3>2. conflicts'[c] = Settled(conflicts[c], s, d)
      BY <1>0, <1>4 DEF ResolveConflict
    <3>3. conflicts[c].blocking
      BY <2>2, <3>1, <3>2 DEF Settled, ConflictType
    <3> QED
      BY <1>4, <3>3 DEF ResolveConflict
  <2> QED
    BY <2>1, <2>2
<1>5. CASE Transition
  <2> SUFFICES ASSUME stage + 1 >= 4, ~reopened, NEW c \in DOMAIN conflicts,
                      conflicts[c].blocking
               PROVE  conflicts[c].status \in {"resolved", "rejected_modification",
                                               "configuration_dependent"}
    BY <1>5 DEF Transition
  <2>1. CASE stage >= 4
    BY <2>1
  <2>2. CASE stage + 1 = 4
    <3>1. ~UnresolvedBlocking(conflicts[c])
      BY <1>5, <2>2 DEF Transition, TransitionAllowed
    <3>2. conflicts[c] \in ConflictType
      BY <1>0
    <3> QED
      BY <3>1, <3>2 DEF UnresolvedBlocking, ConflictType, Resolution
  <2> QED
    BY <1>0, <2>1, <2>2
<1> QED
  BY <1>1, <1>2, <1>3, <1>4, <1>5
     DEF Next, vars, ConfigureGovernance, AnalyzeDependencies, RecordGate, Fail

(***************************************************************************)
(* An integrated project has no open blocking conflict until its conflicts *)
(* are analysed again.                                                     *)
(***************************************************************************)
THEOREM IntegratedMeansSettled == Spec => []OnlyReanalysisReopensConflicts
<1>1. Init => TypeOK /\ OnlyReanalysisReopensConflicts
  BY TypeInit, DecisionsInit
<1>2. TypeOK /\ OnlyReanalysisReopensConflicts /\ [Next]_vars
        => (TypeOK /\ OnlyReanalysisReopensConflicts)'
  BY TypeNext, ReopenNext
<1> QED
  BY <1>1, <1>2, PTL DEF Spec

-----------------------------------------------------------------------------
(* The register of conflicts. *)

\* As long as the last word on conflicts is the analysis', the register is
\* about the packages selected now, and what overlaps in it blocks.
RegisterInv ==
  gates["conflict_analysis"].by = "analysis" =>
    /\ DOMAIN conflicts = ConflictIds(selected)
    /\ \A c \in DOMAIN conflicts : c.origin # "declared" => conflicts[c].blocking

LEMMA RegisterNext == TypeOK /\ RegisterInv /\ [Next]_vars => RegisterInv'
<1> SUFFICES ASSUME TypeOK, RegisterInv, [Next]_vars
             PROVE  RegisterInv'
  OBVIOUS
<1>0. /\ gates \in [GateKind -> Gate \union {NoGate}]
      /\ conflicts \in [DOMAIN conflicts -> ConflictType]
      /\ "conflict_analysis" \in GateKind
  BY DEF TypeOK, GateKind
<1>1. CASE UNCHANGED <<selected, conflicts, gates>>
  BY <1>1 DEF RegisterInv
<1>2. ASSUME NEW p \in Package, SelectModification(p)
      PROVE  RegisterInv'
  BY <1>0, <1>2 DEF SelectModification, Forgotten, NoGate, RegisterInv
<1>3. CASE AnalyzeDependencies
  <2>1. gates'["conflict_analysis"] = gates["conflict_analysis"]
    BY <1>0, <1>3 DEF AnalyzeDependencies
  <2> QED
    BY <1>3, <2>1 DEF AnalyzeDependencies, RegisterInv
<1>4. CASE AnalyzeConflicts
  <2>1. conflicts' = Analysed(selected) /\ selected' = selected
    BY <1>4 DEF AnalyzeConflicts
  <2>2. DOMAIN conflicts' = ConflictIds(selected)
    BY <2>1 DEF Analysed
  <2>3. \A c \in ConflictIds(selected) : conflicts'[c].blocking = Blocking(c, selected)
    BY <2>1 DEF Analysed
  <2>4. \A c \in ConflictIds(selected) : c.origin # "declared" => Blocking(c, selected)
    BY DEF Blocking
  <2> QED
    BY <2>1, <2>2, <2>3, <2>4 DEF RegisterInv
<1>5. ASSUME NEW c \in DOMAIN conflicts, NEW s \in Resolution, NEW d \in DecisionId,
             NEW affected \in SUBSET DOMAIN conflicts,
             ResolveConflict(c, s, d, affected)
      PROVE  RegisterInv'
  <2>1. /\ selected' = selected /\ gates' = gates
        /\ conflicts' = [conflicts EXCEPT ![c] = Settled(conflicts[c], s, d)]
    BY <1>5 DEF ResolveConflict
  <2>2. Settled(conflicts[c], s, d).blocking = conflicts[c].blocking
    BY <1>0 DEF Settled, ConflictType
  <2>3. DOMAIN conflicts' = DOMAIN conflicts
        /\ \A e \in DOMAIN conflicts : conflicts'[e].blocking = conflicts[e].blocking
    BY <1>0, <2>1, <2>2
  <2> QED
    BY <2>1, <2>3 DEF RegisterInv
<1>6. ASSUME NEW kind \in GateKind, NEW passed \in BOOLEAN, RecordGate(kind, passed)
      PROVE  RegisterInv'
  <2>1. CASE kind = "conflict_analysis"
    BY <1>0, <1>6, <2>1 DEF RecordGate, RegisterInv
  <2>2. CASE kind # "conflict_analysis"
    BY <1>0, <1>6, <2>2 DEF RecordGate, RegisterInv
  <2> QED
    BY <2>1, <2>2
<1> QED
  BY <1>1, <1>2, <1>3, <1>4, <1>5, <1>6
     DEF Next, vars, ConfigureGovernance, Transition, Fail

\* Two packages that overlap are compared once, in the order of selection, and
\* the conflict found is the one either of them would find.
LEMMA OverlapIsFound ==
  ASSUME NEW sel \in Seq(Package), NEW p \in Chosen(sel), NEW q \in Chosen(sel),
         p.id # q.id,
         NEW c, c \in Overlaps(p, q), c \in Overlaps(q, p)
  PROVE  c \in ConflictIds(sel)
<1>1. PICK i \in DOMAIN sel, j \in DOMAIN sel : p = sel[i] /\ q = sel[j]
  BY DEF Chosen
<1>2. DOMAIN sel = 1 .. Len(sel) /\ Len(sel) \in Nat /\ i # j
  BY <1>1
<1>3. j \in i + 1 .. Len(sel) \/ i \in j + 1 .. Len(sel)
  BY <1>2
<1>4. \A k \in DOMAIN sel : \A l \in k + 1 .. Len(sel) :
        Overlaps(sel[k], sel[l]) \subseteq ConflictIds(sel)
  <2> SUFFICES ASSUME NEW k \in DOMAIN sel, NEW l \in k + 1 .. Len(sel),
                      NEW e \in Overlaps(sel[k], sel[l])
               PROVE  e \in ConflictIds(sel)
    OBVIOUS
  <2>1. e \in UNION {Overlaps(sel[k], sel[m]) : m \in k + 1 .. Len(sel)}
    OBVIOUS
  <2> QED
    BY <2>1 DEF ConflictIds
<1> QED
  BY <1>1, <1>3, <1>4

\* What a caller would call an overlap is one from either side.
LEMMA OverlapIsMutual ==
  ASSUME NEW p, NEW q
  PROVE  /\ \A s \in p.symbols \intersect q.symbols :
              Conflict(p, q.id, "symbol", s) \in Overlaps(p, q) \intersect Overlaps(q, p)
         /\ \A k \in p.keys \intersect q.keys :
              Conflict(p, q.id, "configuration", k)
                \in Overlaps(p, q) \intersect Overlaps(q, p)
         /\ \A u \in p.sources, v \in q.sources :
              u.path = v.path /\ u.result # v.result =>
                Conflict(p, q.id, "path", u.path) \in Overlaps(p, q) \intersect Overlaps(q, p)
<1>1. \A origin, subject : Conflict(p, q.id, origin, subject) = Conflict(q, p.id, origin, subject)
  <2>1. {p.id, q.id} = {q.id, p.id}
    OBVIOUS
  <2> QED
    BY <2>1 DEF Conflict
<1>2. \A s \in p.symbols \intersect q.symbols :
        /\ Conflict(p, q.id, "symbol", s) \in Overlaps(p, q)
        /\ Conflict(q, p.id, "symbol", s) \in Overlaps(q, p)
  BY DEF Overlaps
<1>3. \A k \in p.keys \intersect q.keys :
        /\ Conflict(p, q.id, "configuration", k) \in Overlaps(p, q)
        /\ Conflict(q, p.id, "configuration", k) \in Overlaps(q, p)
  BY DEF Overlaps
<1>4. ASSUME NEW u \in p.sources, NEW v \in q.sources,
             u.path = v.path, u.result # v.result
      PROVE  /\ Conflict(p, q.id, "path", u.path) \in Overlaps(p, q)
             /\ Conflict(q, p.id, "path", v.path) \in Overlaps(q, p)
  BY <1>4 DEF Overlaps
<1> QED
  BY <1>1, <1>2, <1>3, <1>4

(***************************************************************************)
(* However analyses, selections, resolutions and recordings interleave,    *)
(* the register the analysis left has a blocking conflict for every symbol,*)
(* key and file on which two packages selected now disagree                *)
(* (integration_project.cpp:246-260, 330-495).                             *)
(***************************************************************************)
THEOREM RegisterIsComplete == Spec => []AnalysisMissesNoOverlap
<1>1. Init => TypeOK /\ RegisterInv
  BY TypeInit DEF Init, RegisterInv, GateKind, NoGate
<1>2. TypeOK /\ RegisterInv /\ [Next]_vars => (TypeOK /\ RegisterInv)'
  BY TypeNext, RegisterNext
<1>3. TypeOK /\ RegisterInv => AnalysisMissesNoOverlap
  <2> SUFFICES ASSUME TypeOK, RegisterInv, gates["conflict_analysis"].by = "analysis",
                      NEW p \in Chosen(selected), NEW q \in Chosen(selected), p.id # q.id
               PROVE  LET Blocked(origin, subject) ==
                            \E c \in DOMAIN conflicts :
                              /\ c = [pair |-> {p.id, q.id}, origin |-> origin,
                                      subject |-> subject]
                              /\ conflicts[c].blocking
                      IN  /\ \A s \in p.symbols \intersect q.symbols : Blocked("symbol", s)
                          /\ \A k \in p.keys \intersect q.keys : Blocked("configuration", k)
                          /\ \A u \in p.sources, v \in q.sources :
                               u.path = v.path /\ u.result # v.result => Blocked("path", u.path)
    BY DEF AnalysisMissesNoOverlap
  <2>1. ASSUME NEW origin, NEW subject, origin # "declared",
               Conflict(p, q.id, origin, subject) \in Overlaps(p, q) \intersect Overlaps(q, p)
        PROVE  \E c \in DOMAIN conflicts :
                 /\ c = [pair |-> {p.id, q.id}, origin |-> origin, subject |-> subject]
                 /\ conflicts[c].blocking
    <3> DEFINE c == Conflict(p, q.id, origin, subject)
    <3>1. selected \in Seq(Package)
      BY DEF TypeOK
    <3>2. c \in ConflictIds(selected)
      BY <2>1, <3>1, OverlapIsFound
    <3>3. c = [pair |-> {p.id, q.id}, origin |-> origin, subject |-> subject]
          /\ c.origin # "declared"
      BY <2>1 DEF Conflict
    <3> HIDE DEF c
    <3> QED
      BY <3>2, <3>3 DEF RegisterInv
  <2> QED
    BY <2>1, OverlapIsMutual
<1> QED
  BY <1>1, <1>2, <1>3, PTL DEF Spec
=============================================================================
