------------------------- MODULE IntegrationProject -------------------------
(***************************************************************************)
(* source::IntegrationProject: how several source modifications become one *)
(* composite build.  A project selects packages, has their dependencies    *)
(* and conflicts analysed, has every conflict decided, collects gate       *)
(* evidence and walks a pipeline of states that ends in a release.         *)
(*                                                                         *)
(* The object has no lock-step: both analyses, the recording of a gate and *)
(* the resolution of a conflict may be called in any state, in any order   *)
(* and again, so what a state promises depends on what those calls may     *)
(* still change behind it.                                                 *)
(*                                                                         *)
(* Refusals for the text of an argument (an empty title, evidence nobody   *)
(* declared, a gate identifier used before) change nothing and are left    *)
(* out; the guards that depend on the project's state are all here.        *)
(***************************************************************************)
EXTENDS Integers, Sequences

CONSTANTS
  Id,            \* identifiers of modifications
  Version,
  Subject,       \* symbols, source paths, configuration keys, conflict classes
  Result,        \* contents a source unit may be changed to
  Package,       \* the valid packages of this baseline
  DecisionId,
  FailureState,  \* BLOCKED_BY_CONFLICT, BUILD_FAILED, ... WITHDRAWN
  AnyVersion,    \* the constraint "*"
  Unsupported,   \* a constraint with operators, such as ">=1.0"
  None

Dependency ==
  [on: Id, constraint: Version \union {AnyVersion, Unsupported},
   mandatory: BOOLEAN]
Declaration == [on: Id, class: Subject, blocking: BOOLEAN]

PackageType ==
  [id: Id, version: Version, dependencies: SUBSET Dependency,
   declares: SUBSET Declaration, symbols: SUBSET Subject,
   sources: SUBSET [path: Subject, result: Result], keys: SUBSET Subject]

ASSUME PackageAssumption == Package \subseteq PackageType
ASSUME NoneAssumption == None \notin FailureState \union DecisionId
ASSUME VersionAssumption ==
  AnyVersion \notin Version /\ Unsupported \notin Version \union {AnyVersion}

GateKind == {"dependency_check", "conflict_analysis", "source_validation",
             "compilation", "build_validation", "runtime_testing",
             "approval", "release"}

\* Gate identifiers and summaries are abstracted to who wrote the gate.
Gate == [passed: BOOLEAN, by: {"analysis", "caller"}]
NoGate == [passed |-> FALSE, by |-> "nobody"]

\* The pipeline of IntegrationProjectState, numbered in order.
Draft == 0
ModificationsSelected == 1
DependencyChecked == 2
ConflictAnalysis == 3
Integrating == 4
Maintaining == 12

\* The gates that must have passed to enter a state.
Required(s) ==
  CASE s = DependencyChecked -> {"dependency_check"}
    [] s = ConflictAnalysis -> {"conflict_analysis"}
    [] s = 5 -> {"source_validation"}
    [] s = 7 -> {"compilation", "build_validation"}
    [] s = 9 -> {"runtime_testing"}
    [] s = 10 -> {"approval"}
    [] s = 11 -> {"release"}
    [] OTHER -> {}

VARIABLES
  stage,      \* the last pipeline state; state_ while failure is None
  failure,    \* None, or the failure state that replaced it
  governed,   \* maintainers, policy, profiles and test matrix are set
  selected,   \* selected_modifications_
  issues,     \* dependency_report_.issues
  conflicts,  \* conflicts_, by conflict id
  decisions,  \* decisions_
  gates,      \* gates_, by kind
  vouched,    \* history: analyses replaced by a caller's word when the
              \* project passed them
  reopened    \* history: conflicts were analysed again after INTEGRATING

vars == <<stage, failure, governed, selected, issues, conflicts, decisions,
          gates, vouched, reopened>>

-----------------------------------------------------------------------------
(* The two analyses, as functions of the selection. *)

Chosen(sel) == {sel[k] : k \in DOMAIN sel}

Matches(constraint, version) == constraint \in {AnyVersion, version}

\* One issue for every dependency no selected package satisfies.
DependencyIssues(sel) ==
  UNION {{[owner |-> p.id, on |-> d.on, blocking |-> d.mandatory] :
            d \in {e \in p.dependencies :
                     ~ \E q \in Chosen(sel) :
                         q.id = e.on /\ Matches(e.constraint, q.version)}}
         : p \in Chosen(sel)}

Conflict(p, other, origin, subject) ==
  [pair |-> {p.id, other}, origin |-> origin, subject |-> subject]

Declared(p, sel) ==
  {Conflict(p, d.on, "declared", d.class) :
     d \in {e \in p.declares : \E q \in Chosen(sel) : q.id = e.on}}

Overlaps(p, q) ==
  {Conflict(p, q.id, "symbol", s) : s \in p.symbols \intersect q.symbols}
    \union {Conflict(p, q.id, "configuration", k) : k \in p.keys \intersect q.keys}
    \union {Conflict(p, q.id, "path", u.path) :
              u \in {v \in p.sources :
                       \E w \in q.sources : w.path = v.path /\ w.result # v.result}}

ConflictIds(sel) ==
  LET declared == UNION {Declared(p, sel) : p \in Chosen(sel)}
      overlapping ==
        UNION {UNION {Overlaps(sel[i], sel[j]) : j \in i + 1 .. Len(sel)}
               : i \in DOMAIN sel}
  IN  declared \union overlapping

(***************************************************************************)
(* Overlaps block.  A conflict both packages declare carries the same id   *)
(* from either side, and the declaration of the package selected first is  *)
(* the one that is kept, with its blocking flag.                           *)
(***************************************************************************)
Blocking(c, sel) ==
  c.origin = "declared" =>
    LET Declares(k) ==
          {d \in sel[k].declares : Conflict(sel[k], d.on, "declared", d.class) = c}
    IN  \E k \in DOMAIN sel :
          /\ \E d \in Declares(k) : d.blocking
          /\ \A i \in 1 .. k - 1 : Declares(i) = {}

Analysed(sel) ==
  [c \in ConflictIds(sel) |->
     [blocking |-> Blocking(c, sel), status |-> "unresolved", decision |-> None]]

-----------------------------------------------------------------------------

Init ==
  /\ stage = Draft
  /\ failure = None
  /\ governed = FALSE
  /\ selected = <<>>
  /\ issues = {}
  /\ conflicts = [c \in {} |-> None]
  /\ decisions = {}
  /\ gates = [k \in GateKind |-> NoGate]
  /\ vouched = {}
  /\ reopened = FALSE

ConfigureGovernance ==
  /\ stage = Draft /\ failure = None
  /\ governed' = TRUE
  /\ UNCHANGED <<stage, failure, selected, issues, conflicts, decisions, gates,
                 vouched, reopened>>

\* Mutant of Forgotten: gates survive a change of the selection.
GatesKept == gates

\* Everything concluded from the old selection is forgotten.
Forgotten == [k \in GateKind |-> NoGate]

\* Mutant of MayAdd: packages may still be added to a checked project.
MayAddLate(p) ==
  /\ stage \in Draft .. DependencyChecked /\ failure = None
  /\ \A q \in Chosen(selected) : q.id # p.id

MayAdd(p) ==
  /\ stage \in {Draft, ModificationsSelected} /\ failure = None
  /\ \A q \in Chosen(selected) : q.id # p.id

SelectModification(p) ==
  /\ MayAdd(p)
  /\ selected' = Append(selected, p)
  /\ issues' = {}
  /\ conflicts' = [c \in {} |-> None]
  /\ decisions' = {}
  /\ gates' = Forgotten
  /\ UNCHANGED <<stage, failure, governed, vouched, reopened>>

AnalyzeDependencies ==
  /\ issues' = DependencyIssues(selected)
  /\ gates' = [gates EXCEPT !["dependency_check"] =
       [passed |-> \A i \in DependencyIssues(selected) : ~i.blocking,
        by |-> "analysis"]]
  /\ UNCHANGED <<stage, failure, governed, selected, conflicts, decisions,
                 vouched, reopened>>

\* Mutant of DecisionsAfterAnalysis: decisions about dropped conflicts stay.
DecisionsKept == decisions

DecisionsAfterAnalysis == {}

AnalyzeConflicts ==
  /\ conflicts' = Analysed(selected)
  /\ decisions' = DecisionsAfterAnalysis
  /\ gates' = [gates EXCEPT !["conflict_analysis"] =
                 [passed |-> TRUE, by |-> "analysis"]]
  /\ reopened' = (reopened \/ stage >= Integrating)
  /\ UNCHANGED <<stage, failure, governed, selected, issues, vouched>>

Resolution == {"resolved", "rejected_modification", "configuration_dependent",
               "postponed_for_research"}

\* Mutant of Settled: the conflict does not learn which decision settled it.
SettledAnonymously(conflict, status, d) == [conflict EXCEPT !.status = status]

Settled(conflict, status, d) ==
  [conflict EXCEPT !.status = status, !.decision = d]

\* A decision may mention further conflicts, but settles only this one.
ResolveConflict(c, status, d, affected) ==
  /\ c \in affected
  /\ \A e \in decisions : e.id # d
  /\ c \in DOMAIN conflicts
  /\ conflicts[c].status = "unresolved"
  /\ conflicts' = [conflicts EXCEPT ![c] = Settled(@, status, d)]
  /\ decisions' = decisions \union {[id |-> d, affected |-> affected]}
  /\ UNCHANGED <<stage, failure, governed, selected, issues, gates, vouched,
                 reopened>>

\* Any kind of gate, in any state, but each kind only once.
RecordGate(kind, passed) ==
  /\ gates[kind] = NoGate
  /\ gates' = [gates EXCEPT ![kind] = [passed |-> passed, by |-> "caller"]]
  /\ UNCHANGED <<stage, failure, governed, selected, issues, conflicts,
                 decisions, vouched, reopened>>

\* Mutant of UnresolvedBlocking: a postponed conflict counts as settled.
UnresolvedOnly(c) == c.blocking /\ c.status = "unresolved"

UnresolvedBlocking(c) ==
  c.blocking /\ c.status \in {"unresolved", "postponed_for_research"}

ReportPassed == \A i \in issues : ~i.blocking

TransitionAllowed(next) ==
  /\ \A k \in Required(next) : gates[k].passed
  /\ next = ModificationsSelected => selected # <<>> /\ governed
  /\ next = DependencyChecked => ReportPassed
  /\ next = Integrating =>
       \A c \in DOMAIN conflicts : ~UnresolvedBlocking(conflicts[c])

Transition ==
  /\ failure = None
  /\ stage < Maintaining
  /\ TransitionAllowed(stage + 1)
  /\ stage' = stage + 1
  /\ vouched' = vouched \union
       {k \in Required(stage + 1) \intersect {"dependency_check", "conflict_analysis"} :
          gates[k].by = "caller"}
  /\ UNCHANGED <<failure, governed, selected, issues, conflicts, decisions,
                 gates, reopened>>

Fail(f) ==
  /\ failure = None
  /\ failure' = f
  /\ UNCHANGED <<stage, governed, selected, issues, conflicts, decisions, gates,
                 vouched, reopened>>

Next ==
  \/ ConfigureGovernance
  \/ \E p \in Package : SelectModification(p)
  \/ AnalyzeDependencies
  \/ AnalyzeConflicts
  \/ \E c \in DOMAIN conflicts, s \in Resolution, d \in DecisionId,
        affected \in SUBSET DOMAIN conflicts : ResolveConflict(c, s, d, affected)
  \/ \E k \in GateKind, passed \in BOOLEAN : RecordGate(k, passed)
  \/ Transition
  \/ \E f \in FailureState : Fail(f)

Spec == Init /\ [][Next]_vars

-----------------------------------------------------------------------------

ConflictIdType ==
  [pair: SUBSET Id, origin: {"declared", "symbol", "configuration", "path"},
   subject: Subject]

\* ConflictRecord::valid: a decision is named exactly when there is one.
ConflictType ==
  [blocking: BOOLEAN, status: {"unresolved"}, decision: {None}]
    \union [blocking: BOOLEAN, status: Resolution, decision: DecisionId]

\* The types of the state, and what IntegrationProject::valid asks of it.
TypeOK ==
  /\ stage \in Draft .. Maintaining
  /\ failure \in FailureState \union {None}
  /\ governed \in BOOLEAN
  /\ selected \in Seq(Package)
  /\ issues \subseteq [owner: Id, on: Id, blocking: BOOLEAN]
  /\ DOMAIN conflicts \subseteq ConflictIdType
  /\ conflicts \in [DOMAIN conflicts -> ConflictType]
  /\ decisions \subseteq [id: DecisionId, affected: SUBSET ConflictIdType]
  /\ gates \in [GateKind -> Gate \union {NoGate}]
  /\ vouched \subseteq {"dependency_check", "conflict_analysis"}
  /\ reopened \in BOOLEAN

(***************************************************************************)
(* However the calls interleave, the gates on the way to the current state *)
(* stand passed: no later analysis, recording or selection takes one back. *)
(* The exception is a dependency gate that was a caller's word, which a    *)
(* later analysis may contradict.                                          *)
(***************************************************************************)
GatesBehindState ==
  \A s \in 1 .. stage : \A k \in Required(s) :
    gates[k].passed \/ k \in vouched \intersect {"dependency_check"}

(***************************************************************************)
(* A project past DEPENDENCY_CHECKED whose dependencies were analysed, not *)
(* vouched for, has every mandatory dependency among its packages in the   *)
(* demanded version: the selection cannot move away from the analysis.     *)
(***************************************************************************)
CheckedMeansSatisfied ==
  stage >= DependencyChecked /\ "dependency_check" \notin vouched =>
    \A p \in Chosen(selected) : \A d \in p.dependencies :
      d.mandatory =>
        \E q \in Chosen(selected) :
          q.id = d.on /\ (d.constraint = AnyVersion \/ d.constraint = q.version)

(***************************************************************************)
(* The state of a project is earned and stays earned: its gates are passed *)
(* and its selection is the one that was found satisfied                   *)
(* (transition_allowed, integration_project.cpp:647-704).                  *)
(***************************************************************************)
StateIsEarned == GatesBehindState /\ CheckedMeansSatisfied

(***************************************************************************)
(* The conflict register the analysis left is never stale or incomplete:   *)
(* two selected packages that change the same symbol, the same key or the  *)
(* same file differently always have a blocking conflict on it.            *)
(***************************************************************************)
AnalysisMissesNoOverlap ==
  gates["conflict_analysis"].by = "analysis" =>
    \A p, q \in Chosen(selected) : p.id # q.id =>
      LET Blocked(origin, subject) ==
            \E c \in DOMAIN conflicts :
              /\ c = [pair |-> {p.id, q.id}, origin |-> origin, subject |-> subject]
              /\ conflicts[c].blocking
      IN  /\ \A s \in p.symbols \intersect q.symbols : Blocked("symbol", s)
          /\ \A k \in p.keys \intersect q.keys : Blocked("configuration", k)
          /\ \A u \in p.sources, v \in q.sources :
               u.path = v.path /\ u.result # v.result => Blocked("path", u.path)

(***************************************************************************)
(* Decisions and settled conflicts correspond one to one: every settled    *)
(* conflict names a decision on file that covers it, no decision settles   *)
(* two, and none is left over.  register_custom_build relies on it when it *)
(* compares a build's decision ids with the project's.                     *)
(***************************************************************************)
DecisionsSettleConflicts ==
  LET settled == {c \in DOMAIN conflicts : conflicts[c].status # "unresolved"}
  IN  /\ \A c \in settled : \E d \in decisions :
           d.id = conflicts[c].decision /\ c \in d.affected
      /\ \A c1, c2 \in settled :
           conflicts[c1].decision = conflicts[c2].decision => c1 = c2
      /\ \A d \in decisions : \E c \in settled : conflicts[c].decision = d.id

(***************************************************************************)
(* A project that reached INTEGRATING has no open blocking conflict, not   *)
(* even a postponed one, until its conflicts are analysed again: only that *)
(* call can reopen them, and no later state looks at them.                 *)
(***************************************************************************)
OnlyReanalysisReopensConflicts ==
  stage >= Integrating /\ ~reopened =>
    \A c \in DOMAIN conflicts :
      conflicts[c].blocking =>
        conflicts[c].status \in {"resolved", "rejected_modification",
                                 "configuration_dependent"}
=============================================================================
