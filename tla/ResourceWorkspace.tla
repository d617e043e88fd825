------------------------- MODULE ResourceWorkspace -------------------------
(***************************************************************************)
(* integration::ResourceWorkspaceSession: one resource shared by several   *)
(* tools.  The session guards the working copy (a format that demands      *)
(* parser validation becomes editable only after its canonical parser      *)
(* recognized the source without errors), refuses tools without a route,   *)
(* and journals every accepted operation.                                  *)
(*                                                                         *)
(* Tools compose an edit from what they see and submit it later; in        *)
(* between the other tools edit, undo and reset the same working copy.     *)
(* They also attach what they found out about the resource, link evidence  *)
(* records to it, and journal the work they do elsewhere on its account.   *)
(*                                                                         *)
(* The session modelled here is valid(): its payload is readable, of the   *)
(* declared size, and has routes.  None of the three changes afterwards.   *)
(***************************************************************************)
EXTENDS WorkingCopy

CONSTANTS
  Tool,             \* ToolTarget: the tools that edit
  Lab, ItemEditor, ExeEditor,  \* ToolTarget: the tools some calls are about
  Routes,           \* the targets in routes_ (and gdspaces, which needs none)
  Format,           \* descriptors the resource's format may have
  Parser,           \* parser identifiers
  CanonicalParser,  \* the parser_id of the descriptor
  Evidence,         \* records of the EvidenceRegistry
  Work,             \* kinds of work journalled by the tools
  None              \* an empty std::optional, or no draft

\* What a session takes over from a tool, named by the event that tells it.
Attachment == {"binary_document_attached", "stage_context_attached",
               "executable_context_attached"}

WorkType == {"validation_requested", "manifest_exported", "runtime_change_requested",
             "validation_plan_created", "patch_plan_compiled", "patch_copy_executed"}

ASSUME RouteAssumption == Routes \subseteq Tool \union {Lab, ItemEditor, ExeEditor}
ASSUME WorkAssumption == Work \subseteq WorkType
ASSUME ParserAssumption == CanonicalParser \in Parser
ASSUME FormatAssumption ==
  Format \subseteq [editable: BOOLEAN, gated: BOOLEAN, adapter: BOOLEAN, executable: BOOLEAN]
ASSUME NoneAssumption ==
  None \notin [op: EditOperation, seen: Content, lifetime: Nat]

VARIABLES
  format,        \* format_: editable = allows_working_copy(), gated =
                 \* parser_validation_required, adapter = binary_adapter;
                 \* executable: the resource is a pe, exe or dll
  validation,    \* parser_validation_
  parserErrors,  \* parser_error_diagnostics_
  enabled,       \* working_copy_.has_value()
  attached,      \* which of binary_document_, stage_, executable_context_ are set
  linked,        \* evidence_record_ids_
  events,        \* events_: the journal, after the constructor's two entries
  draft,         \* what each tool composed and has not submitted yet
  resets         \* history variable: how often the working copy was reset

foundVars == <<attached, linked>>
sessionVars == <<format, validation, parserErrors, enabled, foundVars, events>>
vars == <<copyVars, sessionVars, draft, resets>>

Validation == [parser: Parser, recognized: BOOLEAN, errors: BOOLEAN]

Draft == [op: EditOperation, seen: Content, lifetime: Nat]

EventType ==
  {"parser_diagnostics_added", "parser_completed", "working_copy_enabled", "edit_applied",
   "edit_undone", "working_copy_reset", "evidence_record_linked"}
    \union Attachment \union WorkType

Subject == EditId \union Parser \union Evidence \union {None}

Event == [type: EventType, revision: Nat, subject: Subject]

\* WorkspaceEventJournal::record; every resource and message here is valid.
Record(type, rev, subject) ==
  events' = Append(events, [type |-> type, revision |-> rev, subject |-> subject])

-----------------------------------------------------------------------------

Init ==
  /\ InitCopy
  /\ format \in Format
  /\ validation = None
  /\ parserErrors = FALSE
  /\ enabled = FALSE
  /\ attached = {}
  /\ linked = {}
  /\ events = <<>>
  /\ draft = [t \in Tool |-> None]
  /\ resets = 0

(***************************************************************************)
(* Parser output.  An error (or a malformed diagnostic, after which the    *)
(* call returns without an event) is remembered for good and also spoils a *)
(* validation stored earlier.                                              *)
(***************************************************************************)
AddParserDiagnostics(severity) ==
  /\ IF severity = "info"
     THEN UNCHANGED <<parserErrors, validation>>
     ELSE /\ parserErrors' = TRUE
          /\ validation' = IF validation = None THEN None
                           ELSE [validation EXCEPT !.errors = TRUE]
  /\ IF severity = "malformed"
     THEN UNCHANGED events
     ELSE Record("parser_diagnostics_added", revision, CanonicalParser)
  /\ UNCHANGED <<copyVars, format, enabled, foundVars, draft, resets>>

\* Mutant of RecordParserCompleted: a completion forgets earlier errors.
RecordParserCompletedAfresh(parser, recognized) ==
  /\ format.gated => parser = CanonicalParser
  /\ validation' = [parser |-> parser, recognized |-> recognized, errors |-> FALSE]
  /\ Record("parser_completed", revision, parser)
  /\ UNCHANGED <<copyVars, format, parserErrors, enabled, foundVars, draft, resets>>

RecordParserCompleted(parser, recognized) ==
  /\ format.gated => parser = CanonicalParser
  /\ validation' = [parser |-> parser, recognized |-> recognized,
                    errors |-> parserErrors]
  /\ Record("parser_completed", revision, parser)
  /\ UNCHANGED <<copyVars, format, parserErrors, enabled, foundVars, draft, resets>>

GateOpen ==
  format.gated =>
    /\ validation # None
    /\ validation.parser = CanonicalParser
    /\ validation.recognized
    /\ ~validation.errors

\* A second call on an enabled session changes nothing.
EnableWorkingCopy ==
  /\ ~enabled
  /\ format.editable
  /\ GateOpen
  /\ enabled' = TRUE
  /\ Record("working_copy_enabled", 0, None)
  /\ UNCHANGED <<copyVars, format, validation, parserErrors, foundVars, draft, resets>>

-----------------------------------------------------------------------------

\* A tool composes an edit of the bytes it sees now.
Compose(t, id, o, n, r) ==
  /\ enabled
  /\ draft[t] = None
  /\ o + n <= Len(current)
  /\ draft' = [draft EXCEPT ![t] =
       [op |-> [id |-> id, base_revision |-> revision, offset |-> o,
                expected |-> Slice(current, o, n), replacement |-> r],
        seen |-> current,
        lifetime |-> resets]]
  /\ UNCHANGED <<copyVars, sessionVars, resets>>

Submitted(t) == draft' = [draft EXCEPT ![t] = None]

ApplyEdit(t) ==
  /\ draft[t] # None
  /\ t \in Routes
  /\ Apply(draft[t].op)
  /\ Record("edit_applied", revision + 1, draft[t].op.id)
  /\ Submitted(t)
  /\ UNCHANGED <<format, validation, parserErrors, enabled, foundVars, resets>>

\* The session or the working copy refuses the edit; the tool drops it.
EditRefused(t) ==
  /\ draft[t] # None
  /\ ~(t \in Routes /\ Accepts(draft[t].op))
  /\ Submitted(t)
  /\ UNCHANGED <<copyVars, sessionVars, resets>>

UndoLastEdit(t) ==
  /\ enabled
  /\ t \in Routes
  /\ UndoLast
  /\ Record("edit_undone", revision + 1, None)
  /\ UNCHANGED <<format, validation, parserErrors, enabled, foundVars, draft, resets>>

\* Mutant of ResetWorkingCopy: the reset is not journalled.
ResetWorkingCopySilently(t) ==
  /\ enabled
  /\ t \in Routes
  /\ Reset
  /\ resets' = resets + 1
  /\ UNCHANGED <<sessionVars, draft>>

ResetWorkingCopy(t) ==
  /\ enabled
  /\ t \in Routes
  /\ Reset
  /\ Record("working_copy_reset", 0, None)
  /\ resets' = resets + 1
  /\ UNCHANGED <<format, validation, parserErrors, enabled, foundVars, draft>>

(***************************************************************************)
(* What the tools add beside the working copy.  Each entry carries the     *)
(* revision it was made at, 0 as long as there is no working copy.         *)
(***************************************************************************)

\* A call that journals and leaves the working copy and its gate alone.
Note(type, subject) ==
  /\ Record(type, revision, subject)
  /\ UNCHANGED <<copyVars, format, validation, parserErrors, enabled, draft, resets>>

\* A document of this resource and of its size; a later one replaces it.
AttachBinaryDocument ==
  /\ format.adapter
  /\ attached' = attached \union {"binary_document_attached"}
  /\ Note("binary_document_attached", CanonicalParser)
  /\ UNCHANGED linked

\* A bundle with the resource as one member, of the category of its format.
AttachStageBundle ==
  /\ attached' = attached \union {"stage_context_attached"}
  /\ Note("stage_context_attached", None)
  /\ UNCHANGED linked

\* Only once.
AttachExecutableContext ==
  /\ "executable_context_attached" \notin attached
  /\ format.executable
  /\ ExeEditor \in Routes
  /\ attached' = attached \union {"executable_context_attached"}
  /\ Note("executable_context_attached", None)
  /\ UNCHANGED linked

\* A second link of the same record succeeds and changes nothing; claims and
\* the format's evidence are linked record by record.
LinkEvidenceRecord(record) ==
  /\ record \notin linked
  /\ linked' = linked \union {record}
  /\ Note("evidence_record_linked", record)
  /\ UNCHANGED attached

RouteNeeded(type) ==
  CASE type \in {"validation_requested", "validation_plan_created", "patch_copy_executed"} -> {Lab}
    [] type = "runtime_change_requested" -> {ItemEditor}
    [] OTHER -> {}

\* Work done elsewhere; it may always be gdspaces that asks for it.
RecordWork(type) ==
  /\ RouteNeeded(type) \subseteq Routes
  /\ Note(type, None)
  /\ UNCHANGED foundVars

Next ==
  \/ AttachBinaryDocument
  \/ AttachStageBundle
  \/ AttachExecutableContext
  \/ \E record \in Evidence : LinkEvidenceRecord(record)
  \/ \E type \in Work : RecordWork(type)
  \/ \E s \in {"info", "error", "malformed"} : AddParserDiagnostics(s)
  \/ \E p \in Parser, recognized \in BOOLEAN : RecordParserCompleted(p, recognized)
  \/ EnableWorkingCopy
  \/ \E t \in Tool :
       \/ \E id \in EditId, o, n \in 0 .. Len(current), r \in Replacement :
            Compose(t, id, o, n, r)
       \/ ApplyEdit(t)
       \/ EditRefused(t)
       \/ UndoLastEdit(t)
       \/ ResetWorkingCopy(t)

Spec == Init /\ [][Next]_vars

-----------------------------------------------------------------------------

TypeOK ==
  /\ TypeOKCopy
  /\ format \in Format
  /\ validation \in Validation \union {None}
  /\ parserErrors \in BOOLEAN
  /\ enabled \in BOOLEAN
  /\ attached \subseteq Attachment
  /\ linked \subseteq Evidence
  /\ events \in Seq(Event)
  /\ draft \in [Tool -> Draft \union {None}]
  /\ resets \in Nat

(***************************************************************************)
(* Optimistic concurrency works between two resets: a draft that carries   *)
(* the current revision was composed from exactly the current bytes, so    *)
(* the comparison of base_revision alone detects every intervening edit    *)
(* and undo, including an undo that brings old bytes back.                 *)
(***************************************************************************)
CurrentDraftSawCurrentBytes ==
  \A t \in Tool :
    draft[t] # None /\ draft[t].lifetime = resets =>
      /\ draft[t].op.base_revision <= revision
      /\ draft[t].op.base_revision = revision => draft[t].seen = current

(***************************************************************************)
(* docs/gdspaces/working-copy.md:47, "stale operations cannot apply after  *)
(* another accepted edit": an edit the working copy accepts was composed   *)
(* from the bytes it is applied to.                                        *)
(***************************************************************************)
NoStaleEditApplies ==
  \A t \in Tool :
    draft[t] # None /\ t \in Routes /\ Accepts(draft[t].op) =>
      draft[t].seen = current

(***************************************************************************)
(* What the journal says of the applied edits: read from the start, with   *)
(* an undo cancelling the last edit and a reset cancelling all of them.    *)
(***************************************************************************)
Replay[k \in 0 .. Len(events)] ==
  IF k = 0 THEN <<>>
  ELSE LET ids == Replay[k - 1]
           e == events[k]
       IN  CASE e.type = "edit_applied" -> Append(ids, e.subject)
             [] e.type = "edit_undone" -> SubSeq(ids, 1, Len(ids) - 1)
             [] e.type = "working_copy_reset" -> <<>>
             [] OTHER -> ids

\* The revision the first k entries lead to.
RevisionAfter(k) == IF k = 0 THEN 0 ELSE events[k].revision

\* Edits and undos count up from the revision of the entry before, a reset
\* goes back to 0, all other entries carry the revision they found.
RevisionsConnect ==
  /\ revision = RevisionAfter(Len(events))
  /\ \A k \in 1 .. Len(events) :
       events[k].revision =
         CASE events[k].type \in {"edit_applied", "edit_undone"} -> RevisionAfter(k - 1) + 1
           [] events[k].type = "working_copy_reset" -> 0
           [] OTHER -> RevisionAfter(k - 1)

Told(type) == {k \in 1 .. Len(events) : events[k].type = type}

\* What is attached and linked is what the journal tells; records are linked,
\* and an executable's context attached, once.
FindingsTold ==
  /\ attached = {a \in Attachment : Told(a) # {}}
  /\ linked = {events[k].subject : k \in Told("evidence_record_linked")}
  /\ \A j, k \in 1 .. Len(events) :
       /\ events[j].type = events[k].type
       /\ events[j].subject = events[k].subject
       /\ events[j].type \in {"evidence_record_linked", "executable_context_attached"}
       => j = k

(***************************************************************************)
(* The journal is enough to reconstruct the session: it replays to the     *)
(* identifiers of exactly the applied operations, in order; its revisions  *)
(* connect, whoever wrote the entries in between; and it tells everything  *)
(* that was attached and linked.                                           *)
(***************************************************************************)
JournalReplaysHistory ==
  /\ Replay[Len(events)] = [k \in 1 .. Len(applied) |-> applied[k].id]
  /\ RevisionsConnect
  /\ FindingsTold

(***************************************************************************)
(* A parser error is final for a gated format: once one was reported, no   *)
(* later parser completion, however clean, makes a session editable that   *)
(* was not editable before.                                                *)
(***************************************************************************)
ParserErrorIsFinal ==
  [][format.gated /\ parserErrors /\ ~enabled => ~enabled']_vars
=============================================================================
