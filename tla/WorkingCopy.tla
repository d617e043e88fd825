---------------------------- MODULE WorkingCopy ----------------------------
(***************************************************************************)
(* gdspaces::WorkingCopy: the editable bytes of one resource, kept as the  *)
(* original bytes, the current bytes, a revision number and the stack of   *)
(* applied operations.  The stack holds only the delta of each operation   *)
(* (what it expected, what it wrote); undo rebuilds the earlier bytes by   *)
(* applying the delta backwards.                                           *)
(*                                                                         *)
(* A refused call leaves every field alone, so it is no step of this       *)
(* module: Accepts and UndoFits say which calls go through.                *)
(***************************************************************************)
EXTENDS Integers, Sequences

CONSTANTS
  Byte,          \* the values a byte takes
  Original,      \* original_: the immutable source bytes
  EditId,        \* operation identifiers (non-empty by EditOperation::valid)
  Replacement,   \* the replacement byte strings the tools may write
  MaxSize        \* current_.max_size()

ASSUME OriginalAssumption == Original \in Seq(Byte)
ASSUME ReplacementAssumption == Replacement \subseteq Seq(Byte)

VARIABLES
  current,    \* current_
  revision,   \* revision_
  applied,    \* applied_ (public_history_ is the same sequence of operations)
  before      \* history variable, not in the code: before[k] is what current
              \* held when applied[k] was applied

copyVars == <<current, revision, applied, before>>

Content == Seq(Byte)

\* EditOperation; its description is never compared and is left out.
EditOperation ==
  [id: EditId, base_revision: Nat, offset: Nat, expected: Content,
   replacement: Content]

(***************************************************************************)
(* Bytes are numbered from 0 in the code and from 1 in a TLA+ sequence:    *)
(* Slice is the n bytes at offset o, Splice replaces them by r.            *)
(***************************************************************************)
Slice(bytes, o, n) == SubSeq(bytes, o + 1, o + n)

Splice(bytes, o, n, r) ==
  SubSeq(bytes, 1, o) \o r \o SubSeq(bytes, o + n + 1, Len(bytes))

\* The n bytes at offset o exist in bytes and are exactly those of sample.
Matches(bytes, o, sample) ==
  /\ o <= Len(bytes)
  /\ Len(sample) <= Len(bytes) - o
  /\ Slice(bytes, o, Len(sample)) = sample

-----------------------------------------------------------------------------

InitCopy ==
  /\ current = Original
  /\ revision = 0
  /\ applied = <<>>
  /\ before = <<>>

Accepts(op) ==
  /\ op.base_revision = revision
  /\ \A k \in 1 .. Len(applied) : applied[k].id # op.id
  /\ Matches(current, op.offset, op.expected)
  /\ Len(current) - Len(op.expected) + Len(op.replacement) <= MaxSize

Apply(op) ==
  /\ Accepts(op)
  /\ current' = Splice(current, op.offset, Len(op.expected), op.replacement)
  /\ applied' = Append(applied, op)
  /\ before' = Append(before, current)
  /\ revision' = revision + 1

UndoFits(op) == Matches(current, op.offset, op.replacement)

\* Mutant of Unapplied: the previous bytes go back, the replacement stays.
UnappliedKeepsReplacement(op) == Splice(current, op.offset, 0, op.expected)

Unapplied(op) == Splice(current, op.offset, Len(op.replacement), op.expected)

\* Mutant of Popped: the stack is emptied from the wrong end.
PoppedFromFront(stack) == Tail(stack)

Popped(stack) == SubSeq(stack, 1, Len(stack) - 1)

\* Mutants of RevisionAfterUndo: undo goes back to an earlier revision number.
RevisionRewound == revision - 1
RevisionRewoundTwice == revision - 2

RevisionAfterUndo == revision + 1

UndoLast ==
  /\ applied # <<>>
  /\ UndoFits(applied[Len(applied)])
  /\ current' = Unapplied(applied[Len(applied)])
  /\ applied' = Popped(applied)
  /\ before' = SubSeq(before, 1, Len(before) - 1)
  /\ revision' = RevisionAfterUndo

Reset ==
  /\ current' = Original
  /\ applied' = <<>>
  /\ before' = <<>>
  /\ revision' = 0

NextCopy == (\E op \in EditOperation : Apply(op)) \/ UndoLast \/ Reset

SpecCopy == InitCopy /\ [][NextCopy]_copyVars

-----------------------------------------------------------------------------

TypeOKCopy ==
  /\ current \in Content
  /\ revision \in Nat
  /\ applied \in Seq(EditOperation)
  /\ before \in Seq(Content)
  /\ Len(before) = Len(applied)

(***************************************************************************)
(* The contents the stack of deltas stands for: before[1] is the original, *)
(* each applied operation leads from the content it was applied to to the  *)
(* next one, and the last one leads to the current bytes.                  *)
(***************************************************************************)
After(k) == IF k = Len(applied) THEN current ELSE before[k + 1]

HistoryLinked ==
  /\ Original = IF applied = <<>> THEN current ELSE before[1]
  /\ \A k \in 1 .. Len(applied) :
       /\ Matches(before[k], applied[k].offset, applied[k].expected)
       /\ After(k) = Splice(before[k], applied[k].offset,
                            Len(applied[k].expected), applied[k].replacement)

(***************************************************************************)
(* The consistency checks inside WorkingCopy::undo_last never refuse: as   *)
(* long as an operation is on the stack, its replacement bytes are still   *)
(* where it wrote them, so the only undo that fails is the one of an empty *)
(* history.                                                                *)
(***************************************************************************)
UndoNeverRefused == applied # <<>> => UndoFits(applied[Len(applied)])

(***************************************************************************)
(* What a user of the working copy relies on: undo brings back exactly the *)
(* content before the last edit still on the stack, byte for byte.         *)
(***************************************************************************)
History == INSTANCE UndoStack WITH content <- current, undo <- before

RefinesUndoStack == History!Spec
=============================================================================
