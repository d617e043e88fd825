----------------------------- MODULE UndoStack -----------------------------
(***************************************************************************)
(* The promise of a working copy, told without operations, offsets or      *)
(* revisions: a content and a stack of the contents it replaced.           *)
(***************************************************************************)
EXTENDS Integers, Sequences

CONSTANTS Byte, Original

VARIABLES content, undo

vars == <<content, undo>>

Init == content = Original /\ undo = <<>>

Edit ==
  /\ content' \in Seq(Byte)
  /\ undo' = Append(undo, content)

Undo ==
  /\ undo # <<>>
  /\ content' = undo[Len(undo)]
  /\ undo' = SubSeq(undo, 1, Len(undo) - 1)

Restore == content' = Original /\ undo' = <<>>

Next == Edit \/ Undo \/ Restore

Spec == Init /\ [][Next]_vars
=============================================================================
