CONSTANTS
  Byte = {0, 1}
  Original <- MCOriginal
  EditId = {e1, e2}
  Replacement <- MCReplacement
  MaxSize = 2
  Tool = {a, b}
  Lab = lab
  ItemEditor = item
  ExeEditor = exe
  Routes = {a, b, lab, exe}
  Format <- MCFormat
  Parser = {canonical, other}
  CanonicalParser = canonical
  Evidence = {r1, r2}
  Work = {"validation_requested", "runtime_change_requested"}
  None = None
  MaxEvents = 5
  MaxParserEvents = 1
SPECIFICATION Spec
CONSTRAINT Bounds
SYMMETRY Symmetry
INVARIANTS
  TypeOK
  CurrentDraftSawCurrentBytes
  JournalReplaysHistory
  UndoNeverRefused
PROPERTIES
  ParserErrorIsFinal
  RefinesUndoStack
