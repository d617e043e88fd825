------------------------ MODULE MCResourceWorkspace ------------------------
(***************************************************************************)
(* ResourceWorkspace for TLC: two routed tools, two byte values, edits that *)
(* insert, delete, replace or change nothing.                              *)
(***************************************************************************)
EXTENDS ResourceWorkspace, FiniteSets, TLC

CONSTANTS
  MaxEvents,       \* bound on the journal, and so on operations and resets;
                   \* entries that say nothing of the working copy count twice,
                   \* and an open draft counts for the entry it may become
  MaxParserEvents  \* bound on the parser's share of the journal

MCOriginal == <<0>>
MCReplacement == {<<>>, <<1>>}
\* Those of a container (pac), of hits, and of an executable (pe).
MCFormat ==
  {[editable |-> TRUE, gated |-> TRUE, adapter |-> FALSE, executable |-> FALSE],
   [editable |-> TRUE, gated |-> FALSE, adapter |-> TRUE, executable |-> FALSE],
   [editable |-> FALSE, gated |-> FALSE, adapter |-> FALSE, executable |-> TRUE]}

Those(types) == Cardinality({k \in 1 .. Len(events) : events[k].type \in types})
ParserEvents == Those({"parser_completed", "parser_diagnostics_added"})
Notes == Those({"evidence_record_linked"} \union Attachment \union WorkType)

OpenDrafts == Cardinality({t \in Tool : draft[t] # None})

Bounds ==
  /\ Len(events) + Notes + OpenDrafts <= MaxEvents
  /\ ParserEvents <= MaxParserEvents

Symmetry == Permutations(EditId) \union Permutations(Tool) \union Permutations(Evidence)
=============================================================================
