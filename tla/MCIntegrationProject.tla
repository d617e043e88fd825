------------------------ MODULE MCIntegrationProject ------------------------
(***************************************************************************)
(* IntegrationProject for TLC.  An inventory core in two versions and two  *)
(* extensions: one needs the right core, touches the core's symbol and     *)
(* declares a conflict the core declares as well, only less strictly; the  *)
(* other wants a core by an unsupported constraint, optionally, and        *)
(* changes the file and sets the key of the first.                         *)
(***************************************************************************)
EXTENDS IntegrationProject, FiniteSets, TLC

CONSTANTS
  MaxFailedGates,  \* gates recorded with a failing verdict
  MaxEarlyGates,   \* gates recorded before the state that asks for them
  MaxSelected      \* packages in one project

Core(v) ==
  [id |-> "core", version |-> v, dependencies |-> {},
   declares |-> {[on |-> "bag", class |-> "abi", blocking |-> v = "v1"]},
   symbols |-> {"capacity"}, sources |-> {[path |-> "core.cpp", result |-> "x"]},
   keys |-> {}]

Bag ==
  [id |-> "bag", version |-> "v1",
   dependencies |-> {[on |-> "core", constraint |-> "v1", mandatory |-> TRUE]},
   declares |-> {[on |-> "core", class |-> "abi", blocking |-> FALSE]},
   symbols |-> {"capacity"}, sources |-> {[path |-> "bag.cpp", result |-> "x"]},
   keys |-> {"mode"}]

Hud ==
  [id |-> "hud", version |-> "v1",
   dependencies |-> {[on |-> "core", constraint |-> Unsupported, mandatory |-> FALSE]},
   declares |-> {}, symbols |-> {},
   sources |-> {[path |-> "bag.cpp", result |-> "y"]}, keys |-> {"mode"}]

MCPackage == {Core("v1"), Core("v2"), Bag, Hud}
MCId == {"core", "bag", "hud"}
MCVersion == {"v1", "v2"}
MCSubject == {"abi", "capacity", "core.cpp", "bag.cpp", "mode"}
MCResult == {"x", "y"}

Recorded == {k \in GateKind : gates[k].by = "caller"}
Asked == UNION {Required(s) : s \in 1 .. stage + 1}

Bounds ==
  /\ Cardinality({k \in Recorded : ~gates[k].passed}) <= MaxFailedGates
  /\ Cardinality(Recorded \ Asked) <= MaxEarlyGates
  /\ Len(selected) <= MaxSelected

Symmetry == Permutations(DecisionId)
=============================================================================
