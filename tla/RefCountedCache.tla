-------------------------- MODULE RefCountedCache --------------------------
(***************************************************************************)
(* What a cache of counted resources promises its holders, whatever table  *)
(* it keeps them in: a resource is loaded once, with one holder; each later *)
(* holder is counted; the last release unloads it; there is room for a     *)
(* fixed number of resources and none is evicted to make room.             *)
(*   include/dmc_rengine/reverse/ptx_manager_state.hpp                     *)
(***************************************************************************)
EXTENDS Naturals, FiniteSets

CONSTANTS
  Keys,      \* identities of resources
  Capacity   \* how many may be loaded at a time

VARIABLE count   \* by key: how many holders, 0 when it is not loaded

Loaded == {k \in Keys : count[k] # 0}

Init == count = [k \in Keys |-> 0]

Load(k) ==
  /\ count[k] = 0
  /\ Cardinality(Loaded) < Capacity
  /\ count' = [count EXCEPT ![k] = 1]

Share(k) == count[k] # 0 /\ count' = [count EXCEPT ![k] = @ + 1]

Release(k) == count[k] # 0 /\ count' = [count EXCEPT ![k] = @ - 1]

Forget == count' = [k \in Keys |-> 0]

Next ==
  \/ \E k \in Keys : Load(k) \/ Share(k) \/ Release(k)
  \/ Forget

Spec == Init /\ [][Next]_count
=============================================================================
