----------------------------- MODULE BlockStore -----------------------------
(***************************************************************************)
(* What a block allocator promises to those who hold its blocks: a run of  *)
(* blocks is given to one holder when all of it is free, and nobody else    *)
(* gets any of it before that holder gives the whole run back.              *)
(***************************************************************************)
CONSTANTS
  Block,   \* the blocks of all arenas
  Run,     \* the sets of blocks that can be given out at once
  Holder,  \* allocation nodes
  Nobody

VARIABLE owner  \* by block: who holds it

Held(h) == {b \in Block : owner[b] = h}

Init == owner = [b \in Block |-> Nobody]

Take(h) ==
  LET run == {b \in Block : owner'[b] = h}
  IN  /\ Held(h) = {}
      /\ run \in Run /\ \A b \in run : owner[b] = Nobody
      /\ owner' = [b \in Block |-> IF b \in run THEN h ELSE owner[b]]

Give(h) ==
  owner' = [b \in Block |-> IF owner[b] = h THEN Nobody ELSE owner[b]]

\* A step of the store changes it.
Next == owner' # owner /\ \E h \in Holder : Take(h) \/ Give(h)

Spec == Init /\ [][Next]_owner
=============================================================================
