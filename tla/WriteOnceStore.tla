--------------------------- MODULE WriteOnceStore ---------------------------
(***************************************************************************)
(* What publication without replacement promises of a directory: a path    *)
(* that is free may receive one finished artifact, and a path that holds   *)
(* something keeps it for ever, byte for byte.                             *)
(*   include/dmc_rengine/core/no_replace_publication.hpp                   *)
(***************************************************************************)
CONSTANTS
    Paths,      \* destinations
    Finished,   \* contents that may be published
    Foreign,    \* the content of a file that was there before
    Free        \* the mark of a path that holds nothing

VARIABLE store

Init == store \in [Paths -> {Free, Foreign}]

Publish(path, content) ==
    /\ store[path] = Free
    /\ store' = [store EXCEPT ![path] = content]

Next == \E path \in Paths, content \in Finished : Publish(path, content)

Spec == Init /\ [][Next]_store
=============================================================================
