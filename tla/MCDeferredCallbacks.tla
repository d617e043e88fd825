------------------------ MODULE MCDeferredCallbacks ------------------------
(***************************************************************************)
(* DeferredCallbacks for TLC: a pool of three records instead of 32 and two *)
(* or three queues, enough for a queue of several records, a callback that  *)
(* enqueues elsewhere, a drain inside a drain and a pool used to its limit. *)
(***************************************************************************)
EXTENDS DeferredCallbacks
=============================================================================
