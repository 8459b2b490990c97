-------------------------- MODULE MCMessageQueue --------------------------
(***************************************************************************)
(* TLC instance of MessageQueue: the poller thread and a webhook handler   *)
(* thread.  No symmetry: liveness is checked.                              *)
(***************************************************************************)
EXTENDS MessageQueue
=============================================================================
