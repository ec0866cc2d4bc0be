----------------------------- MODULE MCWorkerQueue -----------------------------
(* WorkerQueue with its constants given in the configurations. *)
EXTENDS WorkerQueue
=============================================================================
