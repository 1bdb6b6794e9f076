---------------------------- MODULE MCWorkerPool ----------------------------
(***************************************************************************)
(* One task: tasks share nothing but the capacity of the queue.            *)
(***************************************************************************)
EXTENDS WorkerPool, TLC

CONSTANT t1

MCPriority == t1 :> 5
=============================================================================
