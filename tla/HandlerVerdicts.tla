--------------------------- MODULE HandlerVerdicts ---------------------------
(***************************************************************************)
(* The contract between WorkerPool and its process_fn: the record_success  *)
(* and record_failure calls that handling one ref makes on the breaker of  *)
(* its task, in order.  FileProcessor guarantees it (VerdictContract),     *)
(* WorkerPool relies on it.                                                *)
(***************************************************************************)
Verdicts == {<<>>, <<"success">>, <<"failure">>, <<"failure", "failure">>}
=============================================================================
