----------------------------- MODULE MCPipeline -----------------------------
(***************************************************************************)
(* Two files that share a row, x.  The first has a batch for two tables     *)
(* and a batch with a row, z, whose month cannot be read.  Rows of the     *)
(* first month still come when the clock is in the second, and y comes     *)
(* when it is not there yet.  The table of the first month has a unique    *)
(* key, the table of the second has none.                                  *)
(***************************************************************************)
EXTENDS Pipeline, TLC

CONSTANTS f1, f2, x, y, z, k1, k2

MCContent == (f1 :> << {x, y}, {z} >>) @@ (f2 :> << {x} >>)

MCMonthOf == (x :> 1) @@ (y :> 2) @@ (z :> NONE)

WorkerSymmetry == Permutations({k1, k2})
=============================================================================
