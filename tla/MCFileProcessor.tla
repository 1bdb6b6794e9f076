--------------------------- MODULE MCFileProcessor ---------------------------
(***************************************************************************)
(* Instances on one file: w1 and w2 are threads of i1, w3 is the           *)
(* thread of i2.                                                           *)
(***************************************************************************)
EXTENDS FileProcessor, TLC

CONSTANTS i1, i2, w1, w2, w3

MCInstanceOf == (w1 :> i1) @@ (w2 :> i1) @@ (w3 :> i2)

MCOneInstance == (w1 :> i1) @@ (w2 :> i1)

\* The threads of one instance are interchangeable.
ThreadSymmetry == Permutations({w1, w2})
=============================================================================
