--------------------------- MODULE MCConfigManager ---------------------------
(***************************************************************************)
(* Files that an operator may leave: one task that is switched off; two    *)
(* tasks, which with a created one and one that was switched on by hand    *)
(* makes two change at once; and a file that is not valid.  What the form  *)
(* leaves out has a meaning of its own, so the requests change settings    *)
(* all the same.                                                           *)
(***************************************************************************)
EXTENDS ConfigManager, TLC

CONSTANTS t1, t2, a1, a2

NoSettings == [f \in {} |-> 0]

Doc(tasks) == [globals |-> NoSettings, tasks |-> tasks]

MCHandWritten == { Doc(t1 :> ("enabled" :> FALSE)),
                   Doc((t1 :> ("poll_interval" :> 60)) @@ (t2 :> NoSettings)),
                   Doc(t1 :> ("poll_interval" :> 100000)) }

MCForms == { NoSettings }

RequestSymmetry == Permutations({a1, a2})
=============================================================================
