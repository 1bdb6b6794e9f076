----------------------------- MODULE FileLoading -----------------------------
(***************************************************************************)
(* What the pipeline promises of the executions of files, without batches  *)
(* in flight, table creation, registry, locks and caches: an execution     *)
(* keeps rows of its file and of no other, stores rows that it kept, each  *)
(* row with a month in the table of that month, and succeeds only with     *)
(* everything stored that it kept.  What is stored stays, whatever becomes *)
(* of the execution.                                                       *)
(*                                                                         *)
(* Pipeline implements this specification (ImplementsLoading).             *)
(***************************************************************************)
CONSTANTS Worker, File, Month,
          RowsOf,      \* RowsOf[f]: the rows of a file
          MonthOf,     \* MonthOf[r]: the month of a row, or NONE
          NONE

VARIABLES stored,      \* pairs of a month and a row that its table holds
          file,        \* file[k]: the file that worker k executes, or NONE
          kept,        \* kept[k]: the rows its transformer has kept so far
          result       \* result[k]: "none" until the execution ends

loadingVars == <<stored, file, kept, result>>

Init ==
    /\ stored = {}
    /\ file = [k \in Worker |-> NONE]
    /\ kept = [k \in Worker |-> {}]
    /\ result = [k \in Worker |-> "none"]

Running(k) == file[k] # NONE /\ result[k] = "none"

Belongs(r, m) == MonthOf[r] \in {m, NONE}

\* Every row that the execution kept is in a table where it belongs.
Complete(k) == \A r \in kept[k] : \E m \in Month : Belongs(r, m) /\ <<m, r>> \in stored

Begin(k, f) ==
    /\ file[k] = NONE
    /\ file' = [file EXCEPT ![k] = f]
    /\ UNCHANGED <<stored, kept, result>>

Keep(k) ==
    /\ Running(k)
    /\ \E rows \in SUBSET RowsOf[file[k]] : kept' = [kept EXCEPT ![k] = kept[k] \cup rows]
    /\ UNCHANGED <<stored, file, result>>

\* One table takes rows; they are there at once, and those that were there stay.
Stores(k) ==
    \E m \in Month, rows \in SUBSET kept[k] :
        /\ \A r \in rows : Belongs(r, m)
        /\ stored' = stored \cup {<<m, r>> : r \in rows}

Store(k) == Running(k) /\ Stores(k) /\ UNCHANGED <<file, kept, result>>

\* An execution that fails may have stored rows and not know it.
StoreUnknown(k) ==
    /\ Running(k)
    /\ Stores(k)
    /\ result' = [result EXCEPT ![k] = "RETRY"]
    /\ UNCHANGED <<file, kept>>

End(k, status) ==
    /\ Running(k) /\ (status = "SUCCESS" => Complete(k))
    /\ result' = [result EXCEPT ![k] = status]
    /\ UNCHANGED <<stored, file, kept>>

\* The result is taken.
Leave(k) ==
    /\ result[k] # "none"
    /\ file' = [file EXCEPT ![k] = NONE]
    /\ kept' = [kept EXCEPT ![k] = {}]
    /\ result' = [result EXCEPT ![k] = "none"]
    /\ UNCHANGED stored

\* The process ends: what its executions were doing is gone, what they stored is not.
Crash ==
    /\ file' = [k \in Worker |-> NONE]
    /\ kept' = [k \in Worker |-> {}]
    /\ result' = [k \in Worker |-> "none"]
    /\ UNCHANGED stored

Next ==
    \/ Crash
    \/ \E k \in Worker :
          \/ \E f \in File : Begin(k, f)
          \/ Keep(k) \/ Store(k) \/ StoreUnknown(k) \/ Leave(k)
          \/ \E status \in {"SUCCESS", "FAILED", "SKIPPED", "RETRY"} : End(k, status)

Spec == Init /\ [][Next]_loadingVars
=============================================================================
