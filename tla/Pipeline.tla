------------------------------ MODULE Pipeline ------------------------------
(***************************************************************************)
(* ETLPipeline.execute: the batches of a file are extracted, transformed   *)
(* in a subprocess, routed to monthly tables and loaded, one transaction   *)
(* per table and batch.  Nothing undoes what was loaded before a failure;   *)
(* the file is executed again and INSERT IGNORE is to absorb the repeats.  *)
(* It does so only in a table with a unique key over the business columns, *)
(* which the template of the table has to declare (loader.py:3-6): those   *)
(* are the tables of Keyed.  The repository's own sql_templates declare    *)
(* none.                                                                   *)
(*                                                                         *)
(* Workers of one process share TableRouter, with its set of tables that   *)
(* are known to exist and one lock per table.  A file may be executed any  *)
(* number of times: which executions the claim protocol allows is the      *)
(* subject of FileProcessor.                                               *)
(***************************************************************************)
EXTENDS Naturals, Sequences, Functions

CONSTANTS Worker, File, Row,
          Content,     \* Content[f]: the batches of a file, sets of rows
          MonthOf,     \* MonthOf[r]: the month in its partition_field, or NONE
          Keyed,       \* months whose table has a unique key over the business columns
          LastMonth,   \* bound: where the clock stops
          MaxCopies,   \* bound: copies of a row in a table are counted up to here
          NONE

Month == 1..LastMonth

ASSUME PipelineAssumption ==
    /\ LastMonth \in Nat \ {0} /\ MaxCopies \in Nat \ {0}
    /\ Keyed \subseteq Month
    /\ NONE \notin Month \cup File
    /\ MonthOf \in [Row -> Month \cup {NONE}]
    /\ Content \in [File -> Seq(SUBSET Row)]

VARIABLES now,        \* the current month
          exists,     \* months whose table was created
          table,      \* table[m][r]: how often the table of m holds row r
          registry,   \* registry[m]: lifecycle_status in monthly_table_registry
          created,    \* TableRouter._created
          work        \* work[k]: the execution of worker k

vars == <<now, exists, table, registry, created, work>>

Statuses == {"SUCCESS", "FAILED", "SKIPPED", "RETRY"}

Idle == [pc |-> "idle", file |-> NONE, rest |-> <<>>, groups |-> [m \in {} |-> {}],
         month |-> NONE, valid |-> {}, status |-> "SUCCESS"]

Init ==
    /\ now = 1 /\ exists = {} /\ created = {}
    /\ table = [m \in Month |-> [r \in Row |-> 0]]
    /\ registry = [m \in Month |-> "none"]
    /\ work = [k \in Worker |-> Idle]

\* The execution of k is at pc.
At(k, pc) == work[k].pc = pc

\* The exception that leaves the loop of execute() decides the status.
Ends(k, status) == work' = [work EXCEPT ![k] = [@ EXCEPT !.pc = "done", !.status = status]]

\* The execution holds the lock of the table of its month.
Creating(k) == work[k].pc \in {"create", "register", "add"}

database == <<exists, table, registry>>
-----------------------------------------------------------------------------
MonthPasses ==
    /\ now < LastMonth /\ now' = now + 1
    /\ UNCHANGED <<database, created, work>>

Execute(k, f) ==
    /\ At(k, "idle")
    /\ work' = [work EXCEPT ![k] = [Idle EXCEPT !.pc = "extract", !.file = f, !.rest = Content[f]]]
    /\ UNCHANGED <<now, database, created>>

\* A file that is gone, empty or of no known format is skipped, and so is one whose
\* JSON breaks off, after batches that were loaded; what else goes wrong is fatal.
ExtractFails(k) ==
    /\ At(k, "extract")
    /\ \E status \in {"SKIPPED", "FAILED"} : Ends(k, status)
    /\ UNCHANGED <<now, database, created>>

StreamEnds(k) ==
    /\ At(k, "extract") /\ work[k].rest = <<>>
    /\ Ends(k, "SUCCESS")
    /\ UNCHANGED <<now, database, created>>

ResolveNow(r) == \* mutant: partition_field is not looked at
    now

\* _resolve_table: a row without a month that can be read goes to the current one.
_resolve_table(r) == IF MonthOf[r] = NONE THEN now ELSE MonthOf[r]

group_by_table(rows) ==
    [m \in {_resolve_table(r) : r \in rows} |-> {r \in rows : _resolve_table(r) = m}]

\* The next batch comes back from the sandbox.  The batch in Content stands for all rows
\* that the transformer may make of it, renamed, split or converted; it keeps any of them.
Transform(k) ==
    /\ At(k, "extract") /\ work[k].rest # <<>>
    /\ \E valid \in SUBSET Head(work[k].rest) :
          work' = [work EXCEPT ![k] = [@ EXCEPT
                      !.pc = IF valid = {} THEN "extract" ELSE "route",
                      !.rest = Tail(work[k].rest), !.valid = work[k].valid \cup valid,
                      !.groups = group_by_table(valid)]]
    /\ UNCHANGED <<now, database, created>>

\* The subprocess does not start or runs into its timeout; or it ends with an error,
\* or answers something else than a list of rows.
TransformFails(k) ==
    /\ At(k, "extract") /\ work[k].rest # <<>>
    /\ \E status \in {"RETRY", "FAILED"} : Ends(k, status)
    /\ UNCHANGED <<now, database, created>>
-----------------------------------------------------------------------------
\* ensure_table_exists, outside the lock: the table is known, or its lock is free.
TableKnown(k, m) ==
    /\ At(k, "route") /\ m \in DOMAIN work[k].groups /\ m \in created
    /\ work' = [work EXCEPT ![k] = [@ EXCEPT !.pc = "load", !.month = m]]
    /\ UNCHANGED <<now, database, created>>

LockTableAny(k, m) == \* mutant: no lock per table
    /\ At(k, "route") /\ m \in DOMAIN work[k].groups /\ m \notin created
    /\ work' = [work EXCEPT ![k] = [@ EXCEPT !.pc = "create", !.month = m]]
    /\ UNCHANGED <<now, database, created>>

LockTable(k, m) ==
    /\ At(k, "route") /\ m \in DOMAIN work[k].groups /\ m \notin created
    /\ \A j \in Worker : Creating(j) => work[j].month # m
    /\ work' = [work EXCEPT ![k] = [@ EXCEPT !.pc = "create", !.month = m]]
    /\ UNCHANGED <<now, database, created>>

CreateAndAdd(k) == \* mutant: the table is added to _created before it is registered
    /\ At(k, "create") /\ work[k].month \notin created
    /\ exists' = exists \cup {work[k].month}
    /\ created' = created \cup {work[k].month}
    /\ work' = [work EXCEPT ![k] = [@ EXCEPT !.pc = "register"]]
    /\ UNCHANGED <<now, table, registry>>

\* CREATE TABLE IF NOT EXISTS, which MySQL commits at once.
_create_table(k) ==
    /\ At(k, "create") /\ work[k].month \notin created
    /\ exists' = exists \cup {work[k].month}
    /\ work' = [work EXCEPT ![k] = [@ EXCEPT !.pc = "register"]]
    /\ UNCHANGED <<now, table, registry, created>>

\* INSERT IGNORE INTO monthly_table_registry, and the commit.
Register(k) ==
    /\ At(k, "register")
    /\ registry' = [registry EXCEPT ![work[k].month] = IF @ = "none" THEN "ACTIVE" ELSE @]
    /\ work' = [work EXCEPT ![k] = [@ EXCEPT !.pc = "add"]]
    /\ UNCHANGED <<now, exists, table, created>>

\* _created.add, and the lock is free again.
AddCreated(k) ==
    /\ At(k, "add")
    /\ created' = created \cup {work[k].month}
    /\ work' = [work EXCEPT ![k] = [@ EXCEPT !.pc = "load"]]
    /\ UNCHANGED <<now, database>>

\* No template, or any database error: fatal, even one that would pass.  At "add" it is
\* the answer of the committed registration that is lost.
EnsureFails(k) ==
    /\ Creating(k)
    /\ Ends(k, "FAILED")
    /\ UNCHANGED <<now, database, created>>
-----------------------------------------------------------------------------
\* INSERT IGNORE: where the table has a key, a row that is there is not written again;
\* where it has none, every repeat stores the row once more.
Insert(m, rows) ==
    table' = [table EXCEPT ![m] = [r \in Row |->
        IF \/ r \notin rows
           \/ m \in Keyed /\ table[m][r] > 0
           \/ table[m][r] = MaxCopies
        THEN table[m][r] ELSE table[m][r] + 1]]

\* The group that is loaded is done.
Loaded(k) ==
    LET rest == Restrict(work[k].groups, DOMAIN work[k].groups \ {work[k].month})
    IN  work' = [work EXCEPT ![k] = [@ EXCEPT !.groups = rest, !.month = NONE,
                    !.pc = IF DOMAIN rest = {} THEN "extract" ELSE "route"]]

load_batch(k) ==
    /\ At(k, "load") /\ work[k].month \in exists
    /\ Insert(work[k].month, work[k].groups[work[k].month])
    /\ Loaded(k)
    /\ UNCHANGED <<now, exists, registry, created>>

\* The connection breaks after the commit.
AckIsLost(k) ==
    /\ At(k, "load") /\ work[k].month \in exists
    /\ Insert(work[k].month, work[k].groups[work[k].month])
    /\ Ends(k, "RETRY")
    /\ UNCHANGED <<now, exists, registry, created>>

LoadSwallowed(k) == \* mutant: a load that fails is passed over
    /\ At(k, "load")
    /\ Loaded(k)
    /\ UNCHANGED <<now, database, created>>

\* _load_with_retry: transient errors are tried again, others are fatal.
LoadFails(k) ==
    /\ At(k, "load")
    /\ \E status \in {"RETRY", "FAILED"} : Ends(k, status)
    /\ UNCHANGED <<now, database, created>>

\* The result is returned to FileProcessor.
Return(k) ==
    /\ At(k, "done")
    /\ work' = [work EXCEPT ![k] = Idle]
    /\ UNCHANGED <<now, database, created>>

\* archive_old_tables, by POST /monthly/run: tables up to a month are marked, no more.
Archive(cutoff) ==
    /\ registry' = [m \in Month |-> IF m <= cutoff /\ registry[m] = "ACTIVE"
                                    THEN "ARCHIVED" ELSE registry[m]]
    /\ UNCHANGED <<now, exists, table, created, work>>

Crash ==
    /\ created' = {} /\ work' = [k \in Worker |-> Idle]
    /\ UNCHANGED <<now, database>>

Step(k) ==
    \/ \E f \in File : Execute(k, f)
    \/ ExtractFails(k) \/ StreamEnds(k) \/ Transform(k) \/ TransformFails(k)
    \/ \E m \in Month : TableKnown(k, m) \/ LockTable(k, m)
    \/ _create_table(k) \/ Register(k) \/ AddCreated(k) \/ EnsureFails(k)
    \/ load_batch(k) \/ AckIsLost(k) \/ LoadFails(k) \/ Return(k)

Next ==
    \/ MonthPasses \/ Crash
    \/ \E cutoff \in Month : cutoff < now /\ Archive(cutoff)
    \/ \E k \in Worker : Step(k)

Spec == Init /\ [][Next]_vars
-----------------------------------------------------------------------------
\* Every variable has its type, and at most one worker creates the table of a month.
TypeOK ==
    /\ now \in Nat /\ exists \subseteq Month /\ created \subseteq Month
    /\ table \in [Month -> [Row -> Nat]]
    /\ registry \in [Month -> {"none", "ACTIVE", "ARCHIVED"}]
    /\ \A k \in Worker :
          /\ work[k].pc \in {"idle", "extract", "route", "create", "register", "add", "load", "done"}
          /\ work[k].status \in Statuses
          /\ work[k].valid \subseteq Row
    /\ \A j, k \in Worker : Creating(j) /\ Creating(k) /\ work[j].month = work[k].month => j = k

\* However often files are executed, with loads cut off or repeated after a commit whose
\* answer was lost: a row with a month is in the table of that month and in no other, and
\* any row is at most once in a table whose template declares the unique key, which is the
\* precondition of INSERT IGNORE that loader.py:3-6 names.  A table without the key gets a
\* copy more with every repeat.
NoRowTwice ==
    \A m \in Month, r \in Row : table[m][r] > 0 =>
        /\ MonthOf[r] \in {m, NONE}
        /\ m \in Keyed => table[m][r] = 1

\* A table that holds rows is in the registry, whatever crashed between the creation of
\* the table, its registration and the first load.
LoadedIsRegistered ==
    \A m \in Month : (\E r \in Row : table[m][r] > 0) => m \in exists /\ registry[m] # "none"
-----------------------------------------------------------------------------
RowsOf == [f \in File |-> UNION {Content[f][i] : i \in DOMAIN Content[f]}]

\* What is seen of the tables and of the executions.
storedRows == {mr \in Month \X Row : table[mr[1]][mr[2]] > 0}
fileOf     == [k \in Worker |-> work[k].file]
keptOf     == [k \in Worker |-> work[k].valid]
resultOf   == [k \in Worker |-> IF At(k, "done") THEN work[k].status ELSE "none"]

Loading == INSTANCE FileLoading WITH
    stored <- storedRows, file <- fileOf, kept <- keptOf, result <- resultOf

\* Every step of the executions, the tables, the clock and the crashes is a step of the
\* loading or none: a file that succeeds has every row that the transformer kept in a
\* table where it belongs, and no failure, repeat or crash takes a row out or brings
\* one in that no execution kept.  Which rows are in which tables is compared; how often
\* a table holds a row is the subject of NoRowTwice.
ImplementsLoading == Loading!Spec
=============================================================================
