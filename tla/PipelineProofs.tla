--------------------------- MODULE PipelineProofs ---------------------------
(***************************************************************************)
(* The pipeline for every set of workers, files and rows, and for every    *)
(* division of a file into batches.                                        *)
(***************************************************************************)
EXTENDS Pipeline, TLAPS

USE PipelineAssumption

PCs == {"idle", "extract", "route", "create", "register", "add", "load", "done"}

Groupings == UNION {[D -> SUBSET Row] : D \in SUBSET Month}

Executions == [pc : PCs, file : File \cup {NONE}, rest : Seq(SUBSET Row), groups : Groupings,
               month : Month \cup {NONE}, valid : SUBSET Row, status : Statuses]

Groups(k) == work[k].groups
Ready(m)  == m \in exists /\ registry[m] # "none"

\* Row r was loaded, into the table of its month if it has one.
InTable(r) == IF MonthOf[r] = NONE THEN \E m \in Month : table[m][r] > 0
                                   ELSE table[MonthOf[r]][r] > 0

(***************************************************************************)
(* What is true of an execution at each point: the group it works on is    *)
(* one that remains; its table was created, then registered; every row     *)
(* that was kept is loaded or in a group that remains.                     *)
(***************************************************************************)
ExecutionOK(k) ==
    /\ work[k] \in Executions
    /\ Creating(k) \/ At(k, "load") => work[k].month \in DOMAIN Groups(k)
    /\ \A m \in DOMAIN Groups(k) : \A r \in Groups(k)[m] : MonthOf[r] \in {m, NONE}
    /\ At(k, "register") => work[k].month \in exists
    /\ At(k, "add") \/ At(k, "load") => Ready(work[k].month)
    /\ At(k, "extract") \/ (At(k, "done") /\ work[k].status = "SUCCESS") => DOMAIN Groups(k) = {}
    /\ \A r \in work[k].valid :
          InTable(r) \/ \E m \in DOMAIN Groups(k) : r \in Groups(k)[m]

\* What is true of the database and of the tables that the router knows.
TablesOK ==
    /\ now \in Month /\ exists \subseteq Month /\ created \subseteq Month
    /\ table \in [Month -> [Row -> Nat]]
    /\ registry \in [Month -> {"none", "ACTIVE", "ARCHIVED"}]
    /\ \A m \in created : Ready(m)
    /\ \A m \in Month, r \in Row : table[m][r] > 0 => Ready(m) /\ MonthOf[r] \in {m, NONE}
    /\ \A m \in Keyed, r \in Row : table[m][r] <= 1

\* The lock of a table.
OneCreates ==
    \A j, k \in Worker : Creating(j) /\ Creating(k) /\ work[j].month = work[k].month => j = k

IInv == /\ TablesOK /\ OneCreates
        /\ DOMAIN work = Worker
        /\ \A k \in Worker : ExecutionOK(k)

LEMMA IdleOK == Idle \in Executions
<1>1. [m \in {} |-> {}] \in [{} -> SUBSET Row]
  OBVIOUS
<1>2. [m \in {} |-> {}] \in Groupings
  BY <1>1 DEF Groupings
<1>3. <<>> \in Seq(SUBSET Row)
  OBVIOUS
<1> QED
  BY <1>2, <1>3 DEF Idle, Executions, PCs, Statuses

LEMMA InitIInv == Init => IInv
<1> SUFFICES ASSUME Init PROVE IInv
  OBVIOUS
<1>1. TablesOK
  <2>1. now \in Month
    BY DEF Init, Month
  <2>2. \A m \in Month, r \in Row : table[m][r] = 0
    BY DEF Init
  <2>3. table \in [Month -> [Row -> Nat]] /\ registry \in [Month -> {"none", "ACTIVE", "ARCHIVED"}]
    BY DEF Init
  <2> QED
    BY <2>1, <2>2, <2>3 DEF Init, TablesOK
<1>2. OneCreates /\ DOMAIN work = Worker /\ \A k \in Worker : ExecutionOK(k)
  BY IdleOK DEF Init, OneCreates, ExecutionOK, Creating, At, Groups, Idle
<1> QED
  BY <1>1, <1>2 DEF IInv
-----------------------------------------------------------------------------
\* Tables are created, registered and filled, and nothing undoes that.
Grows ==
    /\ exists \subseteq exists'
    /\ \A m \in Month : registry[m] # "none" => registry'[m] # "none"
    /\ \A m \in Month, r \in Row : table[m][r] > 0 => table'[m][r] > 0

LEMMA OthersStay ==
  ASSUME NEW j \in Worker, ExecutionOK(j), work'[j] = work[j], Grows
  PROVE  ExecutionOK(j)'
<1>1. \A m \in Month : Ready(m) => Ready(m)'
  BY DEF Grows, Ready
<1>2. \A r \in Row : InTable(r) => InTable(r)'
  BY DEF Grows, InTable
<1>3. /\ work[j].valid \subseteq Row
      /\ DOMAIN Groups(j) \subseteq Month
  BY DEF ExecutionOK, Executions, Groupings, Groups
<1> QED
  BY <1>1, <1>2, <1>3 DEF ExecutionOK, Groups, At, Creating, Grows

\* A step of worker k preserves IInv if it does so for the tables and for k.
LEMMA StepOf ==
  ASSUME IInv, NEW k \in Worker, NEW e, work' = [work EXCEPT ![k] = e],
         Grows, TablesOK', ExecutionOK(k)',
         Creating(k)' => \/ Creating(k) /\ work'[k].month = work[k].month
                         \/ \A j \in Worker : Creating(j) => work[j].month # work'[k].month
  PROVE  IInv'
<1>1. /\ DOMAIN work' = Worker
      /\ work'[k] = e
      /\ \A j \in Worker \ {k} : work'[j] = work[j]
  BY DEF IInv
<1>2. \A j \in Worker : ExecutionOK(j)'
  BY <1>1, OthersStay DEF IInv
<1>3. OneCreates'
  BY <1>1 DEF IInv, OneCreates, Creating
<1> QED
  BY <1>1, <1>2, <1>3 DEF IInv

\* Steps that leave the tables alone.
LEMMA TablesStay ==
  ASSUME IInv, UNCHANGED <<now, exists, table, registry, created>>
  PROVE  Grows /\ TablesOK'
  BY DEF IInv, Grows, TablesOK, Ready

\* An execution that ends for a reason, its tables as they are.
LEMMA EndsStep ==
  ASSUME IInv, NEW k \in Worker, NEW status \in Statuses, Ends(k, status),
         UNCHANGED <<now, exists, table, registry, created>>,
         status = "SUCCESS" => DOMAIN Groups(k) = {}
  PROVE  IInv'
<1> DEFINE e == [work[k] EXCEPT !.pc = "done", !.status = status]
<1>1. ExecutionOK(k) /\ work[k] \in Executions /\ work' = [work EXCEPT ![k] = e] /\ work'[k] = e
  BY DEF IInv, Ends, ExecutionOK
<1>2. /\ e \in Executions /\ e.pc = "done" /\ e.status = status /\ e.groups = work[k].groups
      /\ e.valid = work[k].valid
  BY <1>1 DEF Executions, PCs
<1>3. ExecutionOK(k)'
  BY <1>1, <1>2 DEF ExecutionOK, Groups, At, Creating, InTable, Ready
<1>4. ~Creating(k)'
  BY <1>1, <1>2 DEF Creating
<1> QED
  BY <1>1, <1>3, <1>4, TablesStay, StepOf
-----------------------------------------------------------------------------
LEMMA ExecuteStep ==
  ASSUME IInv, NEW k \in Worker, NEW f \in File, Execute(k, f)
  PROVE  IInv'
<1> DEFINE e == [Idle EXCEPT !.pc = "extract", !.file = f, !.rest = Content[f]]
<1>1. /\ e \in Executions /\ e.pc = "extract" /\ DOMAIN e.groups = {} /\ e.valid = {}
  BY IdleOK DEF Executions, Idle, PCs
<1>2. work' = [work EXCEPT ![k] = e] /\ work'[k] = e
  BY DEF IInv, Execute
<1>3. ExecutionOK(k)' /\ ~Creating(k)'
  BY <1>1, <1>2 DEF ExecutionOK, Creating, At, Groups
<1>4. UNCHANGED <<now, exists, table, registry, created>>
  BY DEF Execute, database
<1> QED
  BY <1>2, <1>3, <1>4, TablesStay, StepOf

LEMMA ReturnStep ==
  ASSUME IInv, NEW k \in Worker, Return(k)
  PROVE  IInv'
<1>1. work' = [work EXCEPT ![k] = Idle] /\ work'[k] = Idle
  BY DEF IInv, Return
<1>2. ExecutionOK(k)' /\ ~Creating(k)'
  BY <1>1, IdleOK DEF ExecutionOK, Creating, At, Groups, Idle
<1>3. UNCHANGED <<now, exists, table, registry, created>>
  BY DEF Return, database
<1> QED
  BY <1>1, <1>2, <1>3, TablesStay, StepOf

\* Every row of the batch is in the group of a month, its own if it has one.
LEMMA GroupsOfRows ==
  ASSUME now \in Month, NEW rows \in SUBSET Row
  PROVE  /\ group_by_table(rows) \in Groupings
         /\ \A m \in DOMAIN group_by_table(rows) : \A r \in group_by_table(rows)[m] :
               MonthOf[r] \in {m, NONE}
         /\ \A r \in rows : \E m \in DOMAIN group_by_table(rows) : r \in group_by_table(rows)[m]
         /\ rows = {} => DOMAIN group_by_table(rows) = {}
<1>1. \A r \in rows : _resolve_table(r) \in Month /\ MonthOf[r] \in {_resolve_table(r), NONE}
  BY DEF _resolve_table
<1> DEFINE D == {_resolve_table(r) : r \in rows}
<1>2. D \in SUBSET Month
  BY <1>1
<1>3. group_by_table(rows) \in [D -> SUBSET Row]
  BY DEF group_by_table
<1> QED
  BY <1>1, <1>2, <1>3 DEF group_by_table, Groupings

LEMMA TransformStep ==
  ASSUME IInv, NEW k \in Worker, Transform(k)
  PROVE  IInv'
<1> PICK valid \in SUBSET Head(work[k].rest) :
       work' = [work EXCEPT ![k] = [@ EXCEPT
                   !.pc = IF valid = {} THEN "extract" ELSE "route",
                   !.rest = Tail(work[k].rest), !.valid = work[k].valid \cup valid,
                   !.groups = group_by_table(valid)]]
  BY DEF Transform
<1> DEFINE w == work[k]
           e == [w EXCEPT !.pc = IF valid = {} THEN "extract" ELSE "route",
                   !.rest = Tail(w.rest), !.valid = w.valid \cup valid,
                   !.groups = group_by_table(valid)]
<1>1. ExecutionOK(k) /\ w \in Executions /\ At(k, "extract") /\ w.rest # <<>>
  BY DEF IInv, Transform, ExecutionOK
<1>2. w.rest \in Seq(SUBSET Row) /\ valid \in SUBSET Row /\ Tail(w.rest) \in Seq(SUBSET Row)
  <2>1. w.rest \in Seq(SUBSET Row)
    BY <1>1 DEF Executions
  <2> HIDE DEF w
  <2> QED
    BY <1>1, <2>1 DEF w
<1>3. now \in Month
  BY DEF IInv, TablesOK
<1>4. /\ e \in Executions
      /\ e.pc = IF valid = {} THEN "extract" ELSE "route"
      /\ e.valid = w.valid \cup valid
      /\ e.groups = group_by_table(valid)
  BY <1>1, <1>2, <1>3, GroupsOfRows DEF Executions, PCs
<1>5. work' = [work EXCEPT ![k] = e] /\ work'[k] = e
  <2>1. work' = [work EXCEPT ![k] = e]
    OBVIOUS
  <2> HIDE DEF e
  <2> QED
    BY <2>1 DEF IInv
<1>6. UNCHANGED <<now, exists, table, registry, created>>
  BY DEF Transform, database
<1>7. \A r \in w.valid : InTable(r)
  <2>1. DOMAIN Groups(k) = {}
    BY <1>1 DEF ExecutionOK
  <2>2. \A r \in w.valid : InTable(r) \/ \E m \in DOMAIN Groups(k) : r \in Groups(k)[m]
    BY <1>1 DEF ExecutionOK
  <2> QED
    BY <2>1, <2>2
<1>8. \A r \in w.valid : InTable(r)'
  BY <1>6, <1>7 DEF InTable
<1>9. ExecutionOK(k)' /\ ~Creating(k)'
  <2> DEFINE groups == group_by_table(valid)
  <2>1. /\ work'[k].groups = groups /\ work'[k].valid = w.valid \cup valid
        /\ work'[k] \in Executions
        /\ work'[k].pc = IF valid = {} THEN "extract" ELSE "route"
    BY <1>4, <1>5
  <2>2. /\ \A m \in DOMAIN groups : \A r \in groups[m] : MonthOf[r] \in {m, NONE}
        /\ \A r \in valid : \E m \in DOMAIN groups : r \in groups[m]
        /\ valid = {} => DOMAIN groups = {}
    BY <1>2, <1>3, GroupsOfRows
  <2> HIDE DEF e, w, groups
  <2>3. \A r \in work'[k].valid : InTable(r)' \/ \E m \in DOMAIN groups : r \in groups[m]
    BY <1>8, <2>1, <2>2
  <2> QED
    BY <2>1, <2>2, <2>3 DEF ExecutionOK, Creating, At, Groups
<1> QED
  BY <1>5, <1>6, <1>9, TablesStay, StepOf
-----------------------------------------------------------------------------
\* A step that only moves an execution on, to a group that remains.
LEMMA MovesOn ==
  ASSUME NEW k \in Worker, ExecutionOK(k), NEW pc \in {"create", "register", "add", "load"},
         NEW m \in DOMAIN Groups(k),
         work'[k] = [work[k] EXCEPT !.pc = pc, !.month = m],
         Grows, pc = "register" => m \in exists', pc \in {"add", "load"} => Ready(m)'
  PROVE  ExecutionOK(k)'
<1> DEFINE e == [work[k] EXCEPT !.pc = pc, !.month = m]
<1>1. /\ DOMAIN Groups(k) \subseteq Month
      /\ work[k].valid \subseteq Row
  BY DEF ExecutionOK, Executions, Groupings, Groups
<1>2. /\ e \in Executions /\ e.pc = pc /\ e.month = m /\ e.groups = work[k].groups
      /\ e.valid = work[k].valid
  BY <1>1 DEF ExecutionOK, Executions, PCs
<1>3. \A r \in Row : InTable(r) => InTable(r)'
  BY DEF Grows, InTable
<1> HIDE DEF e
<1> QED
  BY <1>1, <1>2, <1>3 DEF ExecutionOK, Groups, At, Creating, e

LEMMA RouteStep ==
  ASSUME IInv, NEW k \in Worker, NEW m \in Month, TableKnown(k, m) \/ LockTable(k, m)
  PROVE  IInv'
<1>1. UNCHANGED <<now, exists, table, registry, created>>
  BY DEF TableKnown, LockTable, database
<1>2. Grows /\ TablesOK'
  BY <1>1, TablesStay
<1>3. m \in DOMAIN Groups(k) /\ ExecutionOK(k)
  BY DEF TableKnown, LockTable, Groups, IInv
<1>4. CASE TableKnown(k, m)
  <2> DEFINE e == [work[k] EXCEPT !.pc = "load", !.month = m]
  <2>1. work' = [work EXCEPT ![k] = e] /\ work'[k] = e
    BY <1>4 DEF IInv, TableKnown
  <2>2. Ready(m)'
    BY <1>4, <1>1 DEF TableKnown, IInv, TablesOK, Ready
  <2>3. ExecutionOK(k)'
    BY <1>2, <1>3, <2>1, <2>2, MovesOn
  <2>4. e.pc = "load"
    BY <1>3 DEF ExecutionOK, Executions
  <2>5. ~Creating(k)'
    BY <2>1, <2>4 DEF Creating
  <2> QED
    BY <1>2, <2>1, <2>3, <2>5, StepOf
<1>5. CASE LockTable(k, m)
  <2> DEFINE e == [work[k] EXCEPT !.pc = "create", !.month = m]
  <2>1. work' = [work EXCEPT ![k] = e] /\ work'[k] = e
    BY <1>5 DEF IInv, LockTable
  <2>2. ExecutionOK(k)'
    BY <1>2, <1>3, <2>1, MovesOn
  <2>3. \A j \in Worker : Creating(j) => work[j].month # work'[k].month
    BY <1>3, <1>5, <2>1 DEF LockTable, ExecutionOK, Executions
  <2> QED
    BY <1>2, <2>1, <2>2, <2>3, StepOf
<1> QED
  BY <1>4, <1>5

\* The table is created, registered and added to those that are known.
LEMMA CreateStep ==
  ASSUME IInv, NEW k \in Worker, _create_table(k) \/ Register(k) \/ AddCreated(k)
  PROVE  IInv'
<1> DEFINE m == work[k].month
           moved(pc) == [work[k] EXCEPT !.pc = pc]
<1>1. /\ ExecutionOK(k) /\ Creating(k) /\ m \in DOMAIN Groups(k) /\ m \in Month
      /\ work[k] \in Executions
  BY DEF _create_table, Register, AddCreated, IInv, ExecutionOK, Creating, At, Groups, Executions, Groupings
<1>2. \A pc \in PCs : moved(pc) = [work[k] EXCEPT !.pc = pc, !.month = m] /\ moved(pc).month = m
  BY <1>1 DEF Executions
<1>3. CASE _create_table(k)
  <2>1. work' = [work EXCEPT ![k] = moved("register")] /\ work'[k] = moved("register")
    BY <1>3 DEF _create_table, IInv
  <2>2. Grows /\ TablesOK' /\ m \in exists'
    BY <1>1, <1>3 DEF _create_table, IInv, TablesOK, Grows, Ready
  <2>3. ExecutionOK(k)'
    <3>1. work'[k] = [work[k] EXCEPT !.pc = "register", !.month = m]
      BY <1>2, <2>1 DEF PCs
    <3> QED
      BY <1>1, <2>2, <3>1, MovesOn
  <2> QED
    BY <1>1, <1>2, <2>1, <2>2, <2>3, StepOf DEF PCs
<1>4. CASE Register(k)
  <2>1. work' = [work EXCEPT ![k] = moved("add")] /\ work'[k] = moved("add")
    BY <1>4 DEF Register, IInv
  <2>2. m \in exists
    BY <1>4 DEF Register, IInv, ExecutionOK
  <2>3. registry' \in [Month -> {"none", "ACTIVE", "ARCHIVED"}] /\ registry'[m] # "none"
    BY <1>1, <1>4 DEF Register, IInv, TablesOK
  <2>4. \A n \in Month : registry[n] # "none" => registry'[n] # "none"
    BY <1>1, <1>4 DEF Register, IInv, TablesOK
  <2>5. Grows /\ TablesOK' /\ m \in exists' /\ registry'[m] # "none"
    BY <1>1, <1>4, <2>2, <2>3, <2>4 DEF Register, IInv, TablesOK, Grows, Ready
  <2>6. ExecutionOK(k)'
    <3>1. work'[k] = [work[k] EXCEPT !.pc = "add", !.month = m]
      BY <1>2, <2>1 DEF PCs
    <3> QED
      BY <1>1, <2>5, <3>1, MovesOn DEF Ready
  <2> QED
    BY <1>1, <1>2, <2>1, <2>5, <2>6, StepOf DEF PCs
<1>5. CASE AddCreated(k)
  <2>1. work' = [work EXCEPT ![k] = moved("load")] /\ work'[k] = moved("load")
    BY <1>5 DEF AddCreated, IInv
  <2>2. Ready(m)
    BY <1>5 DEF AddCreated, IInv, ExecutionOK
  <2>3. Grows /\ TablesOK' /\ m \in exists' /\ registry'[m] # "none"
    BY <1>1, <1>5, <2>2 DEF AddCreated, database, IInv, TablesOK, Grows, Ready
  <2>4. ExecutionOK(k)'
    <3>1. work'[k] = [work[k] EXCEPT !.pc = "load", !.month = m]
      BY <1>2, <2>1 DEF PCs
    <3> QED
      BY <1>1, <2>3, <3>1, MovesOn DEF Ready
  <2> QED
    BY <1>1, <1>2, <2>1, <2>3, <2>4, StepOf DEF PCs
<1> QED
  BY <1>3, <1>4, <1>5
-----------------------------------------------------------------------------
\* The copies of row r in the table of n after rows were inserted into that of m.
Stored(m, rows, n, r) ==
    IF n = m /\ r \in rows
    THEN /\ table'[n][r] > 0
         /\ m \in Keyed /\ table[n][r] <= 1 => table'[n][r] <= 1
    ELSE table'[n][r] = table[n][r]

LEMMA InsertPoints ==
  ASSUME NEW m \in Month, NEW rows \in SUBSET Row, Insert(m, rows),
         table \in [Month -> [Row -> Nat]]
  PROVE  /\ table' \in [Month -> [Row -> Nat]]
         /\ \A n \in Month, r \in Row : Stored(m, rows, n, r)
<1> DEFINE more(r) == IF \/ r \notin rows
                         \/ m \in Keyed /\ table[m][r] > 0
                         \/ table[m][r] = MaxCopies
                      THEN table[m][r] ELSE table[m][r] + 1
<1>1. \A r \in Row : table[m][r] \in Nat /\ more(r) \in Nat
  OBVIOUS
<1>2. table' = [table EXCEPT ![m] = [r \in Row |-> more(r)]]
  BY DEF Insert
<1>3. \A n \in Month, r \in Row : table'[n][r] = IF n = m THEN more(r) ELSE table[n][r]
  <2> HIDE DEF more
  <2> QED
    BY <1>2
<1>4. table' \in [Month -> [Row -> Nat]]
  <2> HIDE DEF more
  <2> QED
    BY <1>1, <1>2
<1>5. \A r \in Row : IF r \in rows
                     THEN more(r) > 0 /\ (m \in Keyed /\ table[m][r] <= 1 => more(r) <= 1)
                     ELSE more(r) = table[m][r]
  BY <1>1
<1>6. ASSUME NEW n \in Month, NEW r \in Row PROVE Stored(m, rows, n, r)
  <2> HIDE DEF more
  <2> QED
    BY <1>3, <1>5 DEF Stored
<1> QED
  BY <1>4, <1>6

\* INSERT IGNORE of the group of the month: the rows are in the table, once if it has
\* a key.
LEMMA InsertEffect ==
  ASSUME IInv, NEW k \in Worker, At(k, "load"),
         Insert(work[k].month, work[k].groups[work[k].month]),
         UNCHANGED <<now, exists, registry, created>>
  PROVE  /\ Grows /\ TablesOK'
         /\ \A r \in Groups(k)[work[k].month] : InTable(r)'
<1> DEFINE m == work[k].month
<1>1. /\ m \in DOMAIN Groups(k) /\ m \in Month /\ Groups(k)[m] \subseteq Row /\ Ready(m)
      /\ \A r \in Groups(k)[m] : MonthOf[r] \in {m, NONE}
  BY DEF IInv, ExecutionOK, Executions, Groupings, Groups
<1>2. /\ table' \in [Month -> [Row -> Nat]]
      /\ \A n \in Month, r \in Row : Stored(m, Groups(k)[m], n, r)
  BY <1>1, InsertPoints DEF Groups, IInv, TablesOK
<1>3. Grows
  BY <1>2 DEF Grows, Stored
<1>4. TablesOK'
  <2>1. \A n \in Month, r \in Row : table'[n][r] > 0 => Ready(n) /\ MonthOf[r] \in {n, NONE}
    BY <1>1, <1>2 DEF IInv, TablesOK, Stored
  <2>2. \A n \in Keyed, r \in Row : table'[n][r] <= 1
    BY <1>2 DEF IInv, TablesOK, Stored
  <2> QED
    BY <1>2, <2>1, <2>2 DEF IInv, TablesOK, Ready
<1>5. \A r \in Groups(k)[m] : InTable(r)'
  BY <1>1, <1>2 DEF InTable, Stored
<1> QED
  BY <1>3, <1>4, <1>5

LEMMA LoadStep ==
  ASSUME IInv, NEW k \in Worker, load_batch(k)
  PROVE  IInv'
<1> DEFINE w == work[k]
           D == DOMAIN w.groups \ {w.month}
           rest == Restrict(w.groups, D)
           e == [w EXCEPT !.groups = rest, !.month = NONE,
                    !.pc = IF DOMAIN rest = {} THEN "extract" ELSE "route"]
<1>1. ExecutionOK(k) /\ w \in Executions
  BY DEF IInv, ExecutionOK
<1>2. /\ Grows /\ TablesOK'
      /\ \A r \in w.groups[w.month] : InTable(r)'
  BY InsertEffect DEF load_batch, Groups
<1>3. work' = [work EXCEPT ![k] = e] /\ work'[k] = e
  BY DEF IInv, load_batch, Loaded
<1>4. /\ rest \in Groupings /\ DOMAIN rest = D
      /\ \A m \in D : rest[m] = w.groups[m]
  <2>1. w.groups \in Groupings
    BY <1>1 DEF Executions
  <2>2. D \in SUBSET Month /\ \A m \in D : w.groups[m] \in SUBSET Row
    BY <2>1 DEF Groupings
  <2>3. rest = [m \in D |-> w.groups[m]]
    BY DEF Restrict
  <2>4. rest \in [D -> SUBSET Row]
    BY <2>2, <2>3
  <2> QED
    BY <2>2, <2>3, <2>4 DEF Groupings
<1>5. /\ e \in Executions /\ e.groups = rest /\ e.valid = w.valid
      /\ e.pc = IF DOMAIN rest = {} THEN "extract" ELSE "route"
  <2> HIDE DEF rest
  <2> QED
    BY <1>1, <1>4 DEF Executions, PCs
<1>6. \A r \in w.valid : InTable(r)' \/ \E m \in D : r \in w.groups[m]
  <2>1. \A r \in Row : InTable(r) => InTable(r)'
    BY <1>2 DEF Grows, InTable
  <2>2. w.valid \subseteq Row
    BY <1>1 DEF Executions
  <2>3. \A r \in w.valid : InTable(r) \/ \E m \in DOMAIN w.groups : r \in w.groups[m]
    BY <1>1 DEF ExecutionOK, Groups
  <2> QED
    BY <1>2, <2>1, <2>2, <2>3
<1>7. \A m \in D : \A r \in w.groups[m] : MonthOf[r] \in {m, NONE}
  BY <1>1 DEF ExecutionOK, Groups
<1>8. ExecutionOK(k)' /\ ~Creating(k)'
  <2> HIDE DEF e, w, D, rest
  <2>1. /\ work'[k].groups = rest /\ work'[k].valid = w.valid
        /\ work'[k] \in Executions
        /\ work'[k].pc = IF DOMAIN rest = {} THEN "extract" ELSE "route"
    BY <1>3, <1>5
  <2>2. \A r \in work'[k].valid : InTable(r)' \/ \E m \in DOMAIN rest : r \in rest[m]
    BY <1>4, <1>6, <2>1
  <2>3. \A m \in DOMAIN rest : \A r \in rest[m] : MonthOf[r] \in {m, NONE}
    BY <1>4, <1>7
  <2> QED
    BY <2>1, <2>2, <2>3 DEF ExecutionOK, Creating, At, Groups
<1> HIDE DEF e
<1> QED
  BY <1>2, <1>3, <1>8, StepOf

\* The rows are loaded, and the execution ends without knowing.
LEMMA AckIsLostStep ==
  ASSUME IInv, NEW k \in Worker, AckIsLost(k)
  PROVE  IInv'
<1> DEFINE e == [work[k] EXCEPT !.pc = "done", !.status = "RETRY"]
<1>1. Grows /\ TablesOK'
  BY InsertEffect DEF AckIsLost
<1>2. work' = [work EXCEPT ![k] = e] /\ work'[k] = e /\ ExecutionOK(k) /\ work[k] \in Executions
  BY DEF IInv, AckIsLost, Ends, ExecutionOK
<1>3. /\ e \in Executions /\ e.pc = "done" /\ e.status = "RETRY"
      /\ e.groups = work[k].groups /\ e.valid = work[k].valid
  BY <1>2 DEF Executions, PCs, Statuses
<1>4. \A r \in Row : InTable(r) => InTable(r)'
  BY <1>1 DEF Grows, InTable
<1>5. work[k].valid \subseteq Row
  BY <1>2 DEF Executions
<1>6. ExecutionOK(k)' /\ ~Creating(k)'
  <2> HIDE DEF e
  <2> QED
    BY <1>2, <1>3, <1>4, <1>5 DEF ExecutionOK, Creating, At, Groups
<1> QED
  BY <1>1, <1>2, <1>6, StepOf
-----------------------------------------------------------------------------
\* Steps outside the executions, and the crash that ends all of them.
LEMMA AroundStep ==
  ASSUME IInv,
         \/ MonthPasses \/ Crash \/ UNCHANGED vars
         \/ \E cutoff \in Month : Archive(cutoff)
  PROVE  IInv'
<1>1. CASE Crash
  <2>1. TablesOK'
    BY <1>1 DEF Crash, database, IInv, TablesOK, Ready
  <2>2. DOMAIN work' = Worker /\ \A k \in Worker : work'[k] = Idle
    BY <1>1 DEF Crash
  <2>3. \A k \in Worker : ExecutionOK(k)'
    <3>1. Idle.pc = "idle" /\ DOMAIN Idle.groups = {} /\ Idle.valid = {}
      BY DEF Idle
    <3> QED
      BY <2>2, <3>1, IdleOK DEF ExecutionOK, Creating, At, Groups
  <2>4. OneCreates'
    BY <2>2 DEF OneCreates, Creating, Idle
  <2> QED
    BY <2>1, <2>2, <2>3, <2>4 DEF IInv
<1>2. CASE ~Crash
  <2>1. work' = work
    BY <1>2 DEF MonthPasses, Archive, vars
  <2>2. TablesOK' /\ Grows
    <3>1. CASE MonthPasses
      BY <3>1 DEF MonthPasses, database, IInv, TablesOK, Ready, Grows, Month
    <3>2. CASE UNCHANGED vars
      BY <3>2 DEF vars, IInv, TablesOK, Ready, Grows
    <3>3. ASSUME NEW cutoff \in Month, Archive(cutoff) PROVE TablesOK' /\ Grows
      BY <3>3 DEF Archive, IInv, TablesOK, Ready, Grows
    <3> QED
      BY <1>2, <3>1, <3>2, <3>3
  <2>3. \A k \in Worker : ExecutionOK(k)'
    BY <2>1, <2>2, OthersStay DEF IInv
  <2> QED
    BY <2>1, <2>2, <2>3 DEF IInv, OneCreates, Creating
<1> QED
  BY <1>1, <1>2

LEMMA FailStep ==
  ASSUME IInv, NEW k \in Worker,
         \/ ExtractFails(k) \/ StreamEnds(k) \/ TransformFails(k)
         \/ EnsureFails(k) \/ LoadFails(k)
  PROVE  IInv'
<1>1. UNCHANGED <<now, exists, table, registry, created>>
  BY DEF ExtractFails, StreamEnds, TransformFails, EnsureFails, LoadFails, database
<1>2. CASE StreamEnds(k)
  <2>1. At(k, "extract") /\ ExecutionOK(k)
    BY <1>2 DEF StreamEnds, IInv
  <2>2. DOMAIN Groups(k) = {}
    BY <2>1 DEF ExecutionOK
  <2> QED
    BY <1>1, <1>2, <2>2, EndsStep DEF StreamEnds, Statuses
<1>3. CASE ~StreamEnds(k)
  <2>1. \E status \in Statuses \ {"SUCCESS"} : Ends(k, status)
    BY <1>3 DEF ExtractFails, TransformFails, EnsureFails, LoadFails, Statuses
  <2> QED
    BY <1>1, <2>1, EndsStep
<1> QED
  BY <1>2, <1>3

LEMMA NextIInv == IInv /\ [Next]_vars => IInv'
  BY AroundStep, ExecuteStep, FailStep, TransformStep, RouteStep, CreateStep, LoadStep,
     AckIsLostStep, ReturnStep DEF Next, Step

LEMMA AlwaysIInv == Spec => []IInv
  BY InitIInv, NextIInv, PTL DEF Spec

\* When a file succeeds, every row that the transformer kept is in a table, and in the
\* table of its own month if its partition_field can be read.
SuccessMeansLoaded ==
    \A k \in Worker : At(k, "done") /\ work[k].status = "SUCCESS" =>
        \A r \in work[k].valid : InTable(r)

LEMMA Consequences == IInv => TypeOK /\ SuccessMeansLoaded /\ NoRowTwice /\ LoadedIsRegistered
<1> SUFFICES ASSUME IInv PROVE TypeOK /\ SuccessMeansLoaded /\ NoRowTwice /\ LoadedIsRegistered
  OBVIOUS
<1>1. TypeOK
  <2>1. /\ now \in Nat /\ exists \subseteq Month /\ created \subseteq Month
        /\ registry \in [Month -> {"none", "ACTIVE", "ARCHIVED"}]
    BY DEF IInv, TablesOK, Month
  <2>2. table \in [Month -> [Row -> Nat]]
    BY DEF IInv, TablesOK
  <2>3. ASSUME NEW k \in Worker
        PROVE  work[k].pc \in PCs /\ work[k].status \in Statuses /\ work[k].valid \subseteq Row
    <3>1. work[k] \in Executions
      BY DEF IInv, ExecutionOK
    <3> QED
      BY <3>1 DEF Executions
  <2>4. OneCreates
    BY DEF IInv
  <2> QED
    BY <2>1, <2>2, <2>3, <2>4 DEF TypeOK, OneCreates, PCs
<1>2. SuccessMeansLoaded
  BY DEF IInv, ExecutionOK, SuccessMeansLoaded
<1>3. NoRowTwice /\ LoadedIsRegistered
  BY DEF IInv, TablesOK, NoRowTwice, LoadedIsRegistered, Ready
<1> QED
  BY <1>1, <1>2, <1>3

\* Every variable keeps its type, and one worker creates the table of a month.
THEOREM TypeCorrect == Spec => []TypeOK
  BY AlwaysIInv, Consequences, PTL

\* A file that succeeds has all rows that were kept in the tables.
THEOREM SuccessLoadsAll == Spec => []SuccessMeansLoaded
  BY AlwaysIInv, Consequences, PTL

\* For any workers, files and executions: a row with a month is in the table of its month
\* and in no other, and in the tables of Keyed, whose template declares the unique key
\* that loader.py:3-6 presupposes, no row is twice.  Of the other tables nothing is
\* claimed about the number of copies.
THEOREM NoDuplicates == Spec => []NoRowTwice
  BY AlwaysIInv, Consequences, PTL

\* No table holds rows without being registered.
THEOREM RegisteredFirst == Spec => []LoadedIsRegistered
  BY AlwaysIInv, Consequences, PTL
-----------------------------------------------------------------------------
(***************************************************************************)
(* The pipeline implements FileLoading.  Beyond IInv this needs to know    *)
(* where the rows of an execution come from: what remains of the file is   *)
(* of the file, and what is in the groups was kept.                        *)
(***************************************************************************)
Origin(k) ==
    /\ At(k, "idle") => work[k] = Idle
    /\ ~At(k, "idle") => /\ work[k].file \in File
                         /\ \A i \in DOMAIN work[k].rest : work[k].rest[i] \subseteq RowsOf[work[k].file]
    /\ \A m \in DOMAIN Groups(k) : Groups(k)[m] \subseteq work[k].valid

OriginInv == \A k \in Worker : Origin(k)

LEMMA InitOrigin == Init => OriginInv
  BY DEF Init, OriginInv, Origin, At, Groups, Idle

\* A step of worker k.
LEMMA OriginOf ==
  ASSUME IInv, OriginInv, NEW k \in Worker, NEW e, work' = [work EXCEPT ![k] = e], Origin(k)'
  PROVE  OriginInv'
<1>1. \A j \in Worker \ {k} : work'[j] = work[j]
  BY DEF IInv
<1>2. \A j \in Worker \ {k} : Origin(j)'
  BY <1>1 DEF OriginInv, Origin, At, Groups
<1> QED
  BY <1>2 DEF OriginInv

\* What the abstract state sees of a step that leaves the other executions alone.
Touches(k) == \A j \in Worker \ {k} : work'[j] = work[j]

LEMMA ViewOf ==
  ASSUME NEW k \in Worker, Touches(k)
  PROVE  /\ fileOf' = [fileOf EXCEPT ![k] = work'[k].file]
         /\ keptOf' = [keptOf EXCEPT ![k] = work'[k].valid]
         /\ resultOf' = [resultOf EXCEPT ![k] = IF work'[k].pc = "done" THEN work'[k].status ELSE "none"]
BY DEF Touches, fileOf, keptOf, resultOf, At

LEMMA SameView ==
  ASSUME NEW k \in Worker, Touches(k)
  PROVE  /\ work'[k].file = work[k].file => fileOf' = fileOf
         /\ work'[k].valid = work[k].valid => keptOf' = keptOf
         /\ work'[k].pc # "done" /\ work[k].pc # "done" => resultOf' = resultOf
BY DEF Touches, fileOf, keptOf, resultOf, At

\* An execution under way is running for the abstract specification as well.
LEMMA RunningOf ==
  ASSUME OriginInv, NEW k \in Worker, ~At(k, "idle"), ~At(k, "done")
  PROVE  Loading!Running(k)
<1>1. work[k].file # NONE
  BY DEF OriginInv, Origin
<1> QED
  BY <1>1 DEF fileOf, resultOf, Loading!Running

\* Steps within an execution that neither take a batch nor load one.
Walks(k, e) ==
    /\ work' = [work EXCEPT ![k] = e]
    /\ e.pc # "idle" /\ e.file = work[k].file /\ e.valid = work[k].valid
    /\ e.rest = work[k].rest /\ e.groups = work[k].groups

LEMMA WalksOrigin ==
  ASSUME IInv, OriginInv, NEW k \in Worker, ~At(k, "idle"), NEW e, Walks(k, e)
  PROVE  OriginInv'
<1>1. work'[k] = e
  BY DEF IInv, Walks
<1>2. Origin(k)'
  BY <1>1 DEF Walks, OriginInv, Origin, At, Groups
<1> QED
  BY <1>2, OriginOf DEF Walks

\* An execution that ends, for a reason or with all rows in the tables.
LEMMA EndsLoading ==
  ASSUME IInv, OriginInv, NEW k \in Worker, ~At(k, "idle"), ~At(k, "done"),
         NEW status \in Statuses, Ends(k, status), table' = table,
         status = "SUCCESS" => DOMAIN Groups(k) = {}
  PROVE  Loading!Next /\ OriginInv'
<1> DEFINE e == [work[k] EXCEPT !.pc = "done", !.status = status]
<1>1. work' = [work EXCEPT ![k] = e] /\ work[k] \in Executions
  BY DEF IInv, Ends, ExecutionOK
<1>2. /\ e.pc = "done" /\ e.status = status /\ e.groups = work[k].groups
      /\ e.valid = work[k].valid /\ e.file = work[k].file /\ e.rest = work[k].rest
  BY <1>1 DEF Executions
<1> HIDE DEF e
<1>3. OriginInv'
  BY <1>1, <1>2, WalksOrigin DEF Walks
<1>4. /\ fileOf' = fileOf /\ keptOf' = keptOf
      /\ resultOf' = [resultOf EXCEPT ![k] = status]
  <2>1. work'[k] = e /\ Touches(k)
    BY <1>1 DEF IInv, Touches
  <2> QED
    BY <1>2, <2>1, ViewOf, SameView
<1>5. storedRows' = storedRows
  BY DEF storedRows
<1>6. ASSUME status = "SUCCESS" PROVE Loading!Complete(k)
  <2>1. keptOf[k] = work[k].valid /\ work[k].valid \subseteq Row
    BY <1>1 DEF keptOf, Executions
  <2>2. \A r \in work[k].valid : InTable(r)
    BY <1>6 DEF IInv, ExecutionOK
  <2>3. ASSUME NEW r \in work[k].valid
        PROVE  \E m \in Month : MonthOf[r] \in {m, NONE} /\ table[m][r] > 0
    BY <2>1, <2>2 DEF InTable
  <2>4. \A m \in Month, r \in Row : table[m][r] > 0 => <<m, r>> \in storedRows
    BY DEF storedRows
  <2> QED
    BY <2>1, <2>3, <2>4 DEF Loading!Complete, Loading!Belongs
<1>7. Loading!End(k, status)
  BY <1>4, <1>5, <1>6, RunningOf DEF Loading!End
<1> QED
  BY <1>3, <1>7 DEF Loading!Next, Statuses
-----------------------------------------------------------------------------
LEMMA ExecuteLoading ==
  ASSUME IInv, OriginInv, NEW k \in Worker, NEW f \in File, Execute(k, f)
  PROVE  Loading!Next /\ OriginInv'
<1> DEFINE e == [Idle EXCEPT !.pc = "extract", !.file = f, !.rest = Content[f]]
<1>1. work' = [work EXCEPT ![k] = e] /\ work'[k] = e /\ work[k] = Idle /\ ~At(k, "done")
  BY DEF IInv, Execute, OriginInv, Origin, At
<1>2. /\ e.pc = "extract" /\ e.file = f /\ e.valid = {} /\ e.rest = Content[f]
      /\ DOMAIN e.groups = {}
  BY DEF Idle
<1>3. \A i \in DOMAIN Content[f] : Content[f][i] \subseteq RowsOf[f]
  BY DEF RowsOf
<1> HIDE DEF e
<1>4. OriginInv'
  <2>1. Origin(k)'
    BY <1>1, <1>2, <1>3 DEF Origin, At, Groups
  <2> QED
    BY <1>1, <2>1, OriginOf
<1>5. Loading!Begin(k, f)
  <2>1. storedRows' = storedRows
    BY DEF Execute, database, storedRows
  <2>2. work[k].valid = {} /\ fileOf[k] = NONE
    BY <1>1 DEF Idle, fileOf
  <2>3. fileOf' = [fileOf EXCEPT ![k] = f] /\ keptOf' = keptOf /\ resultOf' = resultOf
    <3>1. Touches(k)
      BY <1>1 DEF IInv, Touches
    <3> QED
      BY <1>1, <1>2, <2>2, <3>1, ViewOf, SameView DEF At
  <2> QED
    BY <2>1, <2>2, <2>3 DEF Loading!Begin
<1> QED
  BY <1>4, <1>5 DEF Loading!Next

LEMMA TransformLoading ==
  ASSUME IInv, OriginInv, NEW k \in Worker, Transform(k)
  PROVE  Loading!Next /\ OriginInv'
<1> PICK valid \in SUBSET Head(work[k].rest) :
       work' = [work EXCEPT ![k] = [@ EXCEPT
                   !.pc = IF valid = {} THEN "extract" ELSE "route",
                   !.rest = Tail(work[k].rest), !.valid = work[k].valid \cup valid,
                   !.groups = group_by_table(valid)]]
  BY DEF Transform
<1> DEFINE w == work[k]
           e == [w EXCEPT !.pc = IF valid = {} THEN "extract" ELSE "route",
                   !.rest = Tail(w.rest), !.valid = w.valid \cup valid,
                   !.groups = group_by_table(valid)]
<1>1. work' = [work EXCEPT ![k] = e] /\ w \in Executions /\ At(k, "extract") /\ w.rest # <<>>
  BY DEF IInv, ExecutionOK, Transform
<1>2. /\ e.pc = IF valid = {} THEN "extract" ELSE "route"
      /\ e.file = w.file /\ e.valid = w.valid \cup valid /\ e.rest = Tail(w.rest)
      /\ e.groups = group_by_table(valid)
  BY <1>1 DEF Executions
<1>3. w.rest \in Seq(SUBSET Row) /\ w.file \in File
      /\ \A i \in DOMAIN w.rest : w.rest[i] \subseteq RowsOf[w.file]
  BY <1>1 DEF Executions, OriginInv, Origin, At
<1> HIDE DEF e
<1>4. work'[k] = e
  BY <1>1 DEF IInv
<1>5. valid \subseteq RowsOf[w.file]
  <2> HIDE DEF w
  <2>1. 1 \in DOMAIN w.rest /\ Head(w.rest) = w.rest[1]
    BY <1>1, <1>3
  <2> QED
    BY <1>3, <2>1 DEF w
<1>6. \A i \in DOMAIN e.rest : e.rest[i] \subseteq RowsOf[w.file]
  <2> HIDE DEF w
  <2>1. \A i \in DOMAIN Tail(w.rest) : i + 1 \in DOMAIN w.rest /\ Tail(w.rest)[i] = w.rest[i + 1]
    BY <1>1, <1>3
  <2> QED
    BY <1>2, <1>3, <2>1
<1>7. OriginInv'
  <2>1. \A m \in DOMAIN group_by_table(valid) : group_by_table(valid)[m] \subseteq valid
    BY DEF group_by_table
  <2>2. Origin(k)'
    BY <1>2, <1>3, <1>4, <1>6, <2>1 DEF Origin, At, Groups
  <2> QED
    BY <1>1, <2>2, OriginOf
<1>8. Loading!Keep(k)
  <2>1. storedRows' = storedRows
    BY DEF Transform, database, storedRows
  <2>2. /\ fileOf' = fileOf /\ resultOf' = resultOf
        /\ keptOf' = [keptOf EXCEPT ![k] = w.valid \cup valid]
    <3>1. Touches(k)
      BY <1>1 DEF IInv, Touches
    <3> QED
      BY <1>1, <1>2, <1>4, <3>1, ViewOf, SameView DEF At
  <2>3. keptOf[k] = w.valid /\ fileOf[k] = w.file
    BY DEF keptOf, fileOf
  <2>4. Loading!Running(k)
    BY <1>1, RunningOf DEF At
  <2> QED
    BY <1>5, <2>1, <2>2, <2>3, <2>4 DEF Loading!Keep
<1> QED
  BY <1>7, <1>8 DEF Loading!Next

\* Steps that the abstract specification does not see.
LEMMA WalksLoading ==
  ASSUME IInv, OriginInv, NEW k \in Worker, ~At(k, "idle"), ~At(k, "done"), table' = table,
         NEW e, Walks(k, e), e.pc # "done"
  PROVE  UNCHANGED Loading!loadingVars /\ OriginInv'
<1>1. fileOf' = fileOf /\ keptOf' = keptOf /\ resultOf' = resultOf
  <2>1. work'[k] = e /\ Touches(k)
    BY DEF IInv, Walks, Touches
  <2> QED
    BY <2>1, SameView DEF Walks, At
<1>2. storedRows' = storedRows
  BY DEF storedRows
<1> QED
  BY <1>1, <1>2, WalksOrigin DEF Loading!loadingVars

LEMMA TableLoading ==
  ASSUME IInv, OriginInv, NEW k \in Worker,
         \/ \E m \in Month : TableKnown(k, m) \/ LockTable(k, m)
         \/ _create_table(k) \/ Register(k) \/ AddCreated(k)
  PROVE  UNCHANGED Loading!loadingVars /\ OriginInv'
<1>1. work[k] \in Executions
  BY DEF IInv, ExecutionOK
<1>2. ~At(k, "idle") /\ ~At(k, "done") /\ table' = table
  BY DEF TableKnown, LockTable, _create_table, Register, AddCreated, At, database
<1>3. ASSUME NEW m \in Month, TableKnown(k, m) \/ LockTable(k, m)
      PROVE  \E e : Walks(k, e) /\ e.pc # "done"
  <2>1. PICK pc \in {"load", "create"} : work' = [work EXCEPT ![k] = [work[k] EXCEPT !.pc = pc, !.month = m]]
    BY <1>3 DEF TableKnown, LockTable
  <2> DEFINE e == [work[k] EXCEPT !.pc = pc, !.month = m]
  <2>2. /\ e.pc = pc /\ e.file = work[k].file /\ e.valid = work[k].valid
        /\ e.rest = work[k].rest /\ e.groups = work[k].groups
    BY <1>1 DEF Executions
  <2> QED
    BY <2>1, <2>2 DEF Walks
<1>4. CASE _create_table(k) \/ Register(k) \/ AddCreated(k)
  <2>1. PICK pc \in {"register", "add", "load"} : work' = [work EXCEPT ![k] = [work[k] EXCEPT !.pc = pc]]
    BY <1>4 DEF _create_table, Register, AddCreated
  <2> DEFINE e == [work[k] EXCEPT !.pc = pc]
  <2>2. /\ e.pc = pc /\ e.file = work[k].file /\ e.valid = work[k].valid
        /\ e.rest = work[k].rest /\ e.groups = work[k].groups
    BY <1>1 DEF Executions
  <2>3. \E d : Walks(k, d) /\ d.pc # "done"
    BY <2>1, <2>2 DEF Walks
  <2> QED
    BY <1>2, <2>3, WalksLoading
<1> QED
  BY <1>2, <1>3, <1>4, WalksLoading
-----------------------------------------------------------------------------
\* INSERT IGNORE adds the group of the month to what is stored, and the group was kept.
LEMMA InsertLoading ==
  ASSUME IInv, OriginInv, NEW k \in Worker, At(k, "load"),
         Insert(work[k].month, work[k].groups[work[k].month])
  PROVE  Loading!Stores(k)
<1> DEFINE m == work[k].month
           rows == work[k].groups[m]
<1>1. /\ m \in Month /\ rows \subseteq Row /\ rows \subseteq work[k].valid
      /\ \A r \in rows : MonthOf[r] \in {m, NONE}
  BY DEF IInv, ExecutionOK, Executions, Groupings, Groups, OriginInv, Origin
<1>2. table \in [Month -> [Row -> Nat]] /\ Insert(m, rows)
  BY DEF IInv, TablesOK
<1> HIDE DEF m, rows
<1>3. \A n \in Month, r \in Row : Stored(m, rows, n, r)
  BY <1>1, <1>2, InsertPoints
<1>4. storedRows' = storedRows \cup {<<m, r>> : r \in rows}
  <2>1. ASSUME NEW p \in Month \X Row
        PROVE  table'[p[1]][p[2]] > 0 <=> table[p[1]][p[2]] > 0 \/ \E r \in rows : p = <<m, r>>
    <3>1. p[1] \in Month /\ p[2] \in Row /\ p = <<p[1], p[2]>>
      OBVIOUS
    <3>2. (\E r \in rows : p = <<m, r>>) <=> p[1] = m /\ p[2] \in rows
      BY <3>1
    <3> QED
      BY <1>3, <3>1, <3>2 DEF Stored
  <2>2. {<<m, r>> : r \in rows} \subseteq Month \X Row
    BY <1>1
  <2> QED
    BY <2>1, <2>2 DEF storedRows
<1>5. rows \in SUBSET keptOf[k]
  BY <1>1 DEF keptOf
<1> QED
  BY <1>1, <1>4, <1>5 DEF Loading!Stores, Loading!Belongs

LEMMA LoadLoading ==
  ASSUME IInv, OriginInv, NEW k \in Worker, load_batch(k)
  PROVE  Loading!Next /\ OriginInv'
<1> DEFINE w == work[k]
           D == DOMAIN w.groups \ {w.month}
           rest == Restrict(w.groups, D)
           e == [w EXCEPT !.groups = rest, !.month = NONE,
                    !.pc = IF DOMAIN rest = {} THEN "extract" ELSE "route"]
<1>1. work' = [work EXCEPT ![k] = e] /\ w \in Executions /\ At(k, "load")
  BY DEF IInv, ExecutionOK, load_batch, Loaded
<1>2. /\ e.pc \in {"extract", "route"} /\ e.file = w.file /\ e.valid = w.valid
      /\ e.rest = w.rest /\ e.groups = rest
  <2> HIDE DEF rest
  <2> QED
    BY <1>1 DEF Executions
<1>3. DOMAIN rest = D /\ \A m \in D : rest[m] = w.groups[m]
  BY DEF Restrict
<1> HIDE DEF e, rest
<1>4. work'[k] = e
  BY <1>1 DEF IInv
<1>5. OriginInv'
  <2>1. Origin(k)'
    <3>1. Origin(k) /\ ~At(k, "idle")
      BY <1>1 DEF OriginInv, At
    <3>2. D \subseteq DOMAIN w.groups
      OBVIOUS
    <3> HIDE DEF D, w
    <3>3. \A m \in DOMAIN e.groups : e.groups[m] \subseteq e.valid
      BY <1>2, <1>3, <3>1, <3>2 DEF Origin, Groups, w
    <3> QED
      BY <1>2, <1>4, <3>1, <3>3 DEF Origin, At, Groups, w
  <2> QED
    BY <1>1, <2>1, OriginOf
<1>6. Loading!Store(k)
  <2>1. fileOf' = fileOf /\ keptOf' = keptOf /\ resultOf' = resultOf
    <3>1. Touches(k)
      BY <1>1 DEF IInv, Touches
    <3> QED
      BY <1>1, <1>2, <1>4, <3>1, SameView DEF At
  <2>2. Loading!Stores(k)
    BY <1>1, InsertLoading DEF load_batch
  <2>3. Loading!Running(k)
    BY <1>1, RunningOf DEF At
  <2> QED
    BY <2>1, <2>2, <2>3 DEF Loading!Store
<1> QED
  BY <1>5, <1>6 DEF Loading!Next

LEMMA AckIsLostLoading ==
  ASSUME IInv, OriginInv, NEW k \in Worker, AckIsLost(k)
  PROVE  Loading!Next /\ OriginInv'
<1> DEFINE e == [work[k] EXCEPT !.pc = "done", !.status = "RETRY"]
<1>1. work' = [work EXCEPT ![k] = e] /\ work[k] \in Executions /\ At(k, "load")
  BY DEF IInv, ExecutionOK, AckIsLost, Ends
<1>2. /\ e.pc = "done" /\ e.status = "RETRY" /\ e.groups = work[k].groups
      /\ e.valid = work[k].valid /\ e.file = work[k].file /\ e.rest = work[k].rest
  BY <1>1 DEF Executions
<1> HIDE DEF e
<1>3. ~At(k, "idle") /\ ~At(k, "done")
  BY <1>1 DEF At
<1>4. OriginInv'
  BY <1>1, <1>2, <1>3, WalksOrigin DEF Walks
<1>5. /\ fileOf' = fileOf /\ keptOf' = keptOf
      /\ resultOf' = [resultOf EXCEPT ![k] = "RETRY"]
  <2>1. work'[k] = e /\ Touches(k)
    BY <1>1 DEF IInv, Touches
  <2> QED
    BY <1>2, <2>1, ViewOf, SameView
<1>6. Loading!Stores(k)
  BY <1>1, InsertLoading DEF AckIsLost
<1>7. Loading!StoreUnknown(k)
  BY <1>3, <1>5, <1>6, RunningOf DEF Loading!StoreUnknown
<1> QED
  BY <1>4, <1>7 DEF Loading!Next

LEMMA ReturnLoading ==
  ASSUME IInv, OriginInv, NEW k \in Worker, Return(k)
  PROVE  Loading!Next /\ OriginInv'
<1>1. work' = [work EXCEPT ![k] = Idle] /\ work'[k] = Idle /\ At(k, "done") /\ work[k] \in Executions
  BY DEF IInv, ExecutionOK, Return
<1>2. Idle.pc = "idle" /\ Idle.file = NONE /\ Idle.valid = {} /\ DOMAIN Idle.groups = {}
  BY DEF Idle
<1>3. OriginInv'
  <2>1. Origin(k)'
    BY <1>1, <1>2 DEF Origin, At, Groups
  <2> QED
    BY <1>1, <2>1, OriginOf
<1>4. Loading!Leave(k)
  <2>1. resultOf[k] # "none"
    BY <1>1 DEF resultOf, Executions, Statuses
  <2>2. storedRows' = storedRows
    BY DEF Return, database, storedRows
  <2>3. /\ fileOf' = [fileOf EXCEPT ![k] = NONE] /\ keptOf' = [keptOf EXCEPT ![k] = {}]
        /\ resultOf' = [resultOf EXCEPT ![k] = "none"]
    <3>1. Touches(k)
      BY <1>1 DEF IInv, Touches
    <3> QED
      BY <1>1, <1>2, <3>1, ViewOf
  <2> QED
    BY <2>1, <2>2, <2>3 DEF Loading!Leave
<1> QED
  BY <1>3, <1>4 DEF Loading!Next

LEMMA FailLoading ==
  ASSUME IInv, OriginInv, NEW k \in Worker,
         \/ ExtractFails(k) \/ StreamEnds(k) \/ TransformFails(k)
         \/ EnsureFails(k) \/ LoadFails(k)
  PROVE  Loading!Next /\ OriginInv'
<1>1. table' = table /\ ~At(k, "idle") /\ ~At(k, "done")
  BY DEF ExtractFails, StreamEnds, TransformFails, EnsureFails, LoadFails, Creating, database, At
<1>2. CASE StreamEnds(k)
  <2>1. DOMAIN Groups(k) = {}
    BY <1>2 DEF StreamEnds, IInv, ExecutionOK
  <2> QED
    BY <1>1, <1>2, <2>1, EndsLoading DEF StreamEnds, Statuses
<1>3. CASE ~StreamEnds(k)
  <2>1. \E status \in Statuses \ {"SUCCESS"} : Ends(k, status)
    BY <1>3 DEF ExtractFails, TransformFails, EnsureFails, LoadFails, Statuses
  <2> QED
    BY <1>1, <2>1, EndsLoading
<1> QED
  BY <1>2, <1>3

LEMMA AroundLoading ==
  ASSUME IInv, OriginInv,
         \/ MonthPasses \/ Crash \/ UNCHANGED vars
         \/ \E cutoff \in Month : Archive(cutoff)
  PROVE  [Loading!Next]_(Loading!loadingVars) /\ OriginInv'
<1>1. storedRows' = storedRows
  BY DEF MonthPasses, Crash, Archive, vars, database, storedRows
<1>2. CASE Crash
  <2>1. \A k \in Worker : work'[k] = Idle
    BY <1>2 DEF Crash
  <2>2. Idle.pc = "idle" /\ Idle.file = NONE /\ Idle.valid = {} /\ DOMAIN Idle.groups = {}
    BY DEF Idle
  <2>3. OriginInv'
    BY <2>1, <2>2 DEF OriginInv, Origin, At, Groups
  <2>4. /\ fileOf' = [k \in Worker |-> NONE] /\ keptOf' = [k \in Worker |-> {}]
        /\ resultOf' = [k \in Worker |-> "none"]
    BY <2>1, <2>2 DEF fileOf, keptOf, resultOf, At
  <2>5. Loading!Crash
    BY <1>1, <2>4 DEF Loading!Crash
  <2> QED
    BY <2>3, <2>5 DEF Loading!Next
<1>3. CASE ~Crash
  <2>1. work' = work
    BY <1>3 DEF MonthPasses, Archive, vars
  <2>2. fileOf' = fileOf /\ keptOf' = keptOf /\ resultOf' = resultOf /\ OriginInv'
    BY <2>1 DEF fileOf, keptOf, resultOf, At, OriginInv, Origin, Groups
  <2> QED
    BY <1>1, <2>2 DEF Loading!loadingVars
<1> QED
  BY <1>2, <1>3

LEMMA InitLoading == Init => Loading!Init
<1> SUFFICES ASSUME Init PROVE Loading!Init
  OBVIOUS
<1>1. storedRows = {}
  BY DEF Init, storedRows
<1>2. /\ fileOf = [k \in Worker |-> NONE] /\ keptOf = [k \in Worker |-> {}]
      /\ resultOf = [k \in Worker |-> "none"]
  BY DEF Init, Idle, fileOf, keptOf, resultOf, At
<1> QED
  BY <1>1, <1>2 DEF Loading!Init

LEMMA NextLoading == IInv /\ OriginInv /\ [Next]_vars => [Loading!Next]_(Loading!loadingVars) /\ OriginInv'
  BY AroundLoading, ExecuteLoading, FailLoading, TransformLoading, TableLoading, LoadLoading,
     AckIsLostLoading, ReturnLoading DEF Next, Step

\* For any workers, files, rows and batches, and with every failure, repeat and crash,
\* each step of the pipeline is a step of FileLoading or none: only rows that an
\* execution of their file kept get into a table, none ever leaves, and a file succeeds
\* with all that was kept of it.
THEOREM LoadingImplemented == Spec => ImplementsLoading
<1>1. Spec => []OriginInv
  BY AlwaysIInv, InitOrigin, NextLoading, PTL DEF Spec
<1> QED
  BY AlwaysIInv, <1>1, InitLoading, NextLoading, PTL DEF Spec, ImplementsLoading, Loading!Spec
=============================================================================
