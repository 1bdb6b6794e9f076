------------------------- MODULE ConfigManagerProofs -------------------------
(***************************************************************************)
(* The configuration of a running service, for every set of tasks, of      *)
(* requests that are handled at one time, and of files that operators may  *)
(* leave.                                                                  *)
(***************************************************************************)
EXTENDS ConfigManager, TLAPS

USE ConfigAssumption

ActFields == {"pc", "job", "op", "new", "old", "stop", "change", "start", "task", "cfg"}

PCs  == {"idle", "write", "read", "undo", "swap", "listen", "apply", "get", "start"}
Jobs == {"none", "save", "undo", "reload", "enable"}

IsDoc(doc)    == "tasks" \in DOMAIN doc /\ DOMAIN doc.tasks \subseteq Task
IsConfig(cfg) == /\ DOMAIN cfg.tasks \subseteq Task
                 /\ \A t \in DOMAIN cfg.tasks : DOMAIN cfg.tasks[t] = Fields

(***************************************************************************)
(* The shape of a state, and of the request that a handles.                *)
(***************************************************************************)
ActOK(a) ==
    /\ DOMAIN act[a] = ActFields
    /\ act[a].pc \in PCs /\ act[a].job \in Jobs
    /\ act[a].job \in {"save", "undo"} <=> configLock = a
    /\ act[a].pc = "idle" <=> act[a].job = "none"
    /\ act[a].pc \in {"read", "swap", "listen", "apply"} => act[a].job \in {"save", "undo", "reload"}
    /\ act[a].pc = "write" => act[a].job = "save"
    /\ act[a].pc = "undo" => act[a].job = "undo"
    /\ act[a].pc \in {"write", "swap", "listen"} => IsDoc(act[a].new)
    /\ act[a].pc \in {"write", "undo"} => IsDoc(act[a].old)
    /\ act[a].pc = "read" /\ act[a].job = "save" => IsDoc(act[a].old)
    /\ act[a].stop \subseteq Task /\ act[a].change \subseteq Task /\ act[a].start \subseteq Task
    /\ act[a].pc \in {"get", "start"} => act[a].task \in Task /\ act[a].stop = {}
    /\ act[a].job = "enable" => act[a].change = {}
    /\ act[a].pc = "start" => DOMAIN act[a].cfg = Fields

StateOK ==
    /\ DOMAIN act = Request
    /\ IsDoc(file)
    /\ configLock \in Request \cup {NONE}
    /\ Up => IsConfig(installed)
    /\ ~Up => Quiet
    /\ DOMAIN running \subseteq Task /\ \A t \in DOMAIN running : DOMAIN running[t] = Fields
    /\ unsettled \in BOOLEAN /\ overlapped \in BOOLEAN /\ synced \in BOOLEAN
    /\ lagging \subseteq Task

(***************************************************************************)
(* What the holder of _config_lock knows of the file: before it writes,    *)
(* the file is what it has read; then the file has its change and no       *)
(* other, until the answer or the rollback.                                *)
(***************************************************************************)
SaveOK(a) == expected # NONE =>
    /\ act[a].pc = "write" => /\ file = expected
                              /\ act[a].old = expected
                              /\ act[a].new = Change(expected, act[a].op)
    /\ act[a].job = "save" /\ act[a].pc # "write" => file = Change(expected, act[a].op)
    /\ act[a].job = "save" /\ act[a].pc = "read" => act[a].old = expected
    /\ act[a].pc = "undo" => act[a].old = expected /\ file = Change(expected, act[a].op)
    /\ act[a].job = "undo" /\ act[a].pc # "undo" => file = expected

(***************************************************************************)
(* Whoever changes the file reads it again, and what was read last is      *)
(* installed.                                                              *)
(***************************************************************************)
WillRead(a) == act[a].job \in {"save", "undo"} /\ act[a].pc \in {"read", "undo"}
HasRead(a)  == act[a].pc = "swap" /\ act[a].new = file

SomeoneReads == \E a \in Request : WillRead(a) \/ HasRead(a)
NobodySwaps  == \A a \in Request : act[a].pc # "swap"

Settles ==
    Up /\ ~unsettled /\ ~overlapped =>
        SomeoneReads \/ (installed = AppConfig(file) /\ NobodySwaps)

(***************************************************************************)
(* The listener: what has yet to be stopped and started when it is at      *)
(* work, and that it works alone.                                          *)
(***************************************************************************)
Active(a) == act[a].pc \in {"listen", "apply", "get", "start"}

OneActive == synced \/ ~overlapped => \A a, b \in Request : Active(a) /\ Active(b) => a = b

Agrees(t) == t \in DOMAIN installed.tasks /\ running[t] = installed.tasks[t]

\* Task t is among those that a will come to.
Due(a, t) ==
    \/ act[a].pc = "listen" /\ (t \in act[a].change \/ t \notin DOMAIN installed.tasks)
    \/ act[a].pc = "apply" /\ t \in act[a].stop \cup act[a].change
    \/ act[a].pc \in {"get", "start"} /\ t \in act[a].change

InStep == Up /\ ~overlapped =>
    \A t \in DOMAIN running \ lagging : Agrees(t) \/ \E a \in Request : Due(a, t)

\* The task that a starts.
Starting(a) == IF act[a].pc \in {"get", "start"} THEN {act[a].task} ELSE {}

ListenOK(a) ==
    /\ (synced \/ ~overlapped) /\ act[a].pc = "listen" => installed = AppConfig(act[a].new)
    /\ ~overlapped /\ act[a].pc = "start" =>
          act[a].task \in DOMAIN installed.tasks /\ act[a].cfg = installed.tasks[act[a].task]
    /\ synced /\ act[a].pc \in {"apply", "get", "start"} =>
          /\ act[a].job # "enable"
          /\ act[a].stop \cap Enabled(installed) = {}
          /\ act[a].change \cup act[a].start \cup Starting(a) \subseteq Enabled(installed)
          /\ DOMAIN running \ act[a].stop \subseteq Enabled(installed)
          /\ Enabled(installed) \subseteq DOMAIN running \cup act[a].start \cup Starting(a)

AllStarted ==
    Up /\ synced /\ (\A a \in Request : ~Active(a)) => DOMAIN running = Enabled(installed)

Lock  == AcknowledgedChangesStay /\ \A a \in Request : SaveOK(a)
Shape == StateOK /\ \A a \in Request : ActOK(a)
Watch == OneActive /\ InStep /\ AllStarted /\ \A a \in Request : ListenOK(a)
Inv   == Shape /\ Lock /\ Settles /\ Watch

LEMMA IdleFacts ==
    /\ DOMAIN Idle = ActFields
    /\ Idle.pc = "idle" /\ Idle.job = "none"
    /\ Idle.stop = {} /\ Idle.change = {} /\ Idle.start = {}
  BY DEF Idle, ActFields

\* A file has the shape of a configuration, before and after a change.
LEMMA ConfigOfDoc ==
  ASSUME NEW doc, IsDoc(doc)
  PROVE  /\ IsConfig(AppConfig(doc))
         /\ AppConfig(doc) # NoConfig
         /\ DOMAIN AppConfig(doc).tasks = DOMAIN doc.tasks
<1>1. AppConfig(doc).tasks = [t \in DOMAIN doc.tasks |-> TaskConfig(doc.tasks[t])]
  BY DEF AppConfig
<1>2. \A t \in DOMAIN doc.tasks : DOMAIN TaskConfig(doc.tasks[t]) = Fields
  BY DEF TaskConfig, Complete
<1>3. DOMAIN AppConfig(doc) = {"globals", "tasks"} /\ DOMAIN NoConfig = {}
  BY DEF AppConfig, NoConfig
<1> QED
  BY <1>1, <1>2, <1>3 DEF IsConfig, IsDoc

LEMMA ChangeOfDoc ==
  ASSUME NEW doc, IsDoc(doc), NEW op \in Operations, Applies(doc, op)
  PROVE  IsDoc(Change(doc, op))
<1> DEFINE base == doc.tasks
           made == CASE op.kind = "create" -> Override(base, [t \in {op.task} |-> _build_task_dict(op.form)])
                     [] op.kind = "update" -> [base EXCEPT ![op.task] = _merge_task_update(base[op.task], op.form)]
                     [] op.kind = "delete" -> Restrict(base, DOMAIN base \ {op.task})
<1>1. op.kind \in {"create", "update", "delete"} /\ op.task \in Task
  BY DEF Operations
<1>2. Change(doc, op) = [doc EXCEPT !.tasks = made]
  BY DEF Change
<1>3. DOMAIN made \subseteq Task
  <2>1. CASE op.kind = "create"
    BY <1>1, <2>1 DEF Override, IsDoc
  <2>2. CASE op.kind = "update"
    BY <1>1, <2>2 DEF IsDoc
  <2>3. CASE op.kind = "delete"
    BY <1>1, <2>3 DEF Restrict, IsDoc
  <2> QED
    BY <1>1, <2>1, <2>2, <2>3
<1> HIDE DEF made
<1> QED
  BY <1>2, <1>3 DEF IsDoc
-----------------------------------------------------------------------------
(***************************************************************************)
(* What follows from the part of a step that does not matter.              *)
(***************************************************************************)
Frame(a) == /\ DOMAIN act' = Request
            /\ \A b \in Request \ {a} : act'[b] = act[b]

\* Only a moves, and takes or gives up the lock at most for itself.
LEMMA ShapeStep ==
  ASSUME Inv, NEW a \in Request, Frame(a), StateOK', ActOK(a)',
         configLock' = configLock \/ {configLock, configLock'} \subseteq {a, NONE}
  PROVE  Shape'
<1> SUFFICES ASSUME NEW b \in Request \ {a} PROVE ActOK(b)'
  BY DEF Shape
<1>1. ActOK(b) /\ act'[b] = act[b]
  BY DEF Inv, Shape, Frame
<1>2. configLock' = b <=> configLock = b
  OBVIOUS
<1> QED
  BY <1>1, <1>2 DEF ActOK

\* The requests that do not hold the lock neither write nor undo.
LEMMA LockOthers ==
  ASSUME Inv, NEW a \in Request, Frame(a),
         configLock = a \/ UNCHANGED <<file, expected>>
  PROVE  \A b \in Request \ {a} : SaveOK(b)'
<1> SUFFICES ASSUME NEW b \in Request \ {a} PROVE SaveOK(b)'
  OBVIOUS
<1>1. ActOK(b) /\ SaveOK(b) /\ act'[b] = act[b]
  BY DEF Inv, Shape, Lock, Frame
<1>2. CASE configLock = a
  <2>1. act[b].job \notin {"save", "undo"} /\ act[b].pc \notin {"write", "undo"}
    BY <1>1, <1>2 DEF ActOK
  <2> QED
    BY <1>1, <2>1 DEF SaveOK
<1>3. CASE UNCHANGED <<file, expected>>
  BY <1>1, <1>3 DEF SaveOK
<1> QED
  BY <1>2, <1>3

\* A step that neither ends a read nor begins one.
LEMMA SettlesStep ==
  ASSUME Inv, NEW a \in Request, Frame(a), UNCHANGED <<file, installed, overlapped>>,
         unsettled' = unsettled \/ unsettled',
         WillRead(a) => WillRead(a)', HasRead(a) => HasRead(a)',
         act'[a].pc = "swap" => act[a].pc = "swap"
  PROVE  Settles'
<1>1. \A b \in Request \ {a} : act'[b] = act[b]
  BY DEF Frame
<1>2. \A b \in Request : /\ WillRead(b) => WillRead(b)'
                         /\ HasRead(b) => HasRead(b)'
                         /\ act'[b].pc = "swap" => act[b].pc = "swap"
  BY <1>1 DEF WillRead, HasRead
<1>3. (SomeoneReads => SomeoneReads') /\ (NobodySwaps => NobodySwaps')
  BY <1>2 DEF SomeoneReads, NobodySwaps
<1> QED
  BY <1>3 DEF Inv, Settles, Up

\* A step of a request whose listener is not at work.
LEMMA WatchStep ==
  ASSUME Inv, NEW a \in Request, Frame(a), ~Active(a), ~Active(a)',
         UNCHANGED <<installed, running, overlapped, synced, lagging>>
  PROVE  Watch'
<1>1. \A b \in Request \ {a} : act'[b] = act[b]
  BY DEF Frame
<1>2. \A b \in Request : Active(b) <=> Active(b)'
  BY <1>1 DEF Active
<1>3. \A t \in Task, b \in Request : Due(b, t) => Due(b, t)'
  BY <1>1 DEF Due, Active
<1>4. \A b \in Request : ListenOK(b)'
  <2>1. ListenOK(a)'
    BY DEF ListenOK, Active
  <2>2. \A b \in Request \ {a} : ListenOK(b)'
    BY <1>1 DEF Inv, Watch, ListenOK, Starting, Enabled
  <2> QED
    BY <2>1, <2>2
<1>5. OneActive' /\ AllStarted'
  BY <1>2 DEF Inv, Watch, OneActive, AllStarted, Up, Enabled
<1>6. InStep'
  <2>1. DOMAIN running \subseteq Task
    BY DEF Inv, Shape, StateOK
  <2> QED
    BY <1>3, <2>1 DEF Inv, Watch, InStep, Agrees, Up
<1> QED
  BY <1>4, <1>5, <1>6 DEF Watch
-----------------------------------------------------------------------------
(***************************************************************************)
(* The lock and the file.                                                  *)
(***************************************************************************)
LEMMA SubmitStep ==
  ASSUME Inv, NEW a \in Request, Submit(a)
  PROVE  Inv'
<1> PICK op \in Operations :
       /\ Applies(file, op)
       /\ act' = [act EXCEPT ![a] = [Idle EXCEPT !.pc = "write", !.job = "save", !.op = op,
                                                 !.new = Change(file, op), !.old = file]]
  BY DEF Submit
<1> DEFINE e == [Idle EXCEPT !.pc = "write", !.job = "save", !.op = op,
                             !.new = Change(file, op), !.old = file]
<1>1. /\ DOMAIN e = ActFields
      /\ e.pc = "write" /\ e.job = "save" /\ e.op = op
      /\ e.new = Change(file, op) /\ e.old = file
      /\ e.stop = {} /\ e.change = {} /\ e.start = {}
  BY DEF Idle, ActFields
<1>2. Frame(a) /\ act'[a] = e
  BY DEF Frame, Inv, Shape, StateOK
<1> HIDE DEF e
<1>3. /\ UNCHANGED <<file, installed, running, expected, unsettled, overlapped, synced, lagging>>
      /\ configLock = NONE /\ configLock' = a /\ Up /\ act[a].pc = "idle"
  BY DEF Submit, service, history
<1>4. IsDoc(file) /\ IsDoc(Change(file, op))
  BY ChangeOfDoc DEF Inv, Shape, StateOK
<1>5. ActOK(a)'
  BY <1>1, <1>2, <1>3, <1>4 DEF ActOK, PCs, Jobs
<1>6. StateOK'
  BY <1>2, <1>3 DEF Inv, Shape, StateOK, Up, Frame, IsDoc, IsConfig
<1>7. Lock'
  <2>1. SaveOK(a)'
    BY <1>1, <1>2, <1>3 DEF Inv, Lock, AcknowledgedChangesStay, SaveOK
  <2> QED
    BY <1>2, <1>3, <2>1, LockOthers DEF Lock, AcknowledgedChangesStay
<1>8. Settles'
  BY <1>1, <1>2, <1>3, SettlesStep DEF WillRead, HasRead
<1>9. Watch'
  BY <1>1, <1>2, <1>3, WatchStep DEF Active
<1> QED
  BY <1>2, <1>3, <1>5, <1>6, <1>7, <1>8, <1>9, ShapeStep DEF Inv

\* A request that ends before a listener is at work.
LEMMA AnswerStep ==
  ASSUME Inv, NEW a \in Request, WriteFails(a) \/ UndoFails(a)
  PROVE  Inv'
<1>1. act' = [act EXCEPT ![a] = Idle] /\ Frame(a) /\ act'[a] = Idle
  BY DEF WriteFails, UndoFails, Answer, Frame, Inv, Shape, StateOK
<1>2. UNCHANGED <<file, installed, running, overlapped, synced, lagging>>
  BY DEF WriteFails, UndoFails, service, history
<1>3. act[a].pc \in {"write", "undo"} /\ ActOK(a) /\ SaveOK(a) /\ configLock = a
  BY DEF WriteFails, UndoFails, Inv, Shape, Lock, ActOK
<1>4. configLock' = NONE
  BY <1>3 DEF WriteFails, UndoFails, Answer
<1>5. /\ act[a].pc = "write" => UNCHANGED <<expected, unsettled>>
      /\ act[a].pc = "undo" => expected' = Expects(act[a].op) /\ unsettled' = TRUE
  BY DEF WriteFails, UndoFails, history
<1>6. ActOK(a)'
  BY <1>1, <1>4, IdleFacts DEF ActOK, PCs, Jobs
<1>7. StateOK'
  BY <1>1, <1>2, <1>3, <1>4, <1>5, IdleFacts DEF Inv, Shape, StateOK, Up, Quiet, Frame, IsDoc, IsConfig
<1>8. Lock'
  <2>1. SaveOK(a)'
    BY <1>1, IdleFacts DEF SaveOK
  <2>2. AcknowledgedChangesStay'
    BY <1>2, <1>3, <1>5 DEF SaveOK, AcknowledgedChangesStay, Expects
  <2> QED
    BY <1>1, <1>3, <2>1, <2>2, LockOthers DEF Lock
<1>9. Settles'
  <2>1. CASE act[a].pc = "write"
    BY <1>1, <1>2, <1>5, <2>1, IdleFacts, SettlesStep DEF WillRead, HasRead
  <2>2. CASE act[a].pc = "undo"
    BY <1>5, <2>2 DEF Settles
  <2> QED
    BY <1>3, <2>1, <2>2
<1>10. Watch'
  BY <1>1, <1>2, <1>3, IdleFacts, WatchStep DEF Active
<1> QED
  BY <1>1, <1>3, <1>4, <1>6, <1>7, <1>8, <1>9, <1>10, ShapeStep DEF Inv

\* The file is written, or written back; the holder of the lock reads it next.
LEMMA WriteStep ==
  ASSUME Inv, NEW a \in Request, _write_config_yaml(a) \/ Undo(a)
  PROVE  Inv'
<1>1. act[a].pc \in {"write", "undo"} /\ ActOK(a) /\ SaveOK(a) /\ configLock = a
  BY DEF _write_config_yaml, Undo, Inv, Shape, Lock, ActOK
<1>2. /\ Frame(a) /\ DOMAIN act'[a] = ActFields /\ act'[a].pc = "read"
      /\ \A f \in ActFields \ {"pc"} : act'[a][f] = act[a][f]
  BY <1>1 DEF _write_config_yaml, Undo, Goes, Frame, Inv, Shape, StateOK, ActOK, ActFields
<1>3. /\ act'[a].job = act[a].job /\ act'[a].op = act[a].op /\ act'[a].old = act[a].old
      /\ act'[a].stop = act[a].stop /\ act'[a].change = act[a].change
      /\ act'[a].start = act[a].start
  BY <1>2 DEF ActFields
<1>4. UNCHANGED <<installed, running, configLock, expected, unsettled, overlapped, synced, lagging>>
  BY DEF _write_config_yaml, Undo, service, history
<1>5. file' = IF act[a].pc = "write" THEN act[a].new ELSE act[a].old
  BY DEF _write_config_yaml, Undo
<1>6. ActOK(a)'
  BY <1>1, <1>2, <1>3, <1>4 DEF ActOK, PCs
<1>7. StateOK'
  BY <1>1, <1>2, <1>4, <1>5 DEF ActOK, Inv, Shape, StateOK, Up, Quiet, Frame, IsDoc, IsConfig
<1>8. Lock'
  <2>1. SaveOK(a)'
    BY <1>1, <1>2, <1>3, <1>4, <1>5 DEF SaveOK, ActOK
  <2> QED
    BY <1>1, <1>2, <1>4, <2>1, LockOthers DEF Lock, AcknowledgedChangesStay, Inv, Shape, StateOK
<1>9. Settles'
  BY <1>1, <1>2, <1>3 DEF Settles, SomeoneReads, WillRead, ActOK
<1>10. Watch'
  BY <1>1, <1>2, <1>4, WatchStep DEF Active
<1> QED
  BY <1>2, <1>4, <1>6, <1>7, <1>8, <1>9, <1>10, ShapeStep DEF Inv
-----------------------------------------------------------------------------
(***************************************************************************)
(* A reload, up to the new configuration.                                  *)
(***************************************************************************)
LEMMA ReloadStep ==
  ASSUME Inv, NEW a \in Request, Reload(a)
  PROVE  Inv'
<1> DEFINE e == [Idle EXCEPT !.pc = "read", !.job = "reload"]
<1>1. /\ DOMAIN e = ActFields /\ e.pc = "read" /\ e.job = "reload"
      /\ e.stop = {} /\ e.change = {} /\ e.start = {}
  BY DEF Idle, ActFields
<1>2. Frame(a) /\ act'[a] = e
  BY DEF Reload, Frame, Inv, Shape, StateOK
<1> HIDE DEF e
<1>3. /\ UNCHANGED <<file, installed, running, configLock, expected, unsettled, overlapped, synced, lagging>>
      /\ Up /\ act[a].pc = "idle" /\ configLock # a
  BY DEF Reload, service, history, Inv, Shape, ActOK
<1>4. ActOK(a)'
  BY <1>1, <1>2, <1>3 DEF ActOK, PCs, Jobs
<1>5. StateOK'
  BY <1>2, <1>3 DEF Inv, Shape, StateOK, Up, Frame, IsDoc, IsConfig
<1>6. Lock'
  <2>1. SaveOK(a)'
    BY <1>1, <1>2 DEF SaveOK
  <2> QED
    BY <1>2, <1>3, <2>1, LockOthers DEF Lock, AcknowledgedChangesStay, Inv
<1>7. Settles'
  BY <1>1, <1>2, <1>3, SettlesStep DEF WillRead, HasRead
<1>8. Watch'
  BY <1>1, <1>2, <1>3, WatchStep DEF Active
<1> QED
  BY <1>2, <1>3, <1>4, <1>5, <1>6, <1>7, <1>8, ShapeStep DEF Inv

LEMMA ReadStep ==
  ASSUME Inv, NEW a \in Request, Read(a)
  PROVE  Inv'
<1>1. act[a].pc = "read" /\ ActOK(a) /\ SaveOK(a)
  BY DEF Read, Inv, Shape, Lock
<1>2. /\ Frame(a) /\ DOMAIN act'[a] = ActFields
      /\ act'[a].pc = "swap" /\ act'[a].new = file
      /\ \A f \in ActFields \ {"pc", "new", "old"} : act'[a][f] = act[a][f]
  BY <1>1 DEF Read, Frame, Inv, Shape, StateOK, ActOK, ActFields
<1>3. /\ act'[a].job = act[a].job /\ act'[a].op = act[a].op
      /\ act'[a].stop = act[a].stop /\ act'[a].change = act[a].change
      /\ act'[a].start = act[a].start
  BY <1>2 DEF ActFields
<1>4. /\ UNCHANGED <<file, installed, running, configLock, expected, overlapped, synced, lagging>>
      /\ unsettled' = FALSE
  BY DEF Read, service
<1>5. IsDoc(file)
  BY DEF Inv, Shape, StateOK
<1>6. ActOK(a)'
  BY <1>1, <1>2, <1>3, <1>4, <1>5 DEF ActOK, PCs
<1>7. StateOK'
  BY <1>1, <1>2, <1>4 DEF Inv, Shape, StateOK, Up, Quiet, Frame, IsDoc, IsConfig
<1>8. Lock'
  <2>1. SaveOK(a)'
    BY <1>1, <1>2, <1>3, <1>4 DEF SaveOK
  <2> QED
    BY <1>2, <1>4, <2>1, LockOthers DEF Lock, AcknowledgedChangesStay, Inv
<1>9. Settles'
  BY <1>2, <1>4 DEF Settles, SomeoneReads, HasRead
<1>10. Watch'
  BY <1>1, <1>2, <1>4, WatchStep DEF Active
<1> QED
  BY <1>2, <1>4, <1>6, <1>7, <1>8, <1>9, <1>10, ShapeStep DEF Inv

\* A save whose reload fails turns back; other reloads end, and a rollback, too.
LEMMA ReadFailsStep ==
  ASSUME Inv, NEW a \in Request, ReadFails(a)
  PROVE  Inv'
<1>1. act[a].pc = "read" /\ ActOK(a) /\ SaveOK(a)
  BY DEF ReadFails, Inv, Shape, Lock
<1>2. UNCHANGED <<file, installed, running, expected, overlapped, synced, lagging>>
  BY DEF ReadFails, service
<1>3. CASE act[a].job = "save"
  <2>1. /\ Frame(a) /\ DOMAIN act'[a] = ActFields
        /\ act'[a].pc = "undo" /\ act'[a].job = "undo"
        /\ \A f \in ActFields \ {"pc", "job"} : act'[a][f] = act[a][f]
    BY <1>1, <1>3 DEF ReadFails, Frame, Inv, Shape, StateOK, ActOK, ActFields
  <2>2. /\ act'[a].op = act[a].op /\ act'[a].old = act[a].old
        /\ act'[a].stop = act[a].stop /\ act'[a].change = act[a].change
        /\ act'[a].start = act[a].start
    BY <2>1 DEF ActFields
  <2>3. UNCHANGED <<configLock, unsettled>>
    BY <1>3 DEF ReadFails
  <2>4. ActOK(a)'
    BY <1>1, <1>3, <2>1, <2>2, <2>3 DEF ActOK, PCs, Jobs
  <2>5. StateOK'
    BY <1>1, <1>2, <2>1, <2>3 DEF Inv, Shape, StateOK, Up, Quiet, Frame, IsDoc, IsConfig
  <2>6. Lock'
    <3>1. SaveOK(a)'
      BY <1>1, <1>2, <1>3, <2>1, <2>2, <2>3 DEF SaveOK
    <3> QED
      BY <1>2, <2>1, <2>3, <3>1, LockOthers DEF Lock, AcknowledgedChangesStay, Inv
  <2>7. Settles'
    BY <2>1 DEF Settles, SomeoneReads, WillRead
  <2>8. Watch'
    BY <1>1, <1>2, <2>1, WatchStep DEF Active
  <2> QED
    BY <2>1, <2>3, <2>4, <2>5, <2>6, <2>7, <2>8, ShapeStep DEF Inv
<1>4. CASE act[a].job # "save"
  <2>1. Answer(a) /\ Frame(a) /\ act'[a] = Idle
    BY <1>4 DEF ReadFails, Answer, Frame, Inv, Shape, StateOK
  <2>2. /\ act[a].job = "undo" => configLock = a /\ configLock' = NONE /\ unsettled'
        /\ act[a].job # "undo" => UNCHANGED <<configLock, unsettled>> /\ configLock # a
    <3>1. /\ configLock' = IF configLock = a THEN NONE ELSE configLock
          /\ act[a].job = "undo" <=> configLock = a
      BY <1>1, <1>4, <2>1 DEF Answer, ActOK
    <3>2. unsettled' = (unsettled \/ act[a].job = "undo")
      BY <1>4 DEF ReadFails
    <3>3. unsettled \in BOOLEAN
      BY DEF Inv, Shape, StateOK
    <3>4. act[a].job # "undo" => unsettled' = unsettled
      BY <3>2, <3>3
    <3> QED
      BY <3>1, <3>2, <3>4
  <2>3. ActOK(a)'
    BY <2>1, <2>2, IdleFacts DEF ActOK, PCs, Jobs
  <2>4. StateOK'
    <3>1. unsettled' \in BOOLEAN
      BY <1>4, <2>2 DEF ReadFails, Inv, Shape, StateOK
    <3> QED
      BY <1>1, <1>2, <2>1, <2>2, <3>1 DEF Inv, Shape, StateOK, Up, Quiet, Frame, IsDoc, IsConfig
  <2>5. Lock'
    <3>1. SaveOK(a)'
      BY <2>1, IdleFacts DEF SaveOK
    <3>2. AcknowledgedChangesStay'
      BY <1>1, <1>2, <2>2 DEF SaveOK, AcknowledgedChangesStay, Inv, Lock
    <3> QED
      BY <1>2, <2>1, <2>2, <3>1, <3>2, LockOthers DEF Lock, Inv
  <2>6. Settles'
    <3>1. CASE act[a].job = "undo"
      BY <2>2, <3>1 DEF Settles
    <3>2. CASE act[a].job # "undo"
      BY <1>1, <1>2, <1>4, <2>1, <2>2, <3>2, IdleFacts, SettlesStep DEF WillRead, HasRead
    <3> QED
      BY <3>1, <3>2
  <2>7. Watch'
    BY <1>1, <1>2, <2>1, IdleFacts, WatchStep DEF Active
  <2> QED
    BY <2>1, <2>2, <2>3, <2>4, <2>5, <2>6, <2>7, ShapeStep DEF Inv
<1> QED
  BY <1>3, <1>4

\* The new configuration is installed, and the listener learns what differs.
LEMMA SwapStep ==
  ASSUME Inv, NEW a \in Request, Swap(a)
  PROVE  Inv'
<1> DEFINE new == AppConfig(act[a].new)
<1>1. act[a].pc = "swap" /\ ActOK(a) /\ SaveOK(a) /\ IsDoc(act[a].new) /\ Up
  BY DEF Swap, Inv, Shape, Lock, ActOK, StateOK, Quiet
<1>2. IsConfig(new) /\ new # NoConfig
  BY <1>1, ConfigOfDoc
<1>3. /\ Frame(a) /\ DOMAIN act'[a] = ActFields /\ act'[a].pc = "listen"
      /\ act'[a].change = Differ(installed.tasks, new.tasks)
      /\ \A f \in ActFields \ {"pc", "change"} : act'[a][f] = act[a][f]
  BY <1>1 DEF Swap, Frame, Inv, Shape, StateOK, ActOK, ActFields
<1>4. /\ act'[a].job = act[a].job /\ act'[a].op = act[a].op /\ act'[a].new = act[a].new
      /\ act'[a].stop = act[a].stop /\ act'[a].start = act[a].start
  BY <1>3 DEF ActFields
<1>5. /\ UNCHANGED <<file, running, configLock, expected, unsettled, lagging>>
      /\ installed' = new
      /\ overlapped' = (overlapped \/ ~Alone(a)) /\ synced' = Alone(a)
  BY DEF Swap
<1>6. act'[a].change \subseteq Task
  BY <1>2, <1>3 DEF Differ, IsConfig
<1> HIDE DEF new
<1>7. ActOK(a)'
  BY <1>1, <1>3, <1>4, <1>5, <1>6 DEF ActOK, PCs
<1>8. StateOK'
  <2>1. overlapped' \in BOOLEAN /\ synced' \in BOOLEAN
    BY <1>5 DEF Inv, Shape, StateOK, Alone
  <2>2. Up' /\ IsConfig(installed)' /\ IsDoc(file)'
    BY <1>2, <1>5 DEF Up, NoConfig, IsConfig, IsDoc, Inv, Shape, StateOK
  <2> QED
    BY <1>3, <1>5, <2>1, <2>2 DEF Inv, Shape, StateOK, Frame
<1>9. Lock'
  <2>1. SaveOK(a)'
    BY <1>1, <1>3, <1>4, <1>5 DEF SaveOK
  <2> QED
    BY <1>3, <1>5, <2>1, LockOthers DEF Lock, AcknowledgedChangesStay, Inv
<1>10. \A b \in Request \ {a} : act'[b] = act[b]
  BY <1>3 DEF Frame
<1>11. Settles'
  <2> SUFFICES ASSUME ~unsettled, ~overlapped, Alone(a)
               PROVE  SomeoneReads' \/ (installed' = AppConfig(file') /\ NobodySwaps')
    BY <1>5 DEF Settles
  <2>1. NobodySwaps'
    BY <1>3, <1>10 DEF NobodySwaps, Alone
  <2>2. CASE \E b \in Request : WillRead(b)
    <3> PICK b \in Request : WillRead(b)
      BY <2>2
    <3>1. b # a
      BY <1>1 DEF WillRead
    <3> QED
      BY <1>10, <3>1 DEF SomeoneReads, WillRead
  <2>3. CASE \E b \in Request : HasRead(b)
    <3> PICK b \in Request : HasRead(b)
      BY <2>3
    <3>1. b = a
      BY DEF HasRead, Alone
    <3>2. installed' = AppConfig(file')
      BY <1>5, <3>1 DEF HasRead, new
    <3> QED
      BY <2>1, <3>2
  <2>4. SomeoneReads
    BY <1>1 DEF Inv, Settles, NobodySwaps
  <2> QED
    BY <2>2, <2>3, <2>4 DEF SomeoneReads
<1>12. Watch'
  <2>1. CASE ~Alone(a)
    <3>1. ListenOK(a)' /\ OneActive' /\ InStep' /\ AllStarted'
      BY <1>5, <2>1 DEF ListenOK, OneActive, InStep, AllStarted
    <3>2. \A b \in Request : ListenOK(b)'
      BY <1>5, <2>1 DEF ListenOK
    <3> QED
      BY <3>1, <3>2 DEF Watch
  <2>2. CASE Alone(a)
    <3>1. \A b \in Request : Active(b)' <=> b = a
      BY <1>3, <1>10, <2>2 DEF Active, Alone
    <3>2. \A b \in Request : ~Active(b)
      BY <1>1, <2>2 DEF Active, Alone
    <3>3. \A b \in Request : ListenOK(b)'
      BY <1>3, <1>4, <1>5, <3>1 DEF ListenOK, Active, new
    <3>4. InStep'
      <4> SUFFICES ASSUME ~overlapped, NEW t \in DOMAIN running \ lagging
                   PROVE  Agrees(t)' \/ Due(a, t)'
        BY <1>5 DEF InStep
      <4>1. Agrees(t)
        BY <1>1, <3>2 DEF Inv, Watch, InStep, Due, Active
      <4> QED
        BY <1>3, <1>5, <4>1 DEF Agrees, Due, Differ
    <3>5. OneActive' /\ AllStarted'
      BY <3>1 DEF OneActive, AllStarted
    <3> QED
      BY <3>3, <3>4, <3>5 DEF Watch
  <2> QED
    BY <2>1, <2>2
<1> QED
  BY <1>3, <1>5, <1>7, <1>8, <1>9, <1>11, <1>12, ShapeStep DEF Inv
-----------------------------------------------------------------------------
(***************************************************************************)
(* The service as a whole, and the tasks that are switched by hand.        *)
(***************************************************************************)
LEMMA HandEditStep == Inv /\ HandEdit => Inv'
<1> SUFFICES ASSUME Inv, HandEdit PROVE Inv'
  OBVIOUS
<1>1. /\ UNCHANGED <<installed, running, configLock, act, overlapped, synced, lagging>>
      /\ unsettled' = TRUE /\ file' \in HandWritten
      /\ expected' = IF configLock = NONE THEN file' ELSE NONE
  BY DEF HandEdit, service
<1>2. IsDoc(file')
  BY <1>1 DEF IsDoc
<1>3. StateOK'
  BY <1>1, <1>2 DEF Inv, Shape, StateOK, Up, Quiet, IsDoc, IsConfig
<1>4. \A a \in Request : ActOK(a)'
  BY <1>1 DEF Inv, Shape, ActOK, IsDoc
<1>5. Lock'
  <2>1. ASSUME NEW a \in Request PROVE SaveOK(a)'
    <3>1. ActOK(a)
      BY DEF Inv, Shape
    <3>2. CASE configLock = NONE
      <4>1. act[a].job \notin {"save", "undo"} /\ act[a].pc \notin {"write", "undo"}
        BY <3>1, <3>2 DEF ActOK
      <4> QED
        BY <1>1, <4>1 DEF SaveOK
    <3>3. CASE configLock # NONE
      BY <1>1, <3>3 DEF SaveOK
    <3> QED
      BY <3>2, <3>3
  <2> QED
    BY <1>1, <2>1 DEF Lock, AcknowledgedChangesStay
<1>6. Settles'
  BY <1>1 DEF Settles
<1>7. Watch'
  BY <1>1 DEF Inv, Watch, OneActive, InStep, AllStarted, ListenOK, Active, Due, Agrees, Starting, Enabled, Up
<1> QED
  BY <1>3, <1>4, <1>5, <1>6, <1>7 DEF Inv, Shape

\* With no request under way only the lock, the file and the settings matter.
LEMMA QuietInv ==
  ASSUME StateOK, Quiet, configLock = NONE, \A a \in Request : DOMAIN act[a] = ActFields,
         \A a \in Request : /\ act[a].job = "none" /\ act[a].stop = {}
                            /\ act[a].change = {} /\ act[a].start = {},
         AcknowledgedChangesStay,
         Up => installed = AppConfig(file) /\ DOMAIN running = Enabled(installed)
                 /\ \A t \in DOMAIN running : Agrees(t)
  PROVE  Inv
<1>1. \A a \in Request : ActOK(a)
  BY DEF ActOK, Quiet, PCs, Jobs
<1>2. \A a \in Request : SaveOK(a)
  BY DEF SaveOK, Quiet
<1>3. Settles
  BY DEF Settles, NobodySwaps, Quiet
<1>4. Watch
  BY DEF Watch, OneActive, InStep, AllStarted, ListenOK, Active, Quiet
<1> QED
  BY <1>1, <1>2, <1>3, <1>4 DEF Inv, Shape, Lock

LEMMA InitInv == Init => Inv
<1> SUFFICES ASSUME Init PROVE Inv
  OBVIOUS
<1>1. ~Up /\ DOMAIN running = {}
  BY DEF Init, Up, Nothing
<1>2. Quiet /\ \A a \in Request : act[a] = Idle
  BY IdleFacts DEF Init, Quiet
<1>3. StateOK
  BY <1>1, <1>2 DEF Init, StateOK, IsDoc
<1> QED
  BY <1>1, <1>2, <1>3, IdleFacts, QuietInv DEF Init, AcknowledgedChangesStay

LEMMA BootstrapStep == Inv /\ Bootstrap => Inv'
<1> SUFFICES ASSUME Inv, Bootstrap PROVE Inv'
  OBVIOUS
<1>1. /\ UNCHANGED <<file, configLock, act, expected, overlapped, synced, lagging>>
      /\ unsettled' = FALSE /\ ~Up /\ installed' = AppConfig(file)
      /\ running' = Restrict(AppConfig(file).tasks, Enabled(AppConfig(file)))
  BY DEF Bootstrap
<1>2. IsDoc(file) /\ IsConfig(AppConfig(file)) /\ AppConfig(file) # NoConfig
  BY ConfigOfDoc DEF Inv, Shape, StateOK
<1>3. /\ DOMAIN running' = Enabled(AppConfig(file))
      /\ Enabled(AppConfig(file)) \subseteq DOMAIN AppConfig(file).tasks
      /\ \A t \in DOMAIN running' : running'[t] = AppConfig(file).tasks[t]
  BY <1>1 DEF Restrict, Enabled
<1>4. Quiet /\ \A a \in Request : ActOK(a) /\ act[a].pc = "idle"
  BY <1>1 DEF Inv, Shape, StateOK, Quiet
<1>5. StateOK'
  <2>1. Quiet' /\ IsConfig(installed)' /\ IsDoc(file)'
    BY <1>1, <1>2, <1>4 DEF Quiet, IsConfig, IsDoc
  <2>2. DOMAIN running' \subseteq Task /\ \A t \in DOMAIN running' : DOMAIN running'[t] = Fields
    BY <1>2, <1>3 DEF IsConfig
  <2> QED
    BY <1>1, <2>1, <2>2 DEF Inv, Shape, StateOK
<1>6. \A a \in Request : ActOK(a)'
  BY <1>1, <1>4 DEF ActOK
<1>7. Lock'
  BY <1>1 DEF Inv, Lock, AcknowledgedChangesStay, SaveOK
<1>8. Settles'
  BY <1>1, <1>4 DEF Settles, NobodySwaps
<1>9. Watch'
  <2>1. \A a \in Request : ~Active(a)'
    BY <1>1, <1>4 DEF Active
  <2>2. OneActive' /\ \A a \in Request : ListenOK(a)'
    BY <2>1 DEF OneActive, ListenOK, Active
  <2>3. AllStarted'
    BY <1>1, <1>3 DEF AllStarted, Enabled
  <2>4. InStep'
    BY <1>1, <1>3 DEF InStep, Agrees
  <2> QED
    BY <2>2, <2>3, <2>4 DEF Watch
<1> QED
  BY <1>5, <1>6, <1>7, <1>8, <1>9 DEF Inv, Shape

LEMMA CrashStep == Inv /\ Crash => Inv'
<1> SUFFICES ASSUME Inv, Crash PROVE Inv'
  OBVIOUS
<1>1. /\ UNCHANGED <<file, unsettled>> /\ configLock' = NONE
      /\ installed' = NoConfig /\ running' = Nothing
      /\ overlapped' = FALSE /\ synced' = TRUE /\ lagging' = {}
      /\ expected' = IF configLock = NONE \/ file = expected THEN expected
                     ELSE Expects(act[configLock].op)
  BY DEF Crash
<1>2. DOMAIN act' = Request /\ \A a \in Request : act'[a] = Idle
  BY DEF Crash
<1>3. ~Up' /\ DOMAIN running' = {} /\ Quiet'
  BY <1>1, <1>2, IdleFacts DEF Up, Nothing, NoConfig, Quiet
<1>4. StateOK'
  BY <1>1, <1>2, <1>3 DEF Inv, Shape, StateOK, IsDoc
<1>5. AcknowledgedChangesStay'
  <2>1. CASE configLock = NONE \/ file = expected
    BY <1>1, <2>1 DEF Inv, Lock, AcknowledgedChangesStay
  <2>2. CASE configLock # NONE /\ file # expected
    <3>1. /\ configLock \in Request /\ SaveOK(configLock)
          /\ ActOK(configLock) /\ act[configLock].job \in {"save", "undo"}
      BY <2>2 DEF Inv, Shape, StateOK, Lock, ActOK
    <3>2. expected # NONE => file = Change(expected, act[configLock].op)
      BY <2>2, <3>1 DEF SaveOK
    <3> QED
      BY <1>1, <2>2, <3>2 DEF AcknowledgedChangesStay, Expects
  <2> QED
    BY <2>1, <2>2
<1>6. (\A a \in Request : ActOK(a))'
  BY <1>1, <1>2, IdleFacts DEF ActOK, PCs, Jobs
<1>7. (\A a \in Request : SaveOK(a))'
  BY <1>2, IdleFacts DEF SaveOK
<1>8. Settles' /\ Watch'
  BY <1>2, <1>3, IdleFacts DEF Settles, Watch, OneActive, InStep, AllStarted, ListenOK, Active
<1> QED
  BY <1>4, <1>5, <1>6, <1>7, <1>8 DEF Inv, Shape, Lock

LEMMA EnableStep ==
  ASSUME Inv, NEW a \in Request, NEW t \in Task, Enable(a, t)
  PROVE  Inv'
<1> DEFINE e == [Idle EXCEPT !.pc = "get", !.job = "enable", !.task = t]
<1>1. /\ DOMAIN e = ActFields /\ e.pc = "get" /\ e.job = "enable" /\ e.task = t
      /\ e.stop = {} /\ e.change = {} /\ e.start = {}
  BY DEF Idle, ActFields
<1>2. Frame(a) /\ act'[a] = e
  BY DEF Enable, Frame, Inv, Shape, StateOK
<1> HIDE DEF e
<1>3. /\ UNCHANGED <<file, installed, running, configLock, expected, unsettled, lagging>>
      /\ Up /\ act[a].pc = "idle" /\ configLock # a
      /\ overlapped' = (overlapped \/ ~Alone(a)) /\ synced' = FALSE
  BY DEF Enable, service, Inv, Shape, ActOK
<1>4. ActOK(a)'
  BY <1>1, <1>2, <1>3 DEF ActOK, PCs, Jobs
<1>5. StateOK'
  <2>1. overlapped' \in BOOLEAN
    BY <1>3 DEF Inv, Shape, StateOK, Alone
  <2> QED
    BY <1>2, <1>3, <2>1 DEF Inv, Shape, StateOK, Up, Frame, IsDoc, IsConfig
<1>6. Lock'
  <2>1. SaveOK(a)'
    BY <1>1, <1>2 DEF SaveOK
  <2> QED
    BY <1>2, <1>3, <2>1, LockOthers DEF Lock, AcknowledgedChangesStay, Inv
<1>7. \A b \in Request \ {a} : act'[b] = act[b]
  BY <1>2 DEF Frame
<1>8. Settles'
  <2>1. SomeoneReads => SomeoneReads'
    BY <1>3, <1>7 DEF SomeoneReads, WillRead, HasRead
  <2>2. NobodySwaps => NobodySwaps'
    BY <1>1, <1>2, <1>7 DEF NobodySwaps
  <2> QED
    BY <1>3, <2>1, <2>2 DEF Inv, Settles, Up
<1>9. Watch'
  <2>1. CASE ~Alone(a)
    BY <1>3, <2>1 DEF Watch, OneActive, InStep, AllStarted, ListenOK
  <2>2. CASE Alone(a)
    <3>1. \A b \in Request : ~Active(b)
      BY <1>3, <2>2 DEF Active, Alone
    <3>2. \A b \in Request : Active(b)' <=> b = a
      BY <1>1, <1>2, <1>7, <2>2 DEF Active, Alone
    <3>3. \A b \in Request : ListenOK(b)'
      BY <1>1, <1>2, <1>3, <3>2 DEF ListenOK, Active
    <3>4. InStep'
      <4> SUFFICES ASSUME ~overlapped, NEW u \in DOMAIN running \ lagging
                   PROVE  Agrees(u)'
        BY <1>3 DEF InStep
      <4> QED
        BY <1>3, <3>1 DEF Inv, Watch, InStep, Due, Active, Agrees
    <3>5. OneActive' /\ AllStarted'
      BY <1>3, <3>2 DEF OneActive, AllStarted
    <3> QED
      BY <3>3, <3>4, <3>5 DEF Watch
  <2> QED
    BY <2>1, <2>2
<1> QED
  BY <1>2, <1>3, <1>4, <1>5, <1>6, <1>8, <1>9, ShapeStep DEF Inv

LEMMA DisableStep ==
  ASSUME Inv, NEW a \in Request, NEW t \in Task, Disable(a, t)
  PROVE  Inv'
<1>1. /\ UNCHANGED <<file, installed, configLock, act, expected, unsettled, overlapped>>
      /\ synced' = FALSE /\ lagging' = lagging \ {t}
      /\ running' = Restrict(running, DOMAIN running \ {t})
  BY DEF Disable, Stops
<1>2. /\ DOMAIN running' = DOMAIN running \ {t}
      /\ \A u \in DOMAIN running' : running'[u] = running[u]
  BY <1>1 DEF Restrict
<1>3. StateOK'
  BY <1>1, <1>2 DEF Inv, Shape, StateOK, Up, Quiet, IsDoc, IsConfig
<1>4. \A b \in Request : ActOK(b)'
  BY <1>1 DEF Inv, Shape, ActOK
<1>5. Lock'
  BY <1>1 DEF Inv, Lock, AcknowledgedChangesStay, SaveOK
<1>6. Settles'
  BY <1>1 DEF Inv, Settles, SomeoneReads, NobodySwaps, WillRead, HasRead, Up
<1>7. OneActive' /\ AllStarted'
  BY <1>1 DEF Inv, Watch, OneActive, AllStarted, Active
<1>8. \A b \in Request : ListenOK(b)'
  BY <1>1 DEF Inv, Watch, ListenOK
<1>9. InStep'
  BY <1>1, <1>2 DEF Inv, Watch, InStep, Agrees, Due, Up
<1> QED
  BY <1>3, <1>4, <1>5, <1>6, <1>7, <1>8, <1>9 DEF Inv, Shape, Watch
-----------------------------------------------------------------------------
(***************************************************************************)
(* The listener at work.  Its steps leave the file, the lock and the       *)
(* installed settings alone.                                               *)
(***************************************************************************)
LEMMA ListenerFrame ==
  ASSUME Inv, NEW a \in Request, Active(a), Frame(a),
         UNCHANGED <<file, installed, configLock, expected, unsettled, overlapped>>,
         DOMAIN running' \subseteq Task, \A t \in DOMAIN running' : DOMAIN running'[t] = Fields,
         synced' \in BOOLEAN, lagging' \subseteq Task,
         \/ act'[a] = Idle /\ act[a].job = "enable"
         \/ /\ DOMAIN act'[a] = ActFields
            /\ act'[a].pc \in {"apply", "get", "start"}
            /\ act'[a].job = act[a].job /\ act'[a].op = act[a].op
            /\ act'[a].pc = "apply" => act[a].job # "enable"
            /\ act[a].job = "enable" => act'[a].change = act[a].change
            /\ act'[a].stop \subseteq Task /\ act'[a].change \subseteq Task /\ act'[a].start \subseteq Task
            /\ act'[a].pc \in {"get", "start"} => act'[a].task \in Task /\ act'[a].stop = {}
            /\ act'[a].pc = "start" => DOMAIN act'[a].cfg = Fields
  PROVE  Shape' /\ Lock' /\ Settles'
<1>1. ActOK(a) /\ SaveOK(a) /\ act[a].pc # "idle" /\ act[a].job # "none"
  BY DEF Inv, Shape, Lock, ActOK, Active
<1>2. act'[a].pc \in {"idle", "apply", "get", "start"}
  BY IdleFacts
<1>3. ActOK(a)'
  <2>1. CASE act'[a] = Idle /\ act[a].job = "enable"
    BY <1>1, <2>1, IdleFacts DEF ActOK, PCs, Jobs
  <2>2. CASE act'[a] # Idle
    BY <1>1, <2>2 DEF ActOK, PCs, Jobs
  <2> QED
    BY <1>1, <2>1, <2>2, IdleFacts DEF ActOK, PCs, Jobs
<1>4. StateOK'
  <2>1. Up
    BY <1>1 DEF Inv, Shape, StateOK, Quiet
  <2> QED
    BY <2>1 DEF Inv, Shape, StateOK, Up, Frame, IsDoc, IsConfig
<1>5. Lock'
  <2>1. SaveOK(a)'
    <3>1. CASE act'[a] = Idle
      BY <3>1, IdleFacts DEF SaveOK
    <3>2. CASE act'[a] # Idle
      BY <1>1, <3>2 DEF SaveOK, Active
    <3> QED
      BY <3>1, <3>2
  <2> QED
    BY <2>1, LockOthers DEF Lock, AcknowledgedChangesStay, Inv
<1>6. Settles'
  BY <1>2, SettlesStep DEF WillRead, HasRead, Active
<1> QED
  BY <1>3, <1>4, <1>5, <1>6, ShapeStep

\* Unless reloads raced, the others have no listener at work.
LEMMA Others ==
  ASSUME Inv, NEW a \in Request, Active(a), Frame(a), Active(a)' \/ act'[a].pc = "idle",
         overlapped' = overlapped, synced' => synced, synced' \/ ~overlapped'
  PROVE  \A b \in Request \ {a} : ~Active(b) /\ ~Active(b)'
  BY DEF Inv, Watch, OneActive, Frame, Active

\* So it is enough to look at a.
LEMMA ListenerWatch ==
  ASSUME Inv, NEW a \in Request, Active(a), Frame(a), act'[a].pc \in {"idle", "apply", "get", "start"},
         UNCHANGED <<installed, overlapped>>, synced' => synced,
         ListenOK(a)',
         ~overlapped => \A t \in DOMAIN running' \ lagging' : Agrees(t)' \/ Due(a, t)',
         synced' /\ act'[a].pc = "idle" => DOMAIN running' = Enabled(installed)
  PROVE  Watch'
<1>1. Active(a)' \/ act'[a].pc = "idle"
  BY DEF Active
<1>2. \A b \in Request : ListenOK(b)'
  <2> SUFFICES ASSUME NEW b \in Request \ {a} PROVE ListenOK(b)'
    OBVIOUS
  <2>1. synced' \/ ~overlapped' => ~Active(b)'
    BY <1>1, Others
  <2> QED
    BY <2>1 DEF ListenOK, Active
<1>3. OneActive'
  BY <1>1, Others DEF OneActive
<1>4. InStep'
  BY DEF InStep
<1>5. AllStarted'
  <2> SUFFICES ASSUME synced', \A b \in Request : ~Active(b)'
               PROVE  DOMAIN running' = Enabled(installed)'
    BY DEF AllStarted
  <2>1. act'[a].pc = "idle"
    BY <1>1
  <2> QED
    BY <2>1 DEF Enabled
<1> QED
  BY <1>2, <1>3, <1>4, <1>5 DEF Watch

\* What InStep says when a is the one at work.
LEMMA DueOfOne ==
  ASSUME Inv, NEW a \in Request, Active(a), ~overlapped, NEW t \in DOMAIN running \ lagging
  PROVE  Agrees(t) \/ Due(a, t)
<1>1. Up
  BY DEF Inv, Shape, StateOK, Quiet, Active
<1>2. \A b \in Request \ {a} : ~Active(b)
  BY DEF Inv, Watch, OneActive
<1> QED
  BY <1>1, <1>2 DEF Inv, Watch, InStep, Due, Active

LEMMA ListenStep ==
  ASSUME Inv, NEW a \in Request, Listen(a)
  PROVE  Inv'
<1> DEFINE new == AppConfig(act[a].new)
           on  == Enabled(new)
           off == DOMAIN running \ on
<1>1. act[a].pc = "listen" /\ ActOK(a) /\ Active(a) /\ ListenOK(a)
  BY DEF Listen, Inv, Shape, Watch, Active
<1>2. on \subseteq Task /\ on \subseteq DOMAIN new.tasks /\ DOMAIN running \subseteq Task
  BY <1>1, ConfigOfDoc DEF Enabled, ActOK, IsConfig, Inv, Shape, StateOK
<1>3. /\ Frame(a) /\ DOMAIN act'[a] = ActFields /\ act'[a].pc = "apply"
      /\ act'[a].stop = off
      /\ act'[a].change = (act[a].change \cap DOMAIN running) \ off
      /\ act'[a].start = on \ DOMAIN running
      /\ act'[a].job = act[a].job /\ act'[a].op = act[a].op
  BY <1>1 DEF Listen, Reacts, Frame, Inv, Shape, StateOK, ActOK, ActFields
<1>4. UNCHANGED <<file, installed, running, configLock, expected, unsettled, overlapped, synced, lagging>>
  BY DEF Listen, service, history
<1>5. synced \/ ~overlapped => installed = new
  BY <1>1 DEF ListenOK
<1> HIDE DEF new
<1>6. Shape' /\ Lock' /\ Settles'
  BY <1>1, <1>2, <1>3, <1>4, ListenerFrame DEF ActOK, Inv, Shape, StateOK
<1>7. ListenOK(a)'
  BY <1>1, <1>2, <1>3, <1>4, <1>5 DEF ListenOK, ActOK, Starting, Enabled
<1>8. ~overlapped => \A t \in DOMAIN running' \ lagging' : Agrees(t)' \/ Due(a, t)'
  <2> SUFFICES ASSUME ~overlapped, NEW t \in DOMAIN running \ lagging
               PROVE  Agrees(t) \/ t \in off \cup act'[a].change
    BY <1>3, <1>4 DEF Agrees, Due
  <2>1. Agrees(t) \/ t \in act[a].change \/ t \notin DOMAIN installed.tasks
    BY <1>1, DueOfOne DEF Due
  <2> QED
    BY <1>2, <1>3, <1>5, <2>1
<1>9. Watch'
  BY <1>1, <1>3, <1>4, <1>7, <1>8, ListenerWatch
<1> QED
  BY <1>6, <1>9 DEF Inv

\* stop_task of one that is removed, disabled or changed.
LEMMA StopStep ==
  ASSUME Inv, NEW a \in Request, NEW t \in Task, ApplyStop(a, t) \/ ApplyChange(a, t)
  PROVE  Inv'
<1>1. act[a].pc = "apply" /\ ActOK(a) /\ Active(a) /\ ListenOK(a)
  BY DEF ApplyStop, ApplyChange, Inv, Shape, Watch, Active
<1>2. /\ UNCHANGED <<file, installed, configLock, expected, unsettled, overlapped, synced>>
      /\ lagging' = lagging \ {t} /\ running' = Restrict(running, DOMAIN running \ {t})
  BY DEF ApplyStop, ApplyChange, Stops
<1>3. /\ DOMAIN running' = DOMAIN running \ {t}
      /\ \A u \in DOMAIN running' : running'[u] = running[u]
  BY <1>2 DEF Restrict
<1>4. /\ DOMAIN running' \subseteq Task /\ \A u \in DOMAIN running' : DOMAIN running'[u] = Fields
      /\ synced' \in BOOLEAN /\ lagging' \subseteq Task
  BY <1>2, <1>3 DEF Inv, Shape, StateOK
<1>5. \A u \in DOMAIN running' \ lagging' :
         /\ u \in DOMAIN running \ lagging /\ u # t
         /\ Agrees(u) => Agrees(u)'
  BY <1>2, <1>3 DEF Agrees
<1>6. CASE ApplyStop(a, t)
  <2>1. /\ Frame(a) /\ DOMAIN act'[a] = ActFields /\ act'[a].pc = "apply"
        /\ act'[a].stop = act[a].stop \ {t} /\ t \in act[a].stop
        /\ act'[a].change = act[a].change /\ act'[a].start = act[a].start
        /\ act'[a].job = act[a].job /\ act'[a].op = act[a].op
    BY <1>1, <1>6 DEF ApplyStop, Frame, Inv, Shape, StateOK, ActOK, ActFields
  <2>2. Shape' /\ Lock' /\ Settles'
    BY <1>1, <1>2, <1>4, <2>1, ListenerFrame DEF ActOK
  <2>3. ListenOK(a)'
    <3>1. Starting(a) = {} /\ Starting(a)' = {}
      BY <1>1, <2>1 DEF Starting
    <3>2. Enabled(installed') = Enabled(installed)
      BY <1>2
    <3> QED
      BY <1>1, <1>2, <1>3, <2>1, <3>1, <3>2 DEF ListenOK
  <2>4. ~overlapped => \A u \in DOMAIN running' \ lagging' : Agrees(u)' \/ Due(a, u)'
    BY <1>1, <1>5, <2>1, DueOfOne DEF Due
  <2>5. Watch'
    BY <1>1, <1>2, <2>1, <2>3, <2>4, ListenerWatch
  <2> QED
    BY <2>2, <2>5 DEF Inv
<1>7. CASE ApplyChange(a, t)
  <2>1. /\ Frame(a) /\ DOMAIN act'[a] = ActFields /\ act'[a].pc = "get" /\ act'[a].task = t
        /\ act'[a].change = act[a].change \ {t} /\ t \in act[a].change
        /\ act'[a].stop = act[a].stop /\ act[a].stop = {} /\ act'[a].start = act[a].start
        /\ act'[a].job = act[a].job /\ act'[a].op = act[a].op
    BY <1>1, <1>7 DEF ApplyChange, Frame, Inv, Shape, StateOK, ActOK, ActFields
  <2>2. Shape' /\ Lock' /\ Settles'
    BY <1>1, <1>2, <1>4, <2>1, ListenerFrame DEF ActOK
  <2>3. ListenOK(a)'
    <3>1. Starting(a) = {} /\ Starting(a)' = {t}
      BY <1>1, <2>1 DEF Starting
    <3>2. Enabled(installed') = Enabled(installed)
      BY <1>2
    <3> QED
      BY <1>1, <1>2, <1>3, <2>1, <3>1, <3>2 DEF ListenOK
  <2>4. ~overlapped => \A u \in DOMAIN running' \ lagging' : Agrees(u)' \/ Due(a, u)'
    BY <1>1, <1>5, <2>1, DueOfOne DEF Due
  <2>5. Watch'
    BY <1>1, <1>2, <2>1, <2>3, <2>4, ListenerWatch
  <2> QED
    BY <2>2, <2>5 DEF Inv
<1> QED
  BY <1>6, <1>7
-----------------------------------------------------------------------------
(***************************************************************************)
(* start_task, for the listener or for a request that enables a task.      *)
(***************************************************************************)
LEMMA StartsFacts ==
  ASSUME Inv, NEW a \in Request, NEW t \in Task, Starts(a, t)
  PROVE  /\ ActOK(a) /\ ListenOK(a) /\ Active(a)
         /\ act[a].pc \in {"apply", "get"} /\ act[a].stop = {}
         /\ act[a].pc = "get" => act[a].task = t
         /\ act[a].pc = "apply" => act[a].change = {} /\ t \in act[a].start
         /\ synced => t \in Enabled(installed)
<1>1. ActOK(a) /\ ListenOK(a) /\ Active(a)
  BY DEF Inv, Shape, Watch, Starts, Active
<1>2. /\ act[a].pc \in {"apply", "get"} /\ act[a].stop = {}
      /\ act[a].pc = "get" => act[a].task = t
      /\ act[a].pc = "apply" => act[a].change = {} /\ t \in act[a].start
  BY <1>1 DEF Starts, ActOK
<1>3. synced => t \in Enabled(installed)
  BY <1>1, <1>2 DEF ListenOK, Starting
<1> QED
  BY <1>1, <1>2, <1>3

LEMMA get_taskStep ==
  ASSUME Inv, NEW a \in Request, NEW t \in Task, get_task(a, t)
  PROVE  Inv'
<1>1. /\ Starts(a, t) /\ t \in DOMAIN installed.tasks
      /\ UNCHANGED <<file, installed, running, configLock, expected, unsettled, overlapped, synced, lagging>>
  BY DEF get_task, service, history
<1>2. /\ ActOK(a) /\ ListenOK(a) /\ Active(a)
      /\ act[a].pc \in {"apply", "get"} /\ act[a].stop = {}
      /\ act[a].pc = "get" => act[a].task = t
      /\ act[a].pc = "apply" => act[a].change = {}
      /\ synced => t \in Enabled(installed)
  BY <1>1, StartsFacts
<1>3. /\ Frame(a) /\ DOMAIN act'[a] = ActFields /\ act'[a].pc = "start" /\ act'[a].task = t
      /\ act'[a].cfg = installed.tasks[t]
      /\ act'[a].stop = act[a].stop /\ act'[a].change = act[a].change
      /\ act'[a].start = act[a].start
      /\ act'[a].job = act[a].job /\ act'[a].op = act[a].op
  BY <1>2 DEF get_task, Frame, Inv, Shape, StateOK, ActOK, ActFields
<1>4. DOMAIN installed.tasks[t] = Fields
  BY <1>1, <1>2 DEF Inv, Shape, StateOK, IsConfig, Quiet, Active
<1>5. Shape' /\ Lock' /\ Settles'
  BY <1>1, <1>2, <1>3, <1>4, ListenerFrame DEF ActOK, Inv, Shape, StateOK
<1>6. ListenOK(a)'
  <2>1. Starting(a)' = {t} /\ Starting(a) \subseteq {t}
    BY <1>2, <1>3 DEF Starting
  <2>2. Enabled(installed') = Enabled(installed)
    BY <1>1
  <2> QED
    BY <1>1, <1>2, <1>3, <2>1, <2>2 DEF ListenOK
<1>7. ~overlapped => \A u \in DOMAIN running' \ lagging' : Agrees(u)' \/ Due(a, u)'
  BY <1>1, <1>2, <1>3, DueOfOne DEF Due, Agrees
<1>8. Watch'
  BY <1>1, <1>2, <1>3, <1>6, <1>7, ListenerWatch
<1> QED
  BY <1>5, <1>8 DEF Inv

\* Where a request is when start_task has ended without an exception, and with one.
LEMMA AfterStart ==
  ASSUME Inv, NEW a \in Request, Active(a), act[a].pc # "listen", act[a].stop = {},
         NEW t \in Task, NEW raised \in BOOLEAN, StartEnds(a, t, raised)
  PROVE  /\ Frame(a)
         /\ \/ act'[a] = Idle /\ act[a].job = "enable"
            \/ /\ DOMAIN act'[a] = ActFields /\ act'[a].pc = "apply" /\ act[a].job # "enable"
               /\ act'[a].job = act[a].job /\ act'[a].op = act[a].op /\ act'[a].stop = {}
               /\ act'[a].change = IF raised THEN {} ELSE act[a].change
               /\ act'[a].start = IF raised THEN {} ELSE act[a].start \ {t}
<1> DEFINE rest == IF raised THEN [act[a] EXCEPT !.change = {}, !.start = {}]
                             ELSE [act[a] EXCEPT !.start = act[a].start \ {t}]
           e == IF rest.job = "enable" THEN Idle
                ELSE [rest EXCEPT !.pc = "apply", !.task = NONE, !.cfg = NONE]
<1>1. ActOK(a)
  BY DEF Inv, Shape
<1>2. /\ DOMAIN rest = ActFields
      /\ rest.job = act[a].job /\ rest.op = act[a].op /\ rest.stop = {}
      /\ rest.change = IF raised THEN {} ELSE act[a].change
      /\ rest.start = IF raised THEN {} ELSE act[a].start \ {t}
  BY <1>1 DEF ActOK, ActFields
<1>3. act' = [act EXCEPT ![a] = e]
  BY DEF StartEnds
<1> HIDE DEF rest
<1>4. e.job # "enable" /\ act[a].job # "enable" =>
        /\ DOMAIN e = ActFields /\ e.pc = "apply"
        /\ e.job = act[a].job /\ e.op = act[a].op /\ e.stop = {}
        /\ e.change = rest.change /\ e.start = rest.start
  BY <1>2 DEF ActFields
<1>5. act[a].job = "enable" => e = Idle
  BY <1>2
<1>6. act[a].job # "enable" => e.job # "enable"
  BY <1>2 DEF ActFields
<1> HIDE DEF e
<1>7. Frame(a) /\ act'[a] = e
  BY <1>3 DEF Frame, Inv, Shape, StateOK
<1> QED
  BY <1>2, <1>4, <1>5, <1>6, <1>7

\* start_task ends without a watcher: there is no such task, or it has raised.
LEMMA NotStartedStep ==
  ASSUME Inv, NEW a \in Request, NEW t \in Task, TaskIsGone(a, t) \/ FolderIsMissing(a, t)
  PROVE  Inv'
<1>1. /\ Starts(a, t)
      /\ UNCHANGED <<file, installed, running, configLock, expected, unsettled, overlapped>>
      /\ \/ /\ StartEnds(a, t, FALSE) /\ UNCHANGED <<synced, lagging>>
            /\ t \notin DOMAIN installed.tasks
         \/ /\ StartEnds(a, t, TRUE) /\ synced' = FALSE /\ lagging' = lagging \cup act[a].change
  BY DEF TaskIsGone, FolderIsMissing, service, history
<1>2. /\ ActOK(a) /\ ListenOK(a) /\ Active(a)
      /\ act[a].pc \in {"apply", "get"} /\ act[a].stop = {}
      /\ synced => t \in Enabled(installed)
  BY <1>1, StartsFacts
<1>3. act[a].pc # "listen"
  BY <1>2
<1>4. /\ Frame(a)
      /\ \/ act'[a] = Idle /\ act[a].job = "enable"
         \/ /\ DOMAIN act'[a] = ActFields /\ act'[a].pc = "apply" /\ act[a].job # "enable"
            /\ act'[a].job = act[a].job /\ act'[a].op = act[a].op /\ act'[a].stop = {}
            /\ act'[a].change \subseteq act[a].change /\ act'[a].start \subseteq act[a].start
            /\ act[a].change \subseteq act'[a].change \cup lagging'
      /\ synced' = FALSE /\ lagging \subseteq lagging' /\ lagging' \subseteq lagging \cup act[a].change
  <2>1. CASE StartEnds(a, t, TRUE) /\ synced' = FALSE /\ lagging' = lagging \cup act[a].change
    <3>1. /\ Frame(a)
          /\ \/ act'[a] = Idle /\ act[a].job = "enable"
             \/ /\ DOMAIN act'[a] = ActFields /\ act'[a].pc = "apply" /\ act[a].job # "enable"
                /\ act'[a].job = act[a].job /\ act'[a].op = act[a].op /\ act'[a].stop = {}
                /\ act'[a].change = {} /\ act'[a].start = {}
      BY <1>2, <1>3, <2>1, AfterStart
    <3> QED
      BY <2>1, <3>1
  <2>2. CASE StartEnds(a, t, FALSE) /\ UNCHANGED <<synced, lagging>> /\ t \notin DOMAIN installed.tasks
    <3>1. /\ Frame(a)
          /\ \/ act'[a] = Idle /\ act[a].job = "enable"
             \/ /\ DOMAIN act'[a] = ActFields /\ act'[a].pc = "apply" /\ act[a].job # "enable"
                /\ act'[a].job = act[a].job /\ act'[a].op = act[a].op /\ act'[a].stop = {}
                /\ act'[a].change = act[a].change /\ act'[a].start = act[a].start \ {t}
      BY <1>2, <1>3, <2>2, AfterStart
    <3>2. t \notin Enabled(installed)
      BY <2>2 DEF Enabled
    <3>3. synced \in BOOLEAN
      BY DEF Inv, Shape, StateOK
    <3> QED
      BY <1>2, <2>2, <3>1, <3>2, <3>3
  <2> QED
    BY <1>1, <2>1, <2>2
<1>5. synced' = FALSE
  BY <1>4
<1>6. act[a].change \subseteq Task /\ act[a].start \subseteq Task /\ lagging' \subseteq Task
  BY <1>2, <1>4 DEF ActOK, Inv, Shape, StateOK
<1>7. Shape' /\ Lock' /\ Settles'
  BY <1>1, <1>2, <1>4, <1>5, <1>6, ListenerFrame DEF Inv, Shape, StateOK
<1>8. act'[a].pc \in {"idle", "apply"} /\ ListenOK(a)'
  BY <1>4, <1>5, IdleFacts DEF ListenOK
<1>9. ~overlapped => \A u \in DOMAIN running' \ lagging' : Agrees(u)' \/ Due(a, u)'
  <2> SUFFICES ASSUME ~overlapped, NEW u \in DOMAIN running', u \notin lagging'
               PROVE  Agrees(u)' \/ Due(a, u)'
    OBVIOUS
  <2>1. Agrees(u) <=> Agrees(u)'
    BY <1>1 DEF Agrees
  <2>2. Agrees(u) \/ u \in act[a].change
    BY <1>1, <1>2, <1>4, DueOfOne DEF Due
  <2>3. CASE act'[a] = Idle /\ act[a].job = "enable"
    BY <1>2, <2>1, <2>2, <2>3 DEF ActOK
  <2>4. CASE act'[a].pc = "apply"
    BY <1>4, <2>1, <2>2, <2>4, IdleFacts DEF Due
  <2> QED
    BY <1>4, <2>3, <2>4
<1>10. Watch'
  BY <1>1, <1>2, <1>4, <1>5, <1>8, <1>9, ListenerWatch
<1> QED
  BY <1>7, <1>10 DEF Inv

\* The watcher and the scanner start, or what had started is cleaned up.
LEMMA StartedStep ==
  ASSUME Inv, NEW a \in Request, Start(a) \/ StartFails(a)
  PROVE  Inv'
<1> DEFINE t == act[a].task
<1>1. /\ act[a].pc = "start" /\ ActOK(a) /\ ListenOK(a) /\ Active(a)
      /\ act[a].stop = {} /\ t \in Task /\ DOMAIN act[a].cfg = Fields
  BY DEF Start, StartFails, Inv, Shape, Watch, Active, ActOK
<1>2. UNCHANGED <<file, installed, configLock, expected, unsettled, overlapped>>
  BY DEF Start, StartFails
<1>3. act[a].pc # "listen"
  BY <1>1
<1>4. act[a].change \subseteq Task /\ act[a].start \subseteq Task
  BY <1>1 DEF ActOK
<1>5. CASE Start(a)
  <2>1. /\ Frame(a)
        /\ \/ act'[a] = Idle /\ act[a].job = "enable"
           \/ /\ DOMAIN act'[a] = ActFields /\ act'[a].pc = "apply" /\ act[a].job # "enable"
              /\ act'[a].job = act[a].job /\ act'[a].op = act[a].op /\ act'[a].stop = {}
              /\ act'[a].change = act[a].change /\ act'[a].start = act[a].start \ {t}
    <3>1. StartEnds(a, t, FALSE)
      BY <1>5 DEF Start
    <3> QED
      BY <1>1, <1>3, <3>1, AfterStart
  <2>2. /\ DOMAIN running' = DOMAIN running \cup {t}
        /\ running'[t] = act[a].cfg
        /\ \A u \in DOMAIN running \ {t} : running'[u] = running[u]
        /\ lagging' = lagging \ {t} /\ synced' = synced
    BY <1>5 DEF Start, Override
  <2>3. /\ DOMAIN running' \subseteq Task /\ \A u \in DOMAIN running' : DOMAIN running'[u] = Fields
        /\ synced' \in BOOLEAN /\ lagging' \subseteq Task
    BY <1>1, <2>2 DEF Inv, Shape, StateOK
  <2> HIDE DEF t
  <2>4. Shape' /\ Lock' /\ Settles'
    BY <1>1, <1>2, <1>4, <2>1, <2>3, ListenerFrame
  <2>5. synced => /\ act[a].job # "enable" /\ act'[a].pc = "apply"
                  /\ act[a].change \cup act[a].start \cup {t} \subseteq Enabled(installed)
                  /\ DOMAIN running \subseteq Enabled(installed)
                  /\ Enabled(installed) \subseteq DOMAIN running \cup act[a].start \cup {t}
    <3>1. Starting(a) = {t}
      BY <1>1 DEF Starting, t
    <3> QED
      BY <1>1, <2>1, <3>1 DEF ListenOK
  <2>6. ListenOK(a)'
    <3>1. act'[a].pc \in {"idle", "apply"}
      BY <2>1, IdleFacts
    <3>2. Starting(a)' = {} /\ Enabled(installed') = Enabled(installed)
      BY <1>2, <3>1 DEF Starting
    <3> QED
      BY <1>2, <2>1, <2>2, <2>5, <3>1, <3>2 DEF ListenOK
  <2>7. ~overlapped => \A u \in DOMAIN running' \ lagging' : Agrees(u)' \/ Due(a, u)'
    <3> SUFFICES ASSUME ~overlapped, NEW u \in DOMAIN running', u \notin lagging'
                 PROVE  Agrees(u)' \/ Due(a, u)'
      OBVIOUS
    <3>1. CASE u = t
      <4>1. t \in DOMAIN installed.tasks /\ act[a].cfg = installed.tasks[t]
        BY <1>1 DEF ListenOK, t
      <4> QED
        BY <1>2, <2>2, <3>1, <4>1 DEF Agrees
    <3>2. CASE u # t
      <4>1. u \in DOMAIN running \ lagging /\ (Agrees(u) => Agrees(u)')
        BY <1>2, <2>2, <3>2 DEF Agrees
      <4>2. Agrees(u) \/ u \in act[a].change
        BY <1>1, <4>1, DueOfOne DEF Due
      <4>3. CASE act'[a] = Idle /\ act[a].job = "enable"
        BY <1>1, <4>1, <4>2, <4>3 DEF ActOK
      <4>4. CASE act'[a].pc = "apply"
        BY <2>1, <4>1, <4>2, <4>4, IdleFacts DEF Due
      <4> QED
        BY <2>1, <4>3, <4>4
    <3> QED
      BY <3>1, <3>2
  <2>8. Watch'
    <3>1. act'[a].pc \in {"idle", "apply", "get", "start"}
      BY <2>1, IdleFacts
    <3>2. ~(synced' /\ act'[a].pc = "idle")
      BY <2>2, <2>5
    <3> QED
      BY <1>1, <1>2, <2>1, <2>2, <2>6, <2>7, <3>1, <3>2, ListenerWatch
  <2> QED
    BY <2>4, <2>8 DEF Inv
<1>6. CASE StartFails(a)
  <2>1. /\ Frame(a)
        /\ \/ act'[a] = Idle /\ act[a].job = "enable"
           \/ /\ DOMAIN act'[a] = ActFields /\ act'[a].pc = "apply" /\ act[a].job # "enable"
              /\ act'[a].job = act[a].job /\ act'[a].op = act[a].op /\ act'[a].stop = {}
              /\ act'[a].change = {} /\ act'[a].start = {}
    <3>1. StartEnds(a, t, TRUE)
      BY <1>6 DEF StartFails
    <3> QED
      BY <1>1, <1>3, <3>1, AfterStart
  <2>2. /\ DOMAIN running' = DOMAIN running \ {t}
        /\ \A u \in DOMAIN running' : running'[u] = running[u]
        /\ lagging' = lagging \cup act[a].change /\ synced' = FALSE
    BY <1>6 DEF StartFails, Restrict
  <2>3. /\ DOMAIN running' \subseteq Task /\ \A u \in DOMAIN running' : DOMAIN running'[u] = Fields
        /\ synced' \in BOOLEAN /\ lagging' \subseteq Task
    BY <1>4, <2>2 DEF Inv, Shape, StateOK
  <2>4. Shape' /\ Lock' /\ Settles'
    BY <1>1, <1>2, <2>1, <2>3, ListenerFrame
  <2>5. act'[a].pc \in {"idle", "apply"} /\ ListenOK(a)'
    BY <2>1, <2>2, IdleFacts DEF ListenOK
  <2>6. ~overlapped => \A u \in DOMAIN running' \ lagging' : Agrees(u)' \/ Due(a, u)'
    <3> SUFFICES ASSUME ~overlapped, NEW u \in DOMAIN running', u \notin lagging'
                 PROVE  Agrees(u)'
      OBVIOUS
    <3>1. Agrees(u)
      BY <1>1, <2>2, DueOfOne DEF Due
    <3> QED
      BY <1>2, <2>2, <3>1 DEF Agrees
  <2>7. Watch'
    BY <1>1, <1>2, <2>1, <2>2, <2>5, <2>6, ListenerWatch
  <2> QED
    BY <2>4, <2>7 DEF Inv
<1> QED
  BY <1>5, <1>6

\* The listener has come to every task; the lock is given up.
LEMMA FinishStep ==
  ASSUME Inv, NEW a \in Request, Finish(a)
  PROVE  Inv'
<1>1. /\ act[a].pc = "apply" /\ ActOK(a) /\ SaveOK(a) /\ ListenOK(a) /\ Active(a)
      /\ act[a].job \in {"save", "undo", "reload"}
      /\ act[a].stop = {} /\ act[a].change = {} /\ act[a].start = {}
  BY DEF Finish, Inv, Shape, Lock, Watch, ActOK, Active
<1>2. UNCHANGED <<file, installed, running, unsettled, overlapped, synced, lagging>>
  BY DEF Finish, service
<1>3. /\ Frame(a) /\ act'[a] = Idle
      /\ configLock' = IF configLock = a THEN NONE ELSE configLock
  BY DEF Finish, Answer, Frame, Inv, Shape, StateOK
<1>4. expected' = IF act[a].job # "save" THEN expected
                  ELSE IF expected = NONE THEN file ELSE Change(expected, act[a].op)
  BY DEF Finish
<1>5. act[a].job \in {"save", "undo"} <=> configLock = a
  BY <1>1 DEF ActOK
<1>6. ActOK(a)'
  BY <1>3, IdleFacts DEF ActOK, PCs, Jobs
<1>7. StateOK'
  <2>1. Up
    BY <1>1 DEF Inv, Shape, StateOK, Quiet
  <2> QED
    BY <1>2, <1>3, <2>1 DEF Inv, Shape, StateOK, Up, Frame, IsDoc, IsConfig
<1>8. Lock'
  <2>1. SaveOK(a)'
    BY <1>3, IdleFacts DEF SaveOK
  <2>2. CASE act[a].job = "save"
    <3>1. expected' = file
      BY <1>1, <1>4, <2>2 DEF SaveOK
    <3> QED
      BY <1>2, <1>3, <1>5, <2>1, <2>2, <3>1, LockOthers DEF Lock, AcknowledgedChangesStay
  <2>3. CASE act[a].job # "save"
    <3>1. expected' = expected
      BY <1>4, <2>3
    <3>2. AcknowledgedChangesStay'
      BY <1>1, <1>2, <1>3, <1>5, <2>3, <3>1 DEF SaveOK, Inv, Lock, AcknowledgedChangesStay
    <3> QED
      BY <1>2, <1>3, <2>1, <3>1, <3>2, LockOthers DEF Lock
  <2> QED
    BY <2>2, <2>3
<1>9. Settles'
  BY <1>1, <1>2, <1>3, IdleFacts, SettlesStep DEF WillRead, HasRead
<1>10. Watch'
  <2>1. act'[a].pc = "idle" /\ ListenOK(a)'
    BY <1>3, IdleFacts DEF ListenOK
  <2>2. ~overlapped => \A u \in DOMAIN running' \ lagging' : Agrees(u)' \/ Due(a, u)'
    BY <1>1, <1>2, DueOfOne DEF Due, Agrees
  <2>3. synced => DOMAIN running = Enabled(installed)
    <3>1. Starting(a) = {}
      BY <1>1 DEF Starting
    <3> QED
      BY <1>1, <3>1 DEF ListenOK
  <2> QED
    BY <1>1, <1>2, <1>3, <2>1, <2>2, <2>3, ListenerWatch
<1> QED
  BY <1>3, <1>6, <1>7, <1>8, <1>9, <1>10, ShapeStep DEF Inv
-----------------------------------------------------------------------------
LEMMA StutterStep == Inv /\ UNCHANGED vars => Inv'
<1> SUFFICES ASSUME Inv, UNCHANGED vars PROVE Inv'
  OBVIOUS
<1>1. UNCHANGED <<file, installed, configLock, running, act, expected, unsettled, overlapped, synced, lagging>>
  BY DEF vars, history
<1>2. Shape'
  BY <1>1 DEF Inv, Shape, StateOK, ActOK, Up, Quiet, IsDoc, IsConfig
<1>3. Lock' /\ Settles'
  BY <1>1 DEF Inv, Lock, AcknowledgedChangesStay, SaveOK, Settles, SomeoneReads, NobodySwaps, WillRead, HasRead, Up
<1>4. Watch'
  BY <1>1 DEF Inv, Watch, OneActive, InStep, AllStarted, ListenOK, Active, Due, Agrees, Starting, Enabled, Up
<1> QED
  BY <1>2, <1>3, <1>4 DEF Inv

LEMMA NextInv == Inv /\ [Next]_vars => Inv'
<1> SUFFICES ASSUME Inv, Next PROVE Inv'
  BY StutterStep
<1>1. ASSUME NEW a \in Request, Step(a) PROVE Inv'
  BY <1>1, AnswerStep, WriteStep, ReadStep, ReadFailsStep, SwapStep, ListenStep, StopStep,
     get_taskStep, NotStartedStep, StartedStep, FinishStep DEF Step
<1> QED
  BY <1>1, HandEditStep, BootstrapStep, CrashStep, SubmitStep, ReloadStep, EnableStep, DisableStep
     DEF Next

LEMMA AlwaysInv == Spec => []Inv
  BY InitInv, NextInv, PTL DEF Spec

LEMMA Consequences ==
    Inv => TypeOK /\ AcknowledgedChangesStay /\ InstalledIsFile /\ WatchersFollow
<1> SUFFICES ASSUME Inv PROVE TypeOK /\ AcknowledgedChangesStay /\ InstalledIsFile /\ WatchersFollow
  OBVIOUS
<1>1. TypeOK
  BY DEF Inv, Shape, StateOK, ActOK, TypeOK, IsDoc, IsConfig, PCs
<1>2. AcknowledgedChangesStay
  BY DEF Inv, Lock
<1>3. InstalledIsFile
  BY DEF Inv, Settles, SomeoneReads, WillRead, HasRead, Quiet, InstalledIsFile
<1>4. WatchersFollow
  <2> SUFFICES ASSUME Up, Quiet
               PROVE  /\ synced => DOMAIN running = Enabled(installed)
                      /\ ~overlapped => \A t \in DOMAIN running \ lagging :
                                            running[t] = installed.tasks[t]
    BY DEF WatchersFollow
  <2>1. \A a \in Request : ~Active(a) /\ \A t \in Task : ~Due(a, t)
    BY DEF Quiet, Active, Due
  <2>2. DOMAIN running \subseteq Task
    BY DEF Inv, Shape, StateOK
  <2> QED
    BY <2>1, <2>2 DEF Inv, Watch, AllStarted, InStep, Agrees
<1> QED
  BY <1>1, <1>2, <1>3, <1>4

\* Every variable keeps its type; who holds the lock is saving or rolling back.
THEOREM TypeCorrect == Spec => []TypeOK
  BY AlwaysInv, Consequences, PTL

\* Acknowledged changes are in the file, for any number of requests at one time.
THEOREM ChangesStay == Spec => []AcknowledgedChangesStay
  BY AlwaysInv, Consequences, PTL

\* Unless reloads raced or an edit was not read, the file is what is installed.
THEOREM FileInstalled == Spec => []InstalledIsFile
  BY AlwaysInv, Consequences, PTL

\* After a reload that ran alone the enabled tasks run, each by its settings.
THEOREM WatchersInStep == Spec => []WatchersFollow
  BY AlwaysInv, Consequences, PTL
=============================================================================
