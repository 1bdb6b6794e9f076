--------------------------- MODULE ConfigManager ---------------------------
(***************************************************************************)
(* The configuration of a running service: the file, the AppConfig that    *)
(* ConfigManager holds, and the watchers and scanners that TaskManager runs *)
(* from it.  Requests change the file (the task CRUD of                    *)
(* web/api/config_api.py), reload it, and switch tasks on and off          *)
(* (web/api/tasks.py).                                                     *)
(*                                                                         *)
(* Two locks are at work and neither covers a reload as a whole.  The CRUD *)
(* requests hold _config_lock from their read of the file to the end of    *)
(* the reload, PUT /reload does not take it; and ConfigManager gives up its *)
(* own lock before it calls the listener, whose steps each take the lock   *)
(* of TaskManager for themselves.                                          *)
(***************************************************************************)
EXTENDS TaskSettings, FiniteSets

CONSTANTS Task,          \* task_ids
          Placeholder,   \* "web_placeholder"
          Request,       \* requests the web server handles at one time
          HandWritten,   \* what operators may leave in the file
          Forms,         \* what an update or a create may submit
          EditBusy,      \* bound: requests in flight while an operator edits the file
          NONE

ASSUME ConfigAssumption ==
    /\ NONE \notin Request
    /\ \A doc \in HandWritten : "tasks" \in DOMAIN doc /\ DOMAIN doc.tasks \subseteq Task

VARIABLES file,          \* config.yaml
          installed,     \* ConfigManager._config
          configLock,    \* the holder of _config_lock
          running,       \* running[t]: the TaskConfig that watcher and scanner of t hold
          act,           \* act[a]: where the handler of request a is
          expected,      \* history: the file that the acknowledged changes make
          unsettled,     \* history: the file changed and was not read since
          overlapped,    \* history: two reloads or starts ran at one time
          synced,        \* history: the last reload ran alone and to its end
          lagging        \* history: tasks whose change a listener did not come to

service == <<installed, running>>
history == <<expected, unsettled, overlapped, synced, lagging>>
vars    == <<file, installed, configLock, running, act, history>>

Idle == [pc |-> "idle", job |-> "none", op |-> NONE, new |-> NONE, old |-> NONE,
         stop |-> {}, change |-> {}, start |-> {},
         task |-> NONE, cfg |-> NONE]

NoConfig == [f \in {} |-> NONE]
Nothing  == [t \in {} |-> NONE]

Up    == installed # NoConfig
Quiet == \A a \in Request : act[a].pc = "idle"

\* No other request is between a read of the file, or of a task, and its last use of it.
Alone(a) == \A b \in Request \ {a} : act[b].pc \in {"idle", "write", "read", "undo"}

\* The tasks of an AppConfig that are switched on.
Enabled(config) == {t \in DOMAIN config.tasks : config.tasks[t]["enabled"]}

Goes(a, pc) == act' = [act EXCEPT ![a].pc = pc]

Init ==
    /\ file \in HandWritten
    /\ installed = NoConfig /\ configLock = NONE /\ running = Nothing
    /\ act = [a \in Request |-> Idle]
    /\ expected = file /\ unsettled = FALSE /\ overlapped = FALSE /\ synced = TRUE /\ lagging = {}
-----------------------------------------------------------------------------
\* create_task, update_task and delete_task on what _read_config_yaml() returns.
Applies(doc, op) ==
    IF op.kind = "create" THEN op.task \notin DOMAIN doc.tasks
    ELSE op.task \in DOMAIN doc.tasks /\ (op.kind = "delete" => op.task # Placeholder)

Change(doc, op) ==
    [doc EXCEPT !.tasks =
        CASE op.kind = "create" -> Override(@, [t \in {op.task} |-> _build_task_dict(op.form)])
          [] op.kind = "update" -> [@ EXCEPT ![op.task] = _merge_task_update(@, op.form)]
          [] op.kind = "delete" -> Restrict(@, DOMAIN @ \ {op.task})]

Operations == [kind : {"create", "update"}, task : Task, form : Forms]
              \cup [kind : {"delete"}, task : Task, form : {NONE}]

\* The file that is expected when the change op stays in it.
Expects(op) == IF expected = NONE THEN NONE ELSE Change(expected, op)
-----------------------------------------------------------------------------
\* An operator edits the file; a change in flight may overwrite the edit.
HandEdit ==
    /\ Cardinality({a \in Request : act[a].pc # "idle"}) <= EditBusy
    /\ file' \in HandWritten
    /\ expected' = IF configLock = NONE THEN file' ELSE NONE
    /\ unsettled' = TRUE
    /\ UNCHANGED <<service, configLock, act, overlapped, synced, lagging>>

\* bootstrap(): load(), then start_all() before the web server runs.  A file that is not
\* valid, or a folder that is not there, ends the process: nothing has changed.
Bootstrap ==
    /\ ~Up /\ validate_config(file)
    /\ installed' = AppConfig(file)
    /\ running' = Restrict(AppConfig(file).tasks, Enabled(AppConfig(file)))
    /\ unsettled' = FALSE
    /\ UNCHANGED <<file, configLock, act, expected, overlapped, synced, lagging>>

\* The file is replaced atomically, so a crash leaves the old one or the new one: the
\* change of a request that it cuts off is in the file as a whole or not at all.
Crash ==
    /\ Up
    /\ installed' = NoConfig /\ configLock' = NONE /\ running' = Nothing
    /\ act' = [a \in Request |-> Idle]
    /\ expected' = IF configLock = NONE \/ file = expected THEN expected
                   ELSE Expects(act[configLock].op)
    /\ overlapped' = FALSE /\ synced' = TRUE /\ lagging' = {}
    /\ UNCHANGED <<file, unsettled>>
-----------------------------------------------------------------------------
SubmitUnlocked(a) == \* mutant: with _config_lock dropped
    /\ Up /\ act[a].pc = "idle"
    /\ \E op \in Operations :
          /\ Applies(file, op) /\ validate_config(Change(file, op))
          /\ act' = [act EXCEPT ![a] = [Idle EXCEPT !.pc = "write", !.job = "save", !.op = op,
                                                    !.new = Change(file, op), !.old = file]]
    /\ configLock' = a
    /\ UNCHANGED <<file, service, history>>

\* A CRUD request takes the lock, reads and changes; what is refused writes nothing.
Submit(a) ==
    /\ Up /\ act[a].pc = "idle"
    /\ configLock = NONE
    /\ \E op \in Operations :
          /\ Applies(file, op) /\ validate_config(Change(file, op))
          /\ act' = [act EXCEPT ![a] = [Idle EXCEPT !.pc = "write", !.job = "save", !.op = op,
                                                    !.new = Change(file, op), !.old = file]]
    /\ configLock' = a
    /\ UNCHANGED <<file, service, history>>

AnswerKeeps(a) == \* mutant: _config_lock is not given up
    /\ act' = [act EXCEPT ![a] = Idle]
    /\ UNCHANGED configLock

\* The handler answers and, when it had it, gives up _config_lock.
Answer(a) ==
    /\ act' = [act EXCEPT ![a] = Idle]
    /\ configLock' = IF configLock = a THEN NONE ELSE configLock

_write_config_yaml(a) ==
    /\ act[a].pc = "write"
    /\ file' = act[a].new
    /\ Goes(a, "read")
    /\ UNCHANGED <<service, configLock, history>>

WriteFails(a) ==
    /\ act[a].pc = "write"
    /\ Answer(a)
    /\ UNCHANGED <<file, service, history>>

\* The rollback of _save_and_reload: the old file, and a reload of it.
Undo(a) ==
    /\ act[a].pc = "undo"
    /\ file' = act[a].old
    /\ Goes(a, "read")
    /\ UNCHANGED <<service, configLock, history>>

\* The old file cannot be written: the answer is an error, and the change stays.
UndoFails(a) ==
    /\ act[a].pc = "undo"
    /\ Answer(a)
    /\ expected' = Expects(act[a].op) /\ unsettled' = TRUE
    /\ UNCHANGED <<file, service, overlapped, synced, lagging>>
-----------------------------------------------------------------------------
\* PUT /reload
Reload(a) ==
    /\ Up /\ act[a].pc = "idle"
    /\ act' = [act EXCEPT ![a] = [Idle EXCEPT !.pc = "read", !.job = "reload"]]
    /\ UNCHANGED <<file, service, configLock, history>>

\* reload() up to the new AppConfig; nothing has changed yet.
Read(a) ==
    /\ act[a].pc = "read" /\ validate_config(file)
    /\ act' = [act EXCEPT ![a].pc = "swap", ![a].new = file, ![a].old = NONE]
    /\ unsettled' = FALSE
    /\ UNCHANGED <<file, service, configLock, expected, overlapped, synced, lagging>>

ReadFailsKept(a) == \* mutant: a save is not rolled back
    /\ act[a].pc = "read"
    /\ Answer(a)
    /\ UNCHANGED <<file, service, history>>

\* The file cannot be read, names an environment variable that is not set, or is
\* not valid.  A save rolls back, once.
ReadFails(a) ==
    /\ act[a].pc = "read"
    /\ IF act[a].job = "save"
       THEN /\ act' = [act EXCEPT ![a].pc = "undo", ![a].job = "undo"]
            /\ UNCHANGED <<configLock, unsettled>>
       ELSE /\ Answer(a)
            /\ unsettled' = (unsettled \/ act[a].job = "undo")
    /\ UNCHANGED <<file, service, expected, overlapped, synced, lagging>>

\* Tasks whose TaskConfig is another one, or new.
Differ(old, new) == {t \in DOMAIN new : t \notin DOMAIN old \/ old[t] # new[t]}

\* The part of reload() under ConfigManager._lock; the listener gets old and new.
Swap(a) ==
    /\ act[a].pc = "swap"
    /\ installed' = AppConfig(act[a].new)
    /\ act' = [act EXCEPT ![a].pc = "listen",
                           ![a].change = Differ(installed.tasks, AppConfig(act[a].new).tasks)]
    /\ overlapped' = (overlapped \/ ~Alone(a)) /\ synced' = Alone(a)
    /\ UNCHANGED <<file, configLock, running, expected, unsettled, lagging>>

Reacts(a, changed) ==
    LET enabled == Enabled(AppConfig(act[a].new))
        off     == DOMAIN running \ enabled
    IN  act' = [act EXCEPT ![a].pc = "apply", ![a].new = NONE,
                           ![a].stop = off,
                           ![a].change = (changed \cap DOMAIN running) \ off,
                           ![a].start = enabled \ DOMAIN running]

ListenNewOnly(a) == \* mutant: changed tasks keep their watchers
    /\ act[a].pc = "listen"
    /\ Reacts(a, {})
    /\ UNCHANGED <<file, service, configLock, history>>

\* _on_config_changed: what is to be done is decided here, from the tasks that run now.
Listen(a) ==
    /\ act[a].pc = "listen"
    /\ Reacts(a, act[a].change)
    /\ UNCHANGED <<file, service, configLock, history>>

\* stop_task: watcher and scanner of t end.
Stops(t) == running' = Restrict(running, DOMAIN running \ {t}) /\ lagging' = lagging \ {t}

\* stop_task of a task that was removed or disabled (resume_task: see WorkerPool).
ApplyStop(a, t) ==
    /\ act[a].pc = "apply" /\ t \in act[a].stop
    /\ act' = [act EXCEPT ![a].stop = @ \ {t}]
    /\ Stops(t)
    /\ UNCHANGED <<file, installed, configLock, expected, unsettled, overlapped, synced>>

\* stop_task of a task that changed; its start follows.
ApplyChange(a, t) ==
    /\ act[a].pc = "apply" /\ act[a].stop = {} /\ t \in act[a].change
    /\ act' = [act EXCEPT ![a].pc = "get", ![a].task = t, ![a].change = @ \ {t}]
    /\ Stops(t)
    /\ UNCHANGED <<file, installed, configLock, expected, unsettled, overlapped, synced>>

\* start_task(t) is called: by enable, for a task that changed or for one to start.
Starts(a, t) ==
    \/ act[a].pc = "get" /\ act[a].task = t
    \/ act[a].pc = "apply" /\ act[a].stop = {} /\ act[a].change = {} /\ t \in act[a].start

\* start_task is over: the listener goes on, unless it raised, and enable answers.
StartEnds(a, t, raised) ==
    LET rest == IF raised THEN [act[a] EXCEPT !.change = {}, !.start = {}]
                          ELSE [act[a] EXCEPT !.start = @ \ {t}]
    IN  act' = [act EXCEPT ![a] = IF rest.job = "enable" THEN Idle
                                  ELSE [rest EXCEPT !.pc = "apply", !.task = NONE, !.cfg = NONE]]

\* The task as the manager has it now, whatever this reload installed.
get_task(a, t) ==
    /\ Starts(a, t) /\ t \in DOMAIN installed.tasks
    /\ act' = [act EXCEPT ![a].pc = "start", ![a].task = t, ![a].cfg = installed.tasks[t]]
    /\ UNCHANGED <<file, service, configLock, history>>

TaskIsGone(a, t) ==
    /\ Starts(a, t) /\ t \notin DOMAIN installed.tasks
    /\ StartEnds(a, t, FALSE)
    /\ UNCHANGED <<file, service, configLock, history>>

\* The folder is not there: the rest of the listener's work is not done either.
FolderIsMissing(a, t) ==
    /\ Starts(a, t) /\ t \in DOMAIN installed.tasks
    /\ StartEnds(a, t, TRUE)
    /\ synced' = FALSE /\ lagging' = lagging \cup act[a].change
    /\ UNCHANGED <<file, service, configLock, expected, unsettled, overlapped>>

\* start_task under the lock: what runs is stopped, then watcher and scanner start.
Start(a) ==
    /\ act[a].pc = "start"
    /\ running' = Override(running, [t \in {act[a].task} |-> act[a].cfg])
    /\ StartEnds(a, act[a].task, FALSE)
    /\ lagging' = lagging \ {act[a].task}
    /\ UNCHANGED <<file, installed, configLock, expected, unsettled, overlapped, synced>>

\* The observer cannot watch the folder; what had started is cleaned up.
StartFails(a) ==
    /\ act[a].pc = "start"
    /\ running' = Restrict(running, DOMAIN running \ {act[a].task})
    /\ StartEnds(a, act[a].task, TRUE)
    /\ synced' = FALSE /\ lagging' = lagging \cup act[a].change
    /\ UNCHANGED <<file, installed, configLock, expected, unsettled, overlapped>>

\* The listener is done, or its exception was logged: the reload is a success.
Finish(a) ==
    /\ act[a].pc = "apply"
    /\ act[a].stop = {} /\ act[a].change = {} /\ act[a].start = {}
    /\ Answer(a)
    /\ expected' = IF act[a].job # "save" THEN expected
                   ELSE IF expected = NONE THEN file ELSE Change(expected, act[a].op)
    /\ UNCHANGED <<file, service, unsettled, overlapped, synced, lagging>>
-----------------------------------------------------------------------------
\* enable: start_task, by a request that no lock keeps from a reload.
Enable(a, t) ==
    /\ Up /\ act[a].pc = "idle" /\ t \in DOMAIN installed.tasks
    /\ act' = [act EXCEPT ![a] = [Idle EXCEPT !.pc = "get", !.job = "enable", !.task = t]]
    /\ overlapped' = (overlapped \/ ~Alone(a)) /\ synced' = FALSE
    /\ UNCHANGED <<file, service, configLock, expected, unsettled, lagging>>

\* disable: stop_task; the file still says enabled.
Disable(a, t) ==
    /\ Up /\ act[a].pc = "idle" /\ t \in DOMAIN installed.tasks
    /\ Stops(t)
    /\ synced' = FALSE
    /\ UNCHANGED <<file, installed, configLock, act, expected, unsettled, overlapped>>

Step(a) ==
    \/ _write_config_yaml(a) \/ WriteFails(a) \/ Undo(a) \/ UndoFails(a)
    \/ Read(a) \/ ReadFails(a) \/ Swap(a) \/ Listen(a)
    \/ \E t \in Task : \/ ApplyStop(a, t) \/ ApplyChange(a, t)
                       \/ get_task(a, t) \/ TaskIsGone(a, t) \/ FolderIsMissing(a, t)
    \/ Start(a) \/ StartFails(a) \/ Finish(a)

Next ==
    \/ HandEdit \/ Bootstrap \/ Crash
    \/ \E a \in Request : \/ Submit(a) \/ Reload(a) \/ Step(a)
                          \/ \E t \in Task : Enable(a, t) \/ Disable(a, t)

Spec == Init /\ [][Next]_vars
-----------------------------------------------------------------------------
\* Every state is well-formed; the lock has at most one holder, which is saving.
TypeOK ==
    /\ DOMAIN file.tasks \subseteq Task
    /\ Up => DOMAIN installed.tasks \subseteq Task
    /\ configLock \in Request \cup {NONE}
    /\ DOMAIN running \subseteq Task /\ \A t \in DOMAIN running : DOMAIN running[t] = Fields
    /\ \A a \in Request :
          /\ act[a].pc \in {"idle", "write", "read", "undo", "swap", "listen", "apply", "get", "start"}
          /\ act[a].job \in {"save", "undo"} <=> configLock = a
    /\ {unsettled, overlapped, synced} \subseteq BOOLEAN /\ lagging \subseteq Task

\* The file holds every change that was answered with success, in the order of the
\* answers, and no other: no CRUD request overwrites another's change, and one that failed
\* leaves none behind.  Two changes stay without success, and then as a whole: one whose
\* rollback could not write the old file (config_api.py:243-247, answered 500), and one
\* that a crash cut off after its write.  While `expected` is NONE, after an edit by hand
\* with a change in flight, nothing is claimed.
AcknowledgedChangesStay == configLock = NONE /\ expected # NONE => file = expected

\* Between requests the service runs by the file, whatever reloads failed and were
\* rolled back, unless the file was edited and not read since, or two reloads raced.
InstalledIsFile == Up /\ Quiet /\ ~unsettled /\ ~overlapped => installed = AppConfig(file)

\* After a reload that ran alone, the tasks with watchers are exactly the enabled
\* ones, whatever failed or was switched before; and unless reloads raced, each
\* watcher runs by the settings that are installed, save those that a missing folder
\* kept the listener from.
WatchersFollow ==
    Up /\ Quiet =>
        /\ synced => DOMAIN running = Enabled(installed)
        /\ ~overlapped => \A t \in DOMAIN running \ lagging :
                             running[t] = installed.tasks[t]

\* What an update is about to write differs, in effect, from what it has read only in
\* the settings that were submitted.
UnsubmittedKept ==
    \A a \in Request : act[a].pc = "write" /\ act[a].op.kind = "update" =>
        \A f \in Fields \ DOMAIN act[a].op.form :
            AppConfig(act[a].new).tasks[act[a].op.task][f]
                = AppConfig(act[a].old).tasks[act[a].op.task][f]
=============================================================================
