---------------------------- MODULE TaskSettings ----------------------------
(***************************************************************************)
(* The settings in config.yaml.  A document has global settings and, per   *)
(* task_id, the settings of a task; a setting may be left out.  The code   *)
(* states what is legal in core/config_validator.py, what a missing        *)
(* setting means in core/config.py, and once more, for tasks that come     *)
(* from the web form, in web/api/config_api.py.  Free text (folders, module *)
(* names, formats) is legal whatever it is and left out.                   *)
(***************************************************************************)
EXTENDS Integers, Functions

CONSTANTS Fields,        \* the settings of a task that an instance keeps
          GlobalFields   \* the global settings that an instance keeps

\* Seconds of fractional settings are tenths; a list or a text with a rule is its
\* length; a name with a pattern is "identifier" when it matches.
TaskLegal ==
    [ enabled |-> BOOLEAN, priority |-> 1..10, file_extensions |-> Nat \ {0},
      recursive |-> BOOLEAN, debounce_seconds |-> 5..600,
      stability_check_interval |-> 5..100, stability_check_count |-> 1..10,
      extractor |-> {"csv", "json", "excel"}, batch_size |-> 1..100000,
      sandbox_timeout |-> 5..300, base_table |-> {"identifier"},
      retention_months |-> Nat, archive_old_tables |-> BOOLEAN, max_retries |-> 0..10,
      archive_mode |-> {"keep", "move", "delete"}, compress_after_days |-> Nat,
      cleanup_after_days |-> Nat, poll_interval |-> 0..86400, poll_incremental |-> BOOLEAN ]

TaskRequired == {"file_extensions", "extractor", "base_table"}

GlobalLegal ==
    [ log_level |-> {"DEBUG", "INFO", "WARNING", "ERROR", "CRITICAL"},
      port |-> 1..65535, pool_size |-> 1..100, pool_timeout |-> 1..300,
      pool_recycle |-> 300..86400, connect_timeout |-> 1..120, slaves |-> Nat,
      worker_threads |-> 1..32, queue_maxsize |-> 10..10000, task_timeout |-> 10..3600,
      ha_enabled |-> BOOLEAN, heartbeat_interval |-> 3..120, failover_timeout |-> 10..300,
      web_port |-> 1..65535, secret_key |-> Nat \ 0..15, token_expire_hours |-> 1..168,
      server |-> {"waitress", "development"}, threads |-> 1..32, prometheus_port |-> 1..65535,
      channels |-> SUBSET {"webhook", "wecom"}, failed_files_threshold |-> Nat \ {0},
      quality_score_min |-> 0..100, queue_size_max |-> Nat \ 0..9 ]

GlobalRequired == {"secret_key"}

Legal(settings, legal, required) ==
    /\ required \subseteq DOMAIN settings
    /\ \A f \in DOMAIN settings : settings[f] \in legal[f]

\* A document has a task; task_ids are unique because they index the tasks.
validate_config(doc) ==
    /\ Legal(doc.globals, GlobalLegal, GlobalRequired \cap GlobalFields)
    /\ DOMAIN doc.tasks # {}
    /\ \A t \in DOMAIN doc.tasks : Legal(doc.tasks[t], TaskLegal, TaskRequired \cap Fields)
    /\ ("ha_enabled" \in DOMAIN doc.globals /\ doc.globals["ha_enabled"]) =>
           "slaves" \in DOMAIN doc.globals /\ doc.globals["slaves"] > 0
-----------------------------------------------------------------------------
TaskDefault ==
    [ enabled |-> TRUE, priority |-> 5, file_extensions |-> 0, recursive |-> FALSE,
      debounce_seconds |-> 30, stability_check_interval |-> 10, stability_check_count |-> 3,
      extractor |-> "csv", batch_size |-> 1000, sandbox_timeout |-> 30,
      base_table |-> "", retention_months |-> 0, archive_old_tables |-> TRUE,
      max_retries |-> 3, archive_mode |-> "move", compress_after_days |-> 7,
      cleanup_after_days |-> 90, poll_interval |-> 0, poll_incremental |-> TRUE ]

GlobalDefault ==
    [ log_level |-> "INFO", port |-> 3306, pool_size |-> 5, pool_timeout |-> 30,
      pool_recycle |-> 3600, connect_timeout |-> 10, slaves |-> 0, worker_threads |-> 4,
      queue_maxsize |-> 500, task_timeout |-> 300, ha_enabled |-> FALSE,
      heartbeat_interval |-> 10, failover_timeout |-> 30, web_port |-> 8080, secret_key |-> 0,
      token_expire_hours |-> 8, server |-> "waitress", threads |-> 4,
      prometheus_port |-> 9090, channels |-> {}, failed_files_threshold |-> 10,
      quality_score_min |-> 80, queue_size_max |-> 400 ]

Complete(settings, fields, default) ==
    [f \in fields |-> IF f \in DOMAIN settings THEN settings[f] ELSE default[f]]

\* TaskConfig and AppConfig: frozen, and complete.
TaskConfig(settings) == Complete(settings, Fields, TaskDefault)

AppConfig(doc) ==
    [ globals |-> Complete(doc.globals, GlobalFields, GlobalDefault),
      tasks |-> [t \in DOMAIN doc.tasks |-> TaskConfig(doc.tasks[t])] ]
-----------------------------------------------------------------------------
\* What the web form means by a setting it does not submit.
FormDefault ==
    [ enabled |-> TRUE, priority |-> 1, file_extensions |-> 1, recursive |-> FALSE,
      debounce_seconds |-> 30, stability_check_interval |-> 10, stability_check_count |-> 3,
      extractor |-> "csv", batch_size |-> 1000, sandbox_timeout |-> 30,
      base_table |-> "identifier", retention_months |-> 12, archive_old_tables |-> TRUE,
      max_retries |-> 3, archive_mode |-> "keep", compress_after_days |-> 0,
      cleanup_after_days |-> 0, poll_interval |-> 60, poll_incremental |-> TRUE ]

TopLevel == {"enabled", "priority"}   \* settings of a task outside its sections

Override(base, updates) ==
    [f \in DOMAIN base \cup DOMAIN updates |->
        IF f \in DOMAIN updates THEN updates[f] ELSE base[f]]

_build_task_dict(form) == Complete(form, Fields, FormDefault)

_flatten_task_for_builder(task) == Override(Restrict(FormDefault, Fields \ TopLevel), task)

\* The sections of the result are those of a task rebuilt from the old one and the
\* form; what the request nests in sections itself is overwritten by them.
_merge_task_update(task, form) ==
    LET rebuilt == _build_task_dict(Override(_flatten_task_for_builder(task), form))
    IN  Override(Override(task, form), Restrict(rebuilt, Fields \ TopLevel))
=============================================================================
