----------------------------- MODULE WorkerPool -----------------------------
(***************************************************************************)
(* infrastructure/worker_pool.py: the bounded priority queue, the per-task *)
(* circuit breakers, the backlog counters and the worker threads.          *)
(*                                                                         *)
(* submit() runs in the threads that detect files (debounce timers,        *)
(* pollers, web requests): a submitter is such a thread.  submit() takes   *)
(* four locks one after the other and holds none in between, so it is cut  *)
(* into the steps Submit, Allow, Put and Count.  process_fn is abstracted  *)
(* to the breaker calls it makes (HandlerVerdicts); FileProcessor is its   *)
(* detailed model.  When and how often a dead worker is replaced, and how  *)
(* the pool stops, is the subject of WorkerSupervisor: here a dead worker  *)
(* may stay dead or come back at any time.                                 *)
(*                                                                         *)
(* No HA elector is ever configured (main.py passes none), so is_active is *)
(* always true and REJECTED_HA_STANDBY does not occur.                     *)
(***************************************************************************)
EXTENDS CircuitBreaker, HandlerVerdicts, Sequences, FiniteSets

CONSTANTS Task, Submitter, Worker,
          NoTask,       \* the task of a thread that has none
          Priority,     \* Priority[t]: lower numbers leave the queue first
          QueueMax,     \* queue_maxsize
          CountsCap     \* counts is counted up to this bound

ASSUME PoolAssumption ==
    /\ NoTask \notin Task
    /\ Priority \in [Task -> Nat]
    /\ QueueMax \in Nat \ {0}
    /\ IsFiniteSet(Worker) /\ IsFiniteSet(Submitter) /\ CountsCap \in Nat
    /\ CountsCap >= QueueMax + Cardinality(Worker)

VARIABLES queue,     \* queue[p]: the task of the ref in place p of the queue, or NoTask
          counts,    \* _task_queue_counts
          paused,    \* _paused
          breaker,   \* _breakers
          sub,       \* sub[s]: where submitter s is in submit(), and its task
          work,      \* work[w]: where worker w is in _work(), and its task
          owed       \* owed[w]: the breaker calls process_fn has still to make

vars == <<queue, counts, paused, breaker, sub, work, owed>>

At(place, t) == [at |-> place, task |-> t]
Idle == At("idle", NoTask)

Place == 1..QueueMax

Queued(t) == {p \in Place : queue[p] = t}
-----------------------------------------------------------------------------
Init ==
    /\ queue    = [p \in Place |-> NoTask]
    /\ counts   = [t \in Task |-> 0]
    /\ paused   = {}
    /\ breaker  = [t \in Task |-> NewBreaker]
    /\ sub      = [s \in Submitter |-> Idle]
    /\ work     = [w \in Worker |-> Idle]
    /\ owed     = [w \in Worker |-> <<>>]
-----------------------------------------------------------------------------
(***************************************************************************)
(* submit().                                                               *)
(***************************************************************************)
\* A paused task is rejected at once.
Submit(s, t) ==
    /\ sub[s] = Idle
    /\ t \notin paused
    /\ sub' = [sub EXCEPT ![s] = At("allow", t)]
    /\ UNCHANGED <<queue, counts, paused, breaker, work, owed>>

Allow(s) ==
    LET t == sub[s].task IN
    /\ sub[s].at = "allow"
    /\ breaker' = [breaker EXCEPT ![t] = AllowNext(@)]
    /\ sub' = [sub EXCEPT ![s] = IF AllowResult(breaker[t]) THEN At("put", t) ELSE Idle]
    /\ UNCHANGED <<queue, counts, paused, work, owed>>

\* put_nowait: a full queue answers QUEUE_FULL; what allow() did stays done.
Put(s) ==
    /\ sub[s].at = "put"
    /\ \/ /\ \E p \in Queued(NoTask) : queue' = [queue EXCEPT ![p] = sub[s].task]
          /\ sub' = [sub EXCEPT ![s].at = "count"]
       \/ /\ Queued(NoTask) = {}
          /\ sub' = [sub EXCEPT ![s] = Idle]
          /\ UNCHANGED queue
    /\ UNCHANGED <<counts, paused, breaker, work, owed>>

CountAssigns(s) == \* mutant: the queue's size for the counter
    /\ sub[s].at = "count"
    /\ counts' = [counts EXCEPT ![sub[s].task] = Cardinality(Queued(sub[s].task))]
    /\ sub' = [sub EXCEPT ![s] = Idle]
    /\ UNCHANGED <<queue, paused, breaker, work, owed>>

Count(s) ==
    /\ sub[s].at = "count"
    /\ counts' = [counts EXCEPT ![sub[s].task] = IF @ < CountsCap THEN @ + 1 ELSE @]
    /\ sub' = [sub EXCEPT ![s] = Idle]
    /\ UNCHANGED <<queue, paused, breaker, work, owed>>

PauseTask(t) ==
    /\ t \notin paused
    /\ paused' = paused \cup {t}
    /\ UNCHANGED <<queue, counts, breaker, sub, work, owed>>

ResumeTask(t) ==
    /\ t \in paused
    /\ paused' = paused \ {t}
    /\ UNCHANGED <<queue, counts, breaker, sub, work, owed>>
-----------------------------------------------------------------------------
(***************************************************************************)
(* _work().                                                                *)
(***************************************************************************)
\* The ref with the smallest priority (WorkerTask.__lt__); among equals, any.
Get(w) ==
    /\ work[w] = Idle
    /\ \E p \in Place \ Queued(NoTask) :
         /\ \A q \in Place \ Queued(NoTask) : Priority[queue[p]] <= Priority[queue[q]]
         /\ queue' = [queue EXCEPT ![p] = NoTask]
         /\ work' = [work EXCEPT ![w] = At("process", queue[p])]
    /\ UNCHANGED <<counts, paused, breaker, sub, owed>>

\* process_fn handles the ref; its breaker calls follow one by one.
Process(w) ==
    /\ work[w].at = "process"
    /\ \E verdict \in Verdicts : owed' = [owed EXCEPT ![w] = verdict]
    /\ work' = [work EXCEPT ![w].at = "record"]
    /\ UNCHANGED <<queue, counts, paused, breaker, sub>>

Record(w) ==
    LET t == work[w].task IN
    /\ work[w].at = "record" /\ owed[w] # <<>>
    /\ breaker' = [breaker EXCEPT ![t] = IF Head(owed[w]) = "success"
                                         THEN RecordSuccess(@) ELSE RecordFailure(@)]
    /\ owed' = [owed EXCEPT ![w] = Tail(@)]
    /\ UNCHANGED <<queue, counts, paused, sub, work>>

\* The finally clause.  What is neither SkipFileError nor Exception passes
\* through it and ends the thread.
FinallyUnguarded(w) == \* mutant: the test for > 0 dropped
    /\ work[w].at = "record" /\ owed[w] = <<>>
    /\ counts' = [counts EXCEPT ![work[w].task] = @ - 1]
    /\ \E place \in {"idle", "dead"} : work' = [work EXCEPT ![w] = At(place, NoTask)]
    /\ UNCHANGED <<queue, paused, breaker, sub, owed>>

Finally(w) ==
    /\ work[w].at = "record" /\ owed[w] = <<>>
    /\ counts' = [counts EXCEPT ![work[w].task] = IF @ > 0 THEN @ - 1 ELSE @]
    /\ \E place \in {"idle", "dead"} : work' = [work EXCEPT ![w] = At(place, NoTask)]
    /\ UNCHANGED <<queue, paused, breaker, sub, owed>>

\* The supervisor replaces a dead worker.
Restart(w) ==
    /\ work[w].at = "dead"
    /\ work' = [work EXCEPT ![w] = Idle]
    /\ UNCHANGED <<queue, counts, paused, breaker, sub, owed>>

\* recovery_timeout passes for the breaker of task t.
Elapse(t) ==
    /\ \/ /\ breaker[t].state = "OPEN" /\ ~breaker[t].cooled
          /\ breaker' = [breaker EXCEPT ![t] = Cool(@)]
       \/ /\ breaker[t].state = "HALF_OPEN" /\ ~breaker[t].stale
          /\ breaker' = [breaker EXCEPT ![t] = GoStale(@)]
    /\ UNCHANGED <<queue, counts, paused, sub, work, owed>>
-----------------------------------------------------------------------------
SubmitStep(s) == Allow(s) \/ Put(s) \/ Count(s)

WorkStep(w) == Get(w) \/ Process(w) \/ Record(w) \/ Finally(w)

Next ==
    \/ \E s \in Submitter, t \in Task : Submit(s, t)
    \/ \E s \in Submitter : SubmitStep(s)
    \/ \E t \in Task : PauseTask(t) \/ ResumeTask(t) \/ Elapse(t)
    \/ \E w \in Worker : WorkStep(w) \/ Restart(w)

Spec == Init /\ [][Next]_vars

(***************************************************************************)
(* Threads are scheduled, time passes, and files of every task keep being  *)
(* detected.  Nothing is assumed of operators and of dead workers.         *)
(***************************************************************************)
FairSpec ==
    /\ Spec
    /\ \A s \in Submitter : WF_vars(SubmitStep(s))
    /\ \A s \in Submitter, t \in Task : SF_vars(Submit(s, t))
    /\ \A w \in Worker : WF_vars(WorkStep(w))
    /\ \A t \in Task : WF_vars(Elapse(t))
-----------------------------------------------------------------------------
TypeOK ==
    /\ queue    \in [Place -> Task \cup {NoTask}]
    /\ counts   \in [Task -> 0..CountsCap]
    /\ paused   \subseteq Task
    /\ breaker  \in [Task -> Breaker]
    /\ sub      \in [Submitter -> {Idle} \cup [at : {"allow", "put", "count"}, task : Task]]
    /\ work     \in [Worker -> {Idle, At("dead", NoTask)}
                                  \cup [at : {"process", "record"}, task : Task]]
    /\ owed     \in [Worker -> Seq({"success", "failure"})]

Handling(t) == {w \in Worker : work[w].task = t}
Uncounted(t) == {s \in Submitter : sub[s] = At("count", t)}

\* queue_backlog never understates: apart from submits that have not counted
\* yet, it covers every ref of the task that is queued or being handled.
BacklogCovers ==
    \A t \in Task :
        counts[t] + Cardinality(Uncounted(t)) >= Cardinality(Queued(t)) + Cardinality(Handling(t))

\* HALF_OPEN lets one probe through: another submit is admitted only when the
\* probe in progress has been out for more than recovery_timeout.
ProbeIsAlone ==
    [][\A s \in Submitter :
          /\ sub[s].at = "allow" /\ sub'[s].at = "put"
          /\ breaker[sub[s].task].state = "HALF_OPEN"
          => breaker[sub[s].task].stale]_vars

\* A breaker that has opened lets a submit through again, whatever happened to
\* the probe (queue full, skipped or retried file, dead worker), unless the
\* task is paused.
BreakerRecovers ==
    \A t \in Task :
        breaker[t].state # "CLOSED"
            ~> \/ breaker[t].state = "CLOSED" \/ t \in paused
               \/ \E s \in Submitter : sub[s] = At("put", t)
=============================================================================
