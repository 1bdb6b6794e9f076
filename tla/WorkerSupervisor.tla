-------------------------- MODULE WorkerSupervisor --------------------------
(***************************************************************************)
(* The life of the worker threads of infrastructure/worker_pool.py: the    *)
(* loop of _work(), _supervise() with its limit on restarts, and stop().   *)
(* What a worker does with a ref is the subject of WorkerPool.             *)
(*                                                                         *)
(* The stop event is read by a worker before each get and by the           *)
(* supervisor before each pass, and by nobody in between: a worker may     *)
(* take one more ref, and a pass may start one more thread, after the      *)
(* event was set.                                                          *)
(***************************************************************************)
EXTENDS Naturals, TLAPS

CONSTANTS Worker,     \* the slots of _workers
          RestartMax  \* _RESTART_MAX

ASSUME SupervisorAssumption == RestartMax \in Nat

VARIABLES thread,    \* thread[w]: where the thread of slot w is in _work()
          pass,      \* where the supervisor is in _supervise()
          todo,      \* the slots its pass has still to look at
          restarts,  \* restarts[w]: the entries of _restart_times in the window
          disabled,  \* _disabled_workers
          stop,      \* where stop() is
          gaveUp     \* did a join of stop() time out?

vars == <<thread, pass, todo, restarts, disabled, stop, gaveUp>>

StopIsSet == stop # "uncalled"

Init ==
    /\ thread   = [w \in Worker |-> "top"]
    /\ pass     = "top"
    /\ todo     = {}
    /\ restarts = [w \in Worker |-> 0]
    /\ disabled = {}
    /\ stop     = "uncalled"
    /\ gaveUp   = FALSE
-----------------------------------------------------------------------------
\* while not self._stop.is_set()
WorkTop(w) ==
    /\ thread[w] = "top"
    /\ thread' = [thread EXCEPT ![w] = IF StopIsSet THEN "dead" ELSE "get"]
    /\ UNCHANGED <<pass, todo, restarts, disabled, stop, gaveUp>>

\* get() answers a ref, or Empty after a second.
Get(w) ==
    /\ thread[w] = "get"
    /\ \E place \in {"handle", "top"} : thread' = [thread EXCEPT ![w] = place]
    /\ UNCHANGED <<pass, todo, restarts, disabled, stop, gaveUp>>

\* The ref is done; what is not an Exception ends the thread.
Finish(w) ==
    /\ thread[w] = "handle"
    /\ \E place \in {"top", "dead"} : thread' = [thread EXCEPT ![w] = place]
    /\ UNCHANGED <<pass, todo, restarts, disabled, stop, gaveUp>>
-----------------------------------------------------------------------------
PassTopForever == \* mutant: while True
    /\ pass = "top"
    /\ pass' = "scan" /\ todo' = Worker
    /\ UNCHANGED <<thread, restarts, disabled, stop, gaveUp>>

\* The loop of _supervise(): while not self._stop.is_set().
PassTop ==
    /\ pass = "top"
    /\ IF StopIsSet THEN pass' = "exited" /\ UNCHANGED todo
                    ELSE pass' = "scan" /\ todo' = Worker
    /\ UNCHANGED <<thread, restarts, disabled, stop, gaveUp>>

PassEndOnce == \* mutant: a single pass
    /\ pass = "scan" /\ todo = {}
    /\ pass' = "exited"
    /\ UNCHANGED <<thread, todo, restarts, disabled, stop, gaveUp>>

\* The pass has looked at every slot; the supervisor waits for the next one.
PassEnd ==
    /\ pass = "scan" /\ todo = {}
    /\ pass' = "top"
    /\ UNCHANGED <<thread, todo, restarts, disabled, stop, gaveUp>>

LooksAt(w) == pass = "scan" /\ w \in todo /\ todo' = todo \ {w}

Healthy(w) ==
    /\ LooksAt(w)
    /\ w \in disabled \/ thread[w] # "dead"
    /\ UNCHANGED <<thread, pass, restarts, disabled, stop, gaveUp>>

Disable(w) ==
    /\ LooksAt(w)
    /\ w \notin disabled /\ thread[w] = "dead" /\ restarts[w] >= RestartMax
    /\ disabled' = disabled \cup {w}
    /\ UNCHANGED <<thread, pass, restarts, stop, gaveUp>>

RestartUnlimited(w) == \* mutant: the limit dropped
    /\ LooksAt(w)
    /\ w \notin disabled /\ thread[w] = "dead"
    /\ restarts' = [restarts EXCEPT ![w] = @ + 1]
    /\ thread' = [thread EXCEPT ![w] = "top"]
    /\ UNCHANGED <<pass, disabled, stop, gaveUp>>

Restart(w) ==
    /\ LooksAt(w)
    /\ w \notin disabled /\ thread[w] = "dead" /\ restarts[w] < RestartMax
    /\ restarts' = [restarts EXCEPT ![w] = @ + 1]
    /\ thread' = [thread EXCEPT ![w] = "top"]
    /\ UNCHANGED <<pass, disabled, stop, gaveUp>>

\* A restart is _RESTART_WINDOW seconds old.
WindowSlides(w) ==
    /\ restarts[w] > 0
    /\ restarts' = [restarts EXCEPT ![w] = @ - 1]
    /\ UNCHANGED <<thread, pass, todo, disabled, stop, gaveUp>>
-----------------------------------------------------------------------------
\* stop(): set the event, join the supervisor, then the workers.  A join that
\* times out is not repeated.
StopCall ==
    /\ stop = "uncalled"
    /\ stop' = "join_supervisor"
    /\ UNCHANGED <<thread, pass, todo, restarts, disabled, gaveUp>>

JoinSupervisorSkipped == \* mutant: only the workers are joined
    /\ stop = "join_supervisor"
    /\ stop' = "join_workers"
    /\ gaveUp' = FALSE
    /\ UNCHANGED <<thread, pass, todo, restarts, disabled>>

JoinSupervisor ==
    /\ stop = "join_supervisor"
    /\ stop' = "join_workers"
    /\ gaveUp' = (pass # "exited")
    /\ UNCHANGED <<thread, pass, todo, restarts, disabled>>

JoinWorkers ==
    /\ stop = "join_workers"
    /\ stop' = "returned"
    /\ gaveUp' = (gaveUp \/ \E w \in Worker : thread[w] # "dead")
    /\ UNCHANGED <<thread, pass, todo, restarts, disabled>>
-----------------------------------------------------------------------------
WorkStep(w) == WorkTop(w) \/ Get(w) \/ Finish(w)

SuperviseStep ==
    \/ PassTop \/ PassEnd
    \/ \E w \in Worker : Healthy(w) \/ Disable(w) \/ Restart(w)

StopStep == JoinSupervisor \/ JoinWorkers

Next ==
    \/ \E w \in Worker : WorkStep(w) \/ WindowSlides(w)
    \/ SuperviseStep
    \/ StopCall \/ StopStep

Spec == Init /\ [][Next]_vars

\* Threads are scheduled and process_fn returns.
FairSpec ==
    /\ Spec
    /\ \A w \in Worker : WF_vars(WorkStep(w))
    /\ WF_vars(SuperviseStep)
    /\ WF_vars(StopStep)
-----------------------------------------------------------------------------
TypeOK ==
    /\ thread   \in [Worker -> {"top", "get", "handle", "dead"}]
    /\ pass     \in {"top", "scan", "exited"}
    /\ todo     \subseteq Worker
    /\ restarts \in [Worker -> 0..RestartMax]
    /\ disabled \subseteq Worker
    /\ stop     \in {"uncalled", "join_supervisor", "join_workers", "returned"}
    /\ gaveUp   \in BOOLEAN

\* When stop() returns and no join timed out, no worker thread runs, and none
\* is started later: main.py releases the connection pool next.
StoppedMeansQuiet ==
    stop = "returned" /\ ~gaveUp => \A w \in Worker : thread[w] = "dead"

\* A worker thread that dies is replaced or, after too many restarts in the
\* window, given up; the pool does not lose a worker unnoticed.
DeadWorkerIsSeen ==
    \A w \in Worker :
        thread[w] = "dead" ~> thread[w] # "dead" \/ w \in disabled \/ StopIsSet

\* After stop() every thread of the pool ends, the ones a last pass of the
\* supervisor starts included.
StopEndsThreads ==
    StopIsSet ~> [](pass = "exited" /\ \A w \in Worker : thread[w] = "dead")
-----------------------------------------------------------------------------
(***************************************************************************)
(* Proofs about the shutdown, for any number of workers and any limit on   *)
(* restarts.                                                               *)
(***************************************************************************)
USE SupervisorAssumption

(***************************************************************************)
(* StoppedMeansQuiet is not inductive: it needs that the supervisor, once  *)
(* joined in time, has left its loop, and that it leaves it only after the *)
(* event was set.  From then on nothing starts a thread.                   *)
(***************************************************************************)
JoinedMeansExited ==
    stop \in {"join_workers", "returned"} /\ ~gaveUp => pass = "exited"

IInv == TypeOK /\ JoinedMeansExited /\ StoppedMeansQuiet

\* Every action leaves the counters, labels and sets in their types.
LEMMA TypeStep == TypeOK /\ [Next]_vars => TypeOK'
<1> SUFFICES ASSUME TypeOK, [Next]_vars PROVE TypeOK'
  OBVIOUS
<1> USE DEF TypeOK
<1>1. ASSUME NEW w \in Worker, WorkTop(w) \/ Get(w) \/ Finish(w)
      PROVE  TypeOK'
  BY <1>1 DEF WorkTop, Get, Finish
<1>2. ASSUME NEW w \in Worker, WindowSlides(w)
      PROVE  TypeOK'
  BY <1>2 DEF WindowSlides
<1>3. CASE PassTop \/ PassEnd
  BY <1>3 DEF PassTop, PassEnd
<1>4. ASSUME NEW w \in Worker, Healthy(w) \/ Disable(w)
      PROVE  TypeOK'
  BY <1>4 DEF Healthy, Disable, LooksAt
<1>5. ASSUME NEW w \in Worker, Restart(w)
      PROVE  TypeOK'
  BY <1>5 DEF Restart, LooksAt
<1>6. CASE StopCall \/ JoinSupervisor
  BY <1>6 DEF StopCall, JoinSupervisor
<1>7. CASE JoinWorkers
  BY <1>7 DEF JoinWorkers
<1>8. CASE UNCHANGED vars
  BY <1>8 DEF vars
<1>9. QED
  BY <1>1, <1>2, <1>3, <1>4, <1>5, <1>6, <1>7, <1>8
     DEF Next, WorkStep, SuperviseStep, StopStep

\* A supervisor that has left its loop neither looks at a slot nor returns.
LEMMA JoinStep == TypeOK /\ JoinedMeansExited /\ [Next]_vars => JoinedMeansExited'
<1> SUFFICES ASSUME TypeOK, JoinedMeansExited, [Next]_vars PROVE JoinedMeansExited'
  OBVIOUS
<1> USE DEF JoinedMeansExited
<1>1. CASE \/ \E w \in Worker : WorkStep(w) \/ WindowSlides(w) \/ Healthy(w)
                                  \/ Disable(w) \/ Restart(w)
           \/ UNCHANGED vars
  BY <1>1 DEF WorkStep, WorkTop, Get, Finish, WindowSlides, Healthy, Disable, Restart,
              LooksAt, vars
<1>2. CASE PassTop \/ PassEnd
  BY <1>2 DEF PassTop, PassEnd
<1>3. CASE StopCall \/ JoinSupervisor
  BY <1>3 DEF StopCall, JoinSupervisor
<1>4. CASE JoinWorkers
  BY <1>4 DEF JoinWorkers, TypeOK
<1>5. QED
  BY <1>1, <1>2, <1>3, <1>4 DEF Next, SuperviseStep, StopStep

\* After an undisturbed stop() a dead thread stays dead: only Restart starts
\* one, and it runs in a pass.
LEMMA QuietStep == IInv /\ [Next]_vars => StoppedMeansQuiet'
<1> SUFFICES ASSUME IInv, [Next]_vars, stop' = "returned", ~gaveUp', NEW w \in Worker
             PROVE  thread'[w] = "dead"
  BY DEF StoppedMeansQuiet
<1>1. CASE JoinWorkers
  BY <1>1 DEF JoinWorkers, IInv, TypeOK
<1>2. CASE ~JoinWorkers
  <2>1. stop = "returned" /\ gaveUp' = gaveUp
    BY <1>2 DEF Next, WorkStep, WorkTop, Get, Finish, WindowSlides, SuperviseStep, PassTop,
         PassEnd, Healthy, Disable, Restart, StopCall, StopStep, JoinSupervisor, vars
  <2>2. pass = "exited" /\ \A v \in Worker : thread[v] = "dead"
    BY <2>1 DEF IInv, JoinedMeansExited, StoppedMeansQuiet
  <2>3. thread' = thread
    BY <1>2, <2>1, <2>2 DEF Next, WorkStep, WorkTop, Get, Finish, WindowSlides, SuperviseStep,
         PassTop, PassEnd, Healthy, Disable, Restart, LooksAt, StopCall, StopStep,
         JoinSupervisor, vars
  <2>4. QED
    BY <2>2, <2>3
<1>3. QED
  BY <1>1, <1>2

\* IInv holds initially and is preserved by every step.
THEOREM Inductive == Spec => []IInv
<1>1. Init => IInv
  <2>1. ASSUME Init PROVE TypeOK
    <3>1. restarts \in [Worker -> 0..RestartMax]
      BY <2>1 DEF Init
    <3>2. gaveUp \in BOOLEAN
      BY <2>1 DEF Init
    <3>3. QED
      BY <2>1, <3>1, <3>2 DEF Init, TypeOK
  <2>2. Init => JoinedMeansExited /\ StoppedMeansQuiet
    BY DEF Init, JoinedMeansExited, StoppedMeansQuiet
  <2>3. QED
    BY <2>1, <2>2 DEF IInv
<1>2. IInv /\ [Next]_vars => IInv'
  BY TypeStep, JoinStep, QuietStep DEF IInv
<1>3. QED
  BY <1>1, <1>2, PTL DEF Spec

\* The restarts counted in the window never exceed _RESTART_MAX, and every
\* thread, pass and join is at one of its labels.
THEOREM TypeCorrect == Spec => []TypeOK
<1>1. IInv => TypeOK
  BY DEF IInv
<1>2. QED
  BY <1>1, Inductive, PTL

\* stop() that returns without a timeout leaves no worker thread, for good.
THEOREM StopIsQuiet == Spec => []StoppedMeansQuiet
<1>1. IInv => StoppedMeansQuiet
  BY DEF IInv
<1>2. QED
  BY <1>1, Inductive, PTL
=============================================================================
