---------------------------- MODULE EventHandler ----------------------------
(***************************************************************************)
(* watcher/event_handler.py for one path.  Every delivered event starts a  *)
(* chain of timers: the debounce timer and then one timer per stability    *)
(* check, each created by the thread of the one before.  All chains of the *)
(* path share the three entries of _pending: the timer, the last stat and  *)
(* the number of equal stats.                                              *)
(*                                                                         *)
(* at[c] is where chain c is: waiting for its timer ("armed"), or in       *)
(* _check_stability before the step of that name.  cancel() ends an armed  *)
(* chain and has no effect on one whose function already runs.  How long a *)
(* timer waits is left open: any armed timer may be the next to fire.      *)
(***************************************************************************)
EXTENDS WatchedFile, FiniteSets

CONSTANTS Chain,           \* bound of the chains that live at a time
          NULL,            \* no timer in _pending
          StabilityCount,  \* stability_check_count
          MaxEvents        \* bound of the events that wait for delivery

ASSUME EventHandlerAssumption ==
    /\ IsFiniteSet(Chain) /\ NULL \notin Chain
    /\ StabilityCount \in Nat \ {0} /\ MaxEvents \in Nat

VARIABLES events,   \* number of events watchdog has not delivered yet
          at,       \* at[c]: the next step of chain c
          got,      \* got[c]: the stat chain c has read
          pending,  \* _pending[path]: the chain whose timer it is
          prev,     \* _pending[path:prev], or Gone when there is none
          count,    \* _pending[path:count], or 0 when there is none
          told,     \* has an event been delivered for the present version?
          checks,   \* checks[v]: stats that saw version v, up to StabilityCount
          reported  \* the versions _emit was called for

history == <<told, checks, reported>>

vars == <<fileVars, events, at, got, pending, prev, count, history>>

Step == {"free", "armed", "stat", "cleanup", "count", "store", "pop", "emit"}

Init ==
    /\ FileInit /\ events = 0
    /\ at = [c \in Chain |-> "free"] /\ got = [c \in Chain |-> Gone]
    /\ pending = NULL /\ prev = Gone /\ count = 0
    /\ told = FALSE /\ checks = [v \in Version |-> 0] /\ reported = {}

Move(c, label) == at' = [at EXCEPT ![c] = label]

\* A chain that ends forgets its stat.
End(c) == Move(c, "free") /\ got' = [got EXCEPT ![c] = Gone]
-----------------------------------------------------------------------------
\* The chains that _schedule's cancel() ends.
Cancelled == {c \in Chain : c = pending /\ at[c] = "armed"}

\* on_created, on_modified, on_moved: _schedule arms a new timer.
ScheduleOnce == \* mutant: an event of a path that is already pending is dropped
    /\ events > 0 /\ events' = events - 1
    /\ told' = (mtime # Gone)
    /\ IF pending = NULL
       THEN \E c \in {d \in Chain : at[d] = "free"} : pending' = c /\ Move(c, "armed")
       ELSE UNCHANGED <<pending, at>>
    /\ UNCHANGED <<fileVars, got, prev, count, checks, reported>>

Schedule ==
    /\ events > 0 /\ events' = events - 1
    /\ told' = (mtime # Gone)
    /\ \E c \in {d \in Chain : at[d] = "free"} :
         /\ pending' = c
         /\ at' = [d \in Chain |-> IF d = c THEN "armed"
                                   ELSE IF d \in Cancelled THEN "free" ELSE at[d]]
    /\ got' = [d \in Chain |-> IF d \in Cancelled THEN Gone ELSE got[d]]
    /\ UNCHANGED <<fileVars, prev, count, checks, reported>>

Fire(c) ==
    /\ at[c] = "armed"
    /\ Move(c, "stat")
    /\ UNCHANGED <<fileVars, events, got, pending, prev, count, history>>

\* os.stat of the file; every OSError counts as a file that is gone.
Stat(c) ==
    /\ at[c] = "stat"
    /\ Move(c, IF mtime = Gone THEN "cleanup" ELSE "count")
    /\ got' = [got EXCEPT ![c] = mtime]
    /\ checks' = [v \in Version |-> IF v = mtime /\ checks[v] < StabilityCount
                                    THEN checks[v] + 1 ELSE checks[v]]
    /\ UNCHANGED <<fileVars, events, pending, prev, count, told, reported>>

\* The file has gone: drop the three entries.
CleanupTimer(c) == \* mutant: only the timer is dropped
    /\ at[c] = "cleanup"
    /\ End(c)
    /\ pending' = NULL
    /\ UNCHANGED <<fileVars, events, prev, count, history>>

Cleanup(c) ==
    /\ at[c] = "cleanup"
    /\ End(c)
    /\ pending' = NULL /\ prev' = Gone /\ count' = 0
    /\ UNCHANGED <<fileVars, events, history>>

\* Compare with the last stat and count.
CountKeeps(c) == \* mutant: the count goes on when the stat has changed
    /\ at[c] = "count"
    /\ prev' = got[c] /\ count' = count + 1
    /\ Move(c, IF count' >= StabilityCount THEN "pop" ELSE "store")
    /\ UNCHANGED <<fileVars, events, got, pending, history>>

Count(c) ==
    /\ at[c] = "count"
    /\ prev' = got[c]
    /\ count' = IF prev = got[c] THEN count + 1 ELSE 1
    /\ Move(c, IF count' >= StabilityCount THEN "pop" ELSE "store")
    /\ UNCHANGED <<fileVars, events, got, pending, history>>

\* Not stable yet: the next timer replaces whatever timer _pending holds.  One
\* cancelled between here and its start() never calls its function.
Store(c) ==
    /\ at[c] = "store"
    /\ pending' = c
    /\ Move(c, "armed")
    /\ UNCHANGED <<fileVars, events, got, prev, count, history>>

\* Stable: drop the three entries before the ref is built.
PopTimer(c) == \* mutant: only the timer is dropped
    /\ at[c] = "pop"
    /\ Move(c, "emit")
    /\ pending' = NULL
    /\ UNCHANGED <<fileVars, events, got, prev, count, history>>

Pop(c) ==
    /\ at[c] = "pop"
    /\ Move(c, "emit")
    /\ pending' = NULL /\ prev' = Gone /\ count' = 0
    /\ UNCHANGED <<fileVars, events, got, history>>

\* FileRef.from_stat reads the file and raises when it has gone or is locked, and
\* on_file_ready submits the ref and ignores the answer: either way the chain ends.
Emit(c) ==
    /\ at[c] = "emit"
    /\ End(c)
    /\ reported' = reported \cup {got[c]}
    /\ UNCHANGED <<fileVars, events, pending, prev, count, told, checks>>

Check(c) ==
    \/ Fire(c) \/ Stat(c) \/ Cleanup(c) \/ Count(c)
    \/ Store(c) \/ Pop(c) \/ Emit(c)

\* A change brings one event, two (created and modified) or, when the kernel's
\* queue overflows, on_moved is missing or the file was only out of reach, none; a
\* deletion brings none.
SomeEvents == {n \in events .. events + 2 : n <= MaxEvents}

\* A new version is one nobody has told the handler about.
FileStep ==
    /\ FileNext
    /\ events' \in IF mtime' \in {mtime, Gone} THEN {events} ELSE SomeEvents
    /\ told' = (told /\ mtime' = mtime)
    /\ UNCHANGED <<at, got, pending, prev, count, checks, reported>>

Next == FileStep \/ Schedule \/ \E c \in Chain : Check(c)

Spec == Init /\ [][Next]_vars

\* Timers fire and their threads run.  Nothing is assumed of the files and of
\* watchdog.
FairSpec == Spec /\ \A c \in Chain : WF_vars(Check(c))
-----------------------------------------------------------------------------
TypeOK ==
    /\ FileTypeOK /\ events \in 0 .. MaxEvents
    /\ at \in [Chain -> Step] /\ got \in [Chain -> Version \cup {Gone}]
    /\ pending \in Chain \cup {NULL} /\ prev \in Version \cup {Gone}
    /\ count \in 0 .. StabilityCount - 1 + Cardinality(Chain)
    /\ told \in BOOLEAN /\ reported \subseteq Version
    /\ checks \in [Version -> 0 .. StabilityCount]

\* No entry of _pending outlives the chains that use it (the memory leak that
\* _check_stability's cleanup is there to prevent): when no chain of the
\* path is left, neither is any of its entries, however the chains overlapped.
NothingLeftBehind ==
    (\A c \in Chain : at[c] = "free") => pending = NULL /\ prev = Gone /\ count = 0

\* A version is handed on only after stability_check_count stats have seen it,
\* although overlapping chains share the counter.
ReportedWasStable == \A v \in reported : checks[v] = StabilityCount

\* An event for a version that stays leads to that version being handed on: no
\* overlap, cancellation or older chain makes the handler forget it.
EventIsReported ==
    \A v \in Version : told /\ mtime = v ~> v \in reported \/ mtime # v
=============================================================================
