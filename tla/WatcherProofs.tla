--------------------------- MODULE WatcherProofs ---------------------------
(***************************************************************************)
(* The two ways in which a task learns of its files: the event handler,    *)
(* for any number of overlapping chains, any number of checks and any      *)
(* clock, and then the polling scanner, for any modes and any clock.       *)
(*                                                                         *)
(* Why the handler's shared counter does not lie: every stat is counted by *)
(* the chain that made it, in a later step.  So the stats that saw a       *)
(* version are at least the ones counted for it since it became prev, plus *)
(* those that chains have made and not counted yet.                        *)
(*                                                                         *)
(* Why the scans leave no gap: the property says nothing of a running      *)
(* scan, so it is strengthened by what a scan owes.  The version that it   *)
(* is about to submit is offered or found, and once the scan ends, a       *)
(* version that is not newer than its start is offered.                    *)
(***************************************************************************)
EXTENDS EventHandler, PollingScanner, FiniteSetTheorems, TLAPS

USE WatchedFileAssumption, EventHandlerAssumption, PollingAssumption
-----------------------------------------------------------------------------
\* The event handler.

Types ==
    /\ clock \in Version /\ mtime \in Version \cup {Gone}
    /\ at \in [Chain -> Step] /\ got \in [Chain -> Version \cup {Gone}]
    /\ pending \in Chain \cup {NULL} /\ prev \in Version \cup {Gone} /\ count \in Nat
    /\ told \in BOOLEAN /\ reported \subseteq Version
    /\ checks \in [Version -> 0 .. StabilityCount]

EventsInv == events \in 0 .. MaxEvents

\* Chains that have seen version v and not counted it yet; chains past the count.
Counting(v) == {c \in Chain : at[c] = "count" /\ got[c] = v}
Popping     == {c \in Chain : at[c] = "pop"}

\* A chain that will still look at the entries of _pending, or drop them.
Active(c) == at[c] \in {"armed", "stat", "cleanup", "count", "store", "pop"}

EntriesInv ==
    \/ \E c \in Chain : Active(c)
    \/ pending = NULL /\ prev = Gone /\ count = 0

GotInv ==
    /\ \A c \in Chain : at[c] \in {"count", "store", "pop", "emit"} => got[c] \in Version
    /\ prev = Gone => count = 0

\* Only chains that wait for their drop can have counted too far.
CountInv == count <= StabilityCount - 1 + Cardinality(Popping)

\* The stats of version v that are counted or will be.
Seen(v) == (IF prev = v THEN count ELSE 0) + Cardinality(Counting(v))

ChecksInv ==
    /\ \A v \in Version : checks[v] < StabilityCount => Seen(v) <= checks[v]
    /\ \A c \in Chain : at[c] \in {"pop", "emit"} => checks[got[c]] = StabilityCount
    /\ \A v \in reported : checks[v] = StabilityCount

IInv == Types /\ EventsInv /\ EntriesInv /\ GotInv /\ CountInv /\ ChecksInv
-----------------------------------------------------------------------------
\* Sets of chains are finite.
LEMMA FiniteChains ==
  ASSUME NEW S \in SUBSET Chain
  PROVE  IsFiniteSet(S) /\ Cardinality(S) \in Nat /\ Cardinality(S) <= Cardinality(Chain)
  BY FS_Subset, FS_CardinalityType

LEMMA FewerChains ==
  ASSUME NEW S \in SUBSET Chain, NEW T \in SUBSET S
  PROVE  Cardinality(T) <= Cardinality(S)
  BY FiniteChains, FS_Subset

LEMMA OneLess ==
  ASSUME NEW S \in SUBSET Chain, NEW c \in S
  PROVE  Cardinality(S \ {c}) = Cardinality(S) - 1
  BY FiniteChains, FS_RemoveElement

LEMMA OneMore ==
  ASSUME NEW S \in SUBSET Chain, NEW c \in Chain \ S
  PROVE  Cardinality(S \cup {c}) = Cardinality(S) + 1
  BY FiniteChains, FS_AddElement

LEMMA NoChains == Cardinality({}) = 0
  BY FS_EmptySet

LEMMA InitIInv == Init => IInv
<1> SUFFICES ASSUME Init PROVE IInv
  OBVIOUS
<1>1. Types
  <2>1. 1 \in Version /\ 0 \in 0 .. StabilityCount
    BY DEF Version
  <2> QED
    BY <2>1 DEF Init, FileInit, Types, Step
<1>1a. EventsInv /\ EntriesInv /\ GotInv
  BY DEF Init, EventsInv, EntriesInv, GotInv
<1>2. Popping = {} /\ \A v : Counting(v) = {}
  BY DEF Init, Popping, Counting
<1>3. CountInv
  BY <1>2, NoChains DEF Init, CountInv
<1>4. ChecksInv
  <2>1. \A v \in Version : Seen(v) = 0 /\ checks[v] = 0
    <3> TAKE v \in Version
    <3>1. Cardinality(Counting(v)) = 0
      BY <1>2, NoChains
    <3> QED
      BY <3>1 DEF Init, Seen
  <2> QED
    BY <2>1 DEF Init, ChecksInv
<1> QED
  BY <1>1, <1>1a, <1>3, <1>4 DEF IInv
-----------------------------------------------------------------------------
\* The file changes, and watchdog may have events to deliver.
LEMMA FileStepInv ==
  ASSUME IInv, FileStep
  PROVE  IInv'
<1>1. Types'
  BY DEF IInv, Types, FileStep, FileNext, Tick, Write, MoveIn, Vanish, Version, Gone
<1>2. EventsInv'
  BY DEF IInv, EventsInv, FileStep, SomeEvents
<1>3. Popping' = Popping /\ \A v : Counting(v)' = Counting(v)
  BY DEF FileStep, Popping, Counting
<1> QED
  BY <1>1, <1>2, <1>3 DEF IInv, EntriesInv, Active, GotInv, CountInv, ChecksInv, Seen, FileStep

\* A new chain, and the end of the one whose timer is cancelled: neither counts.
LEMMA ScheduleInv ==
  ASSUME IInv, Schedule
  PROVE  IInv'
<1> PICK c \in Chain :
       /\ at[c] = "free" /\ pending' = c
       /\ at' = [d \in Chain |-> IF d = c THEN "armed"
                                 ELSE IF d \in Cancelled THEN "free" ELSE at[d]]
  BY DEF Schedule
<1>0. Cancelled \subseteq {d \in Chain : at[d] = "armed"}
  BY DEF Cancelled
<1>1. Types'
  BY DEF IInv, Types, Schedule, fileVars, Step
<1>2. EventsInv'
  BY DEF IInv, EventsInv, Schedule
<1>3. Popping' = Popping /\ \A v : Counting(v)' = Counting(v)
  BY <1>0 DEF IInv, Types, Schedule, Popping, Counting
<1>4. EntriesInv'
  BY DEF IInv, Types, EntriesInv, Active
<1>5. GotInv' /\ CountInv'
  BY <1>0, <1>3 DEF IInv, Types, Schedule, GotInv, CountInv
<1>6. ChecksInv'
  BY <1>0, <1>3 DEF IInv, Types, Schedule, ChecksInv, Seen
<1> QED
  BY <1>1, <1>2, <1>4, <1>5, <1>6 DEF IInv

LEMMA FireInv ==
  ASSUME IInv, NEW c \in Chain, Fire(c)
  PROVE  IInv'
<1>1. Types' /\ EventsInv'
  BY DEF IInv, Types, EventsInv, Fire, Move, fileVars, history, Step
<1>2. Popping' = Popping /\ \A v : Counting(v)' = Counting(v)
  BY DEF IInv, Types, Fire, Move, Popping, Counting
<1>3. EntriesInv'
  BY DEF IInv, Types, EntriesInv, Active, Fire, Move
<1>4. GotInv' /\ CountInv'
  BY <1>2 DEF IInv, Types, GotInv, CountInv, Fire, Move
<1>5. ChecksInv'
  BY <1>2 DEF IInv, Types, ChecksInv, Seen, Fire, Move, history
<1> QED
  BY <1>1, <1>3, <1>4, <1>5 DEF IInv

\* A stat of version v is one check of v and one that is still to be counted.
LEMMA StatInv ==
  ASSUME IInv, NEW c \in Chain, Stat(c)
  PROVE  IInv'
<1>1. Types' /\ EventsInv'
  BY DEF IInv, Types, EventsInv, Stat, Move, fileVars, Step
<1>2. Popping' = Popping /\ \A v \in Version \ {mtime} : Counting(v)' = Counting(v)
  BY DEF IInv, Types, Stat, Move, Popping, Counting, Gone, Version
<1>3. ASSUME NEW v \in Version, v = mtime
      PROVE  Cardinality(Counting(v)') = Cardinality(Counting(v)) + 1
  <2>1. Counting(v)' = Counting(v) \cup {c} /\ c \notin Counting(v)
    BY <1>3 DEF IInv, Types, Stat, Move, Counting, Gone, Version
  <2> QED
    BY <2>1, OneMore DEF Counting
<1>4. EntriesInv'
  BY DEF IInv, Types, EntriesInv, Active, Stat, Move
<1>5. GotInv' /\ CountInv'
  BY <1>2 DEF IInv, Types, GotInv, CountInv, Stat, Move, Gone
<1>6. ASSUME NEW v \in Version, checks'[v] < StabilityCount PROVE Seen(v)' <= checks'[v]
  <2>1. Cardinality(Counting(v)) \in Nat
    BY FiniteChains DEF Counting
  <2>2. Cardinality(Counting(v)') = Cardinality(Counting(v)) + (IF v = mtime THEN 1 ELSE 0)
    <3>1. CASE v = mtime
      BY <1>3, <3>1
    <3>2. CASE v # mtime
      BY <1>2, <2>1, <3>2
    <3> QED
      BY <3>1, <3>2
  <2>3. checks[v] < StabilityCount /\ checks'[v] = checks[v] + (IF v = mtime THEN 1 ELSE 0)
    BY <1>6 DEF IInv, Types, Stat
  <2> QED
    BY <2>1, <2>2, <2>3 DEF IInv, Types, ChecksInv, Seen, Stat
<1>7. \A v \in Version : checks[v] = StabilityCount => checks'[v] = StabilityCount
  BY DEF IInv, Types, Stat
<1>8. ChecksInv'
  BY <1>6, <1>7 DEF IInv, Types, ChecksInv, GotInv, Stat, Move
<1> QED
  BY <1>1, <1>4, <1>5, <1>8 DEF IInv

\* The entries are dropped together: cleanup and pop.
LEMMA DropInv ==
  ASSUME IInv, NEW c \in Chain, Cleanup(c) \/ Pop(c)
  PROVE  IInv'
<1>1. Types' /\ EventsInv'
  BY DEF IInv, Types, EventsInv, Cleanup, Pop, End, Move, fileVars, history, Step, Gone
<1>2. EntriesInv' /\ GotInv'
  BY DEF IInv, Types, EntriesInv, GotInv, Cleanup, Pop, End, Move
<1>3. CountInv'
  BY FiniteChains DEF CountInv, Popping, Cleanup, Pop
<1>4. ASSUME NEW v \in Version PROVE Counting(v)' = Counting(v)
  BY DEF IInv, Types, Cleanup, Pop, End, Move, Counting
<1>5. ChecksInv'
  <2>1. ASSUME NEW v \in Version, checks[v] < StabilityCount PROVE Seen(v)' <= checks[v]
    <3>1. Cardinality(Counting(v)) \in Nat
      BY FiniteChains DEF Counting
    <3>2. prev' = Gone /\ Gone # v
      BY DEF Cleanup, Pop, Gone, Version
    <3>3. Seen(v)' = Cardinality(Counting(v))
      BY <1>4, <3>1, <3>2 DEF Seen
    <3>4. Seen(v) <= checks[v] /\ checks[v] \in Nat
      BY <2>1 DEF IInv, Types, ChecksInv
    <3> QED
      BY <3>1, <3>3, <3>4 DEF IInv, Types, Seen
  <2>2. \A d \in Chain : at'[d] \in {"pop", "emit"} => got'[d] = got[d] /\ at[d] \in {"pop", "emit"}
    BY DEF IInv, Types, Cleanup, Pop, End, Move
  <2> QED
    BY <2>1, <2>2 DEF IInv, ChecksInv, Cleanup, Pop, history
<1> QED
  BY <1>1, <1>2, <1>3, <1>5 DEF IInv

\* The stat is counted: it leaves the uncounted ones, and the count grows by one
\* or starts again.
LEMMA CountStepInv ==
  ASSUME IInv, NEW c \in Chain, Count(c)
  PROVE  IInv'
<1> DEFINE v == got[c]
<1>0. v \in Version /\ got' = got /\ checks' = checks /\ reported' = reported
  BY DEF IInv, GotInv, Count, history
<1>1. count' \in Nat /\ prev' = v
  BY DEF IInv, Types, Count
<1>2. Types' /\ EventsInv'
  BY <1>0, <1>1 DEF IInv, Types, EventsInv, Count, Move, fileVars, history, Step
<1>3. EntriesInv' /\ GotInv'
  BY <1>0 DEF IInv, Types, EntriesInv, Active, GotInv, Count, Move, Version, Gone
<1>4. Counting(v)' = Counting(v) \ {c} /\ \A u \in Version \ {v} : Counting(u)' = Counting(u)
  BY <1>0 DEF IInv, Types, Count, Move, Counting
<1>5. Cardinality(Counting(v)') = Cardinality(Counting(v)) - 1
  BY <1>4, OneLess DEF Counting, Count
<1>6. \A u \in Version : Cardinality(Counting(u)) \in Nat
  BY FiniteChains DEF Counting
<1>6a. Cardinality(Counting(v)) >= 1
  BY <1>5, <1>6, <1>4, <1>0, FiniteChains DEF Counting
<1>7. \A u \in Version : u = v => Seen(u)' <= Seen(u) /\ Seen(u)' >= count'
  BY <1>0, <1>1, <1>5, <1>6, <1>6a DEF IInv, Types, Seen, Count
<1>8. \A u \in Version \ {v} : Seen(u)' <= Seen(u)
  BY <1>0, <1>1, <1>4, <1>6 DEF IInv, Types, Seen
<1>8a. \A u \in Version : Seen(u) \in Nat /\ Seen(u)' \in Nat
  <2> TAKE u \in Version
  <2>1. Cardinality(Counting(u)') \in Nat
    BY <1>0, <1>4, <1>5, <1>6, <1>6a
  <2>2. Seen(u) \in Nat
    BY <1>6 DEF IInv, Types, Seen
  <2>3. Seen(u)' = (IF prev' = u THEN count' ELSE 0) + Cardinality(Counting(u)')
    BY DEF Seen
  <2> QED
    BY <1>1, <2>1, <2>2, <2>3
<1>8b. \A u \in Version : checks[u] \in Nat /\ checks[u] <= StabilityCount
  BY DEF IInv, Types
<1>8c. \A u \in Version : checks[u] < StabilityCount => Seen(u)' <= checks[u]
  <2> TAKE u \in Version
  <2>1. Seen(u)' <= Seen(u)
    BY <1>7, <1>8
  <2> QED
    BY <2>1, <1>8a, <1>8b DEF IInv, ChecksInv
<1>9. at'[c] = "pop" => checks[v] = StabilityCount
  <2>1. at'[c] = "pop" => count' >= StabilityCount
    BY DEF IInv, Types, Count, Move
  <2> QED
    BY <2>1, <1>0, <1>1, <1>7, <1>8a, <1>8b, <1>8c
<1>10. ChecksInv'
  <2>1. \A d \in Chain : at'[d] \in {"pop", "emit"} => checks[got[d]] = StabilityCount
    BY <1>9 DEF IInv, Types, ChecksInv, Count, Move
  <2> QED
    BY <2>1, <1>0, <1>8c DEF IInv, ChecksInv
<1>11. CountInv'
  <2>1. CASE at'[c] = "pop"
    <3>1. Popping' = Popping \cup {c} /\ c \notin Popping
      BY <2>1 DEF IInv, Types, Count, Move, Popping
    <3>2. Cardinality(Popping') = Cardinality(Popping) + 1 /\ Cardinality(Popping) \in Nat
      BY <3>1, OneMore, FiniteChains DEF Popping
    <3> QED
      BY <3>2 DEF IInv, Types, CountInv, Count
  <2>2. CASE at'[c] # "pop"
    <3>1. count' < StabilityCount
      BY <2>2, <1>1 DEF IInv, Types, Count, Move
    <3> QED
      BY <3>1, <1>1, FiniteChains DEF CountInv, Popping
  <2> QED
    BY <2>1, <2>2
<1> QED
  BY <1>2, <1>3, <1>10, <1>11 DEF IInv

LEMMA StoreInv ==
  ASSUME IInv, NEW c \in Chain, Store(c)
  PROVE  IInv'
<1>1. Types' /\ EventsInv'
  BY DEF IInv, Types, EventsInv, Store, Move, fileVars, history, Step
<1>2. Popping' = Popping /\ \A v : Counting(v)' = Counting(v)
  BY DEF IInv, Types, Store, Move, Popping, Counting
<1>3. EntriesInv'
  BY DEF IInv, Types, EntriesInv, Active, Store, Move
<1>4. GotInv' /\ CountInv'
  BY <1>2 DEF IInv, Types, GotInv, CountInv, Store, Move
<1>5. ChecksInv'
  BY <1>2 DEF IInv, Types, ChecksInv, Seen, Store, Move, history
<1> QED
  BY <1>1, <1>3, <1>4, <1>5 DEF IInv

\* The chain ends with the version it has seen stable.
LEMMA EmitInv ==
  ASSUME IInv, NEW c \in Chain, Emit(c)
  PROVE  IInv'
<1>0. got[c] \in Version /\ checks[got[c]] = StabilityCount
  BY DEF IInv, GotInv, ChecksInv, Emit
<1>1. Types' /\ EventsInv'
  BY <1>0 DEF IInv, Types, EventsInv, Emit, End, Move, fileVars, Step
<1>2. Popping' = Popping /\ \A v \in Version : Counting(v)' = Counting(v)
  BY DEF IInv, Types, Emit, End, Move, Popping, Counting
<1>3. EntriesInv'
  BY DEF IInv, Types, EntriesInv, Active, Emit, End, Move
<1>4. GotInv' /\ CountInv'
  BY <1>2 DEF IInv, Types, GotInv, CountInv, Emit, End, Move
<1>5. ChecksInv'
  BY <1>0, <1>2 DEF IInv, Types, ChecksInv, Seen, Emit, End, Move
<1> QED
  BY <1>1, <1>3, <1>4, <1>5 DEF IInv
-----------------------------------------------------------------------------
LEMMA NextIInv == IInv /\ [Next]_vars => IInv'
<1> SUFFICES ASSUME IInv, [Next]_vars PROVE IInv'
  OBVIOUS
<1>1. CASE UNCHANGED vars
  <2>1. Popping' = Popping /\ \A v : Counting(v)' = Counting(v)
    BY <1>1 DEF vars, Popping, Counting
  <2>2. (Types /\ EventsInv /\ EntriesInv /\ GotInv)'
    BY <1>1 DEF vars, fileVars, history, IInv, Types, EventsInv, EntriesInv, Active, GotInv
  <2>3. (CountInv /\ ChecksInv)'
    BY <1>1, <2>1 DEF vars, history, IInv, CountInv, ChecksInv, Seen
  <2> QED
    BY <2>2, <2>3 DEF IInv
<1> QED
  BY <1>1, FileStepInv, ScheduleInv, FireInv, StatInv, DropInv, CountStepInv, StoreInv, EmitInv
  DEF Next, Check

LEMMA AlwaysIInv == Spec => []IInv
  BY InitIInv, NextIInv, PTL DEF Spec

\* Every entry keeps its type; overlapping chains overshoot the counter by at most
\* the number of chains.
THEOREM TypeCorrect == Spec => []TypeOK
<1>1. IInv => TypeOK
  BY FiniteChains
  DEF IInv, Types, EventsInv, CountInv, Popping, TypeOK, FileTypeOK
<1> QED
  BY <1>1, AlwaysIInv, PTL

\* However the chains of a path overlap, the last one leaves no entry in _pending.
THEOREM NoLeak == Spec => []NothingLeftBehind
<1>1. IInv => NothingLeftBehind
  BY DEF IInv, EntriesInv, Active, NothingLeftBehind
<1> QED
  BY <1>1, AlwaysIInv, PTL

\* A version is handed on only after stability_check_count stats of that version.
THEOREM StableFirst == Spec => []ReportedWasStable
<1>1. IInv => ReportedWasStable
  BY DEF IInv, ChecksInv, ReportedWasStable
<1> QED
  BY <1>1, AlwaysIInv, PTL
-----------------------------------------------------------------------------
\* The polling scanner.
Time == 0 .. MaxTime

Times ==
    /\ clock \in 1 .. MaxTime /\ mtime \in Time
    /\ start \in Time /\ found \in Time /\ last \in Time
    /\ start <= clock /\ last <= clock

Rest ==
    /\ mode \in PollModes /\ late \in BOOLEAN
    /\ scan \in {"idle", "visit", "submit", "end"}
    /\ scan = "submit" <=> found # Gone
    /\ scan = "idle" => start = 0

Versions == queued \subseteq Version /\ offered \subseteq Version

TypeInv == Times /\ Rest /\ Versions

\* The present file, when it came after all scans that began before it, has no
\* time up to t without being among the versions vs.
Covered(t, vs) == late /\ mtime # Gone /\ mtime <= t => mtime \in vs

GapInv ==
    /\ Covered(last, offered)
    /\ scan = "submit" => Covered(start, offered \cup {found})
    /\ scan = "end" => Covered(start, offered)

ScanIInv == TypeInv /\ GapInv

LEMMA ScanInitIInv == ScanInit => ScanIInv
<1> SUFFICES ASSUME ScanInit PROVE ScanIInv
  OBVIOUS
<1>1. Times
  BY DEF ScanInit, FileInit, Times, Time, Gone
<1>2. Rest /\ Versions
  BY DEF ScanInit, Rest, Versions, Gone
<1> QED
  BY <1>1, <1>2 DEF ScanInit, ScanIInv, TypeInv, GapInv, Covered
-----------------------------------------------------------------------------
\* The file changes or the clock ticks: a new version is late only when its time
\* is after last and start, so no scan owes it.
LEMMA ScanFileStepInv ==
  ASSUME ScanIInv, ScanFileStep
  PROVE  ScanIInv'
<1>1. /\ clock' \in 1 .. MaxTime /\ clock <= clock'
      /\ mtime' \in Time
  BY DEF ScanIInv, TypeInv, Times, Rest, Versions, Time, ScanFileStep, FileNext, Tick, Write, MoveIn, Vanish,
         Version, Gone
<1>2. TypeInv'
  <2>1. Times'
    BY <1>1 DEF ScanIInv, TypeInv, Times, Time, ScanFileStep
  <2>2. late' \in BOOLEAN
    BY DEF ScanIInv, TypeInv, Rest, ScanFileStep
  <2> QED
    BY <2>1, <2>2 DEF ScanIInv, TypeInv, Rest, Versions, ScanFileStep
<1>3. CASE mtime' = mtime
  BY <1>2, <1>3 DEF ScanIInv, GapInv, Covered, ScanFileStep
<1>4. CASE mtime' # mtime
  <2>1. late' => mtime' > last' /\ mtime' > start'
    BY <1>4 DEF ScanFileStep
  <2> QED
    BY <1>2, <2>1 DEF ScanIInv, TypeInv, Times, Rest, Versions, Time, GapInv, Covered
<1> QED
  BY <1>3, <1>4

\* The watcher's submit only adds to the queue.
LEMMA WatcherStepInv ==
  ASSUME ScanIInv, WatcherSubmits
  PROVE  ScanIInv'
<1>1. TypeInv'
  BY DEF ScanIInv, TypeInv, Times, Rest, Versions, Time, WatcherSubmits, fileVars, Version, Gone
<1> QED
  BY <1>1 DEF ScanIInv, GapInv, Covered, WatcherSubmits, fileVars

LEMMA ScanBeginInv ==
  ASSUME ScanIInv, ScanBegin
  PROVE  ScanIInv'
<1>1. TypeInv'
  BY DEF ScanIInv, TypeInv, Times, Rest, Versions, Time, ScanBegin, fileVars, Version, Gone
<1> QED
  BY <1>1 DEF ScanIInv, GapInv, Covered, ScanBegin, fileVars
-----------------------------------------------------------------------------
\* A scan passes over nothing but what earlier scans owed, and keeps what it finds.
LEMMA VisitInv ==
  ASSUME ScanIInv, VisitPasses \/ VisitKnows \/ VisitFinds
  PROVE  ScanIInv'
<1>1. TypeInv'
  BY DEF ScanIInv, TypeInv, Times, Rest, Versions, Time, VisitPasses, VisitKnows, VisitFinds,
         fileVars, Version, Gone
<1>2. CASE VisitPasses
  BY <1>1, <1>2 DEF ScanIInv, TypeInv, Times, Rest, Versions, Time, GapInv, Covered, VisitPasses, Skips, fileVars
<1>3. CASE VisitKnows
  BY <1>1, <1>3 DEF ScanIInv, GapInv, Covered, VisitKnows, fileVars
<1>4. CASE VisitFinds
  BY <1>1, <1>4 DEF ScanIInv, GapInv, Covered, VisitFinds, fileVars
<1> QED
  BY <1>2, <1>3, <1>4

LEMMA SubmitInv ==
  ASSUME ScanIInv, ScanSubmit \/ ScanRaises
  PROVE  ScanIInv'
<1>1. Times' /\ Rest'
  BY DEF ScanIInv, TypeInv, Times, Rest, Time, ScanSubmit, ScanRaises, fileVars, Gone
<1>2. Versions'
  <2>1. found \in Version
    BY DEF ScanIInv, TypeInv, Times, Time, Rest, ScanSubmit, ScanRaises, Version, Gone
  <2> QED
    BY <2>1 DEF ScanIInv, TypeInv, Versions, ScanSubmit, ScanRaises
<1>3. CASE ScanSubmit
  BY <1>1, <1>2, <1>3 DEF ScanIInv, TypeInv, GapInv, Covered, ScanSubmit, fileVars
<1>4. CASE ScanRaises
  BY <1>1, <1>2, <1>4 DEF ScanIInv, TypeInv, GapInv, Covered, ScanRaises, fileVars
<1> QED
  BY <1>3, <1>4

\* _last_scan_mtime moves to the start of the scan, up to which nothing is owed.
LEMMA ScanEndInv ==
  ASSUME ScanIInv, ScanEnd
  PROVE  ScanIInv'
<1>1. TypeInv'
  BY DEF ScanIInv, TypeInv, Times, Rest, Versions, Time, ScanEnd, LaterOf, fileVars, Version, Gone
<1>2. Covered(last', offered)
  BY DEF ScanIInv, TypeInv, Times, Rest, Versions, Time, GapInv, Covered, ScanEnd, LaterOf
<1> QED
  BY <1>1, <1>2 DEF ScanIInv, GapInv, Covered, ScanEnd, fileVars
-----------------------------------------------------------------------------
LEMMA ScanNextIInv == ScanIInv /\ [ScanNext]_scanVars => ScanIInv'
<1> SUFFICES ASSUME ScanIInv, [ScanNext]_scanVars PROVE ScanIInv'
  OBVIOUS
<1>1. CASE UNCHANGED scanVars
  BY <1>1 DEF scanVars, fileVars, ScanIInv, TypeInv, Times, Rest, Versions, Time, GapInv, Covered
<1> QED
  BY <1>1, ScanFileStepInv, WatcherStepInv, ScanBeginInv, VisitInv, SubmitInv, ScanEndInv
  DEF ScanNext, InScan

LEMMA ScanAlwaysIInv == ScanSpec => []ScanIInv
  BY ScanInitIInv, ScanNextIInv, PTL DEF ScanSpec

\* A scan has found a version exactly while it submits, and every time is on the clock.
THEOREM ScanTypeCorrect == ScanSpec => []ScanTypeOK
<1>1. ScanIInv => ScanTypeOK
  BY DEF ScanIInv, TypeInv, Times, Rest, Versions, Time, ScanTypeOK, FileTypeOK, Version, Gone
<1> QED
  BY <1>1, ScanAlwaysIInv, PTL

\* Whatever the file does during the scans and whichever of them fail, a version
\* that later scans pass over as old was offered to the pool.
THEOREM NoGap == ScanSpec => []ScannedIsOffered
<1>1. ScanIInv => ScannedIsOffered
  BY DEF ScanIInv, GapInv, Covered, ScannedIsOffered
<1> QED
  BY <1>1, ScanAlwaysIInv, PTL
=============================================================================
