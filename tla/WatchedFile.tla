----------------------------- MODULE WatchedFile -----------------------------
(***************************************************************************)
(* One path in the watched directory of a task, as the watcher and the     *)
(* poller see it: its modification time against the clock.                 *)
(*                                                                         *)
(* mtime stands for the pair (st_mtime, st_size), for the version of the   *)
(* file and for the key of its ref: a write in the tick of the previous    *)
(* write makes no new version.  Time is counted in ticks of the file       *)
(* system's clock, up to MaxTime.                                          *)
(*                                                                         *)
(* Gone is a file whose os.stat fails: one that is not there, and one that *)
(* is there and cannot be reached now, on a share that is away or behind   *)
(* permissions.  Vanish and MoveIn are also the loss and the return of     *)
(* such a file, with the modification time that it had.                    *)
(***************************************************************************)
EXTENDS Naturals

CONSTANT MaxTime   \* bound of the clock

ASSUME WatchedFileAssumption == MaxTime \in Nat \ {0}

VARIABLES clock,   \* time.time()
          mtime    \* the modification time of the file, or Gone

fileVars == <<clock, mtime>>

Gone == 0
Version == 1 .. MaxTime

FileInit == clock = 1 /\ mtime = Gone

Tick ==
    /\ clock < MaxTime
    /\ clock' = clock + 1
    /\ UNCHANGED mtime

Write ==
    /\ mtime # clock
    /\ mtime' = clock
    /\ UNCHANGED clock

\* A file that is renamed into the directory keeps its modification time, and so does
\* one that can be reached again.
MoveIn ==
    /\ mtime = Gone
    /\ mtime' \in 1 .. clock
    /\ UNCHANGED clock

\* Removed, archived, moved away or out of reach.
Vanish ==
    /\ mtime # Gone
    /\ mtime' = Gone
    /\ UNCHANGED clock

FileNext == Tick \/ Write \/ MoveIn \/ Vanish

FileTypeOK == clock \in Version /\ mtime \in Version \cup {Gone}
=============================================================================
