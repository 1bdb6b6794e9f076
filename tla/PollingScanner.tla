--------------------------- MODULE PollingScanner ---------------------------
(***************************************************************************)
(* watcher/polling_scanner.py over a directory that holds one path.        *)
(* _scan_lock admits one scan at a time, of the loop or of scan_now.  A    *)
(* scan reads _last_scan_mtime and the clock, looks at the file, asks for  *)
(* its status, submits it, and then moves _last_scan_mtime forward to the  *)
(* time at which it began.                                                 *)
(***************************************************************************)
EXTENDS WatchedFile

CONSTANT PollModes   \* some of "off" (poll_interval 0), "incremental", "full"

ASSUME PollingAssumption == PollModes \subseteq {"off", "incremental", "full"}

VARIABLES mode,      \* how the task is polled
          scan,      \* the next step of the running scan, or "idle"
          start,     \* scan_start
          found,     \* the version the running scan is about to submit
          last,      \* _last_scan_mtime
          queued,    \* the versions the pool has accepted
          offered,   \* the versions a scan has submitted or found SUCCESS
          late       \* is the file newer than every scan that began before it came?

scanVars == <<fileVars, mode, scan, start, found, last, queued, offered, late>>

ScanInit ==
    /\ FileInit
    /\ mode \in PollModes /\ scan = "idle" /\ start = 0 /\ found = Gone
    /\ last = 0 /\ queued = {} /\ offered = {} /\ late = FALSE

\* The loop's next scan, or scan_now: a manual trigger, also when polling is off.
ScanBegin ==
    /\ scan = "idle"
    /\ scan' = "visit" /\ start' = clock
    /\ UNCHANGED <<fileVars, queued, mode, found, last, offered, late>>

SkipsAlways == mtime <= last \* mutant: poll_incremental is not tested

Skips == mode # "full" /\ mtime <= last

\* os.stat of the file: it raises an OSError, or the file is not newer than the last scan.
VisitPasses ==
    /\ scan = "visit"
    /\ mtime = Gone \/ Skips
    /\ scan' = "end"
    /\ UNCHANGED <<fileVars, queued, mode, start, found, last, offered, late>>

\* A version that was queued may have reached SUCCESS by now.
VisitKnows ==
    /\ scan = "visit"
    /\ mtime # Gone /\ ~Skips /\ mtime \in queued
    /\ scan' = "end" /\ offered' = offered \cup {mtime}
    /\ UNCHANGED <<fileVars, queued, mode, start, found, last, late>>

VisitFindsAny == \* mutant: the OSError of a file that has gone is not caught
    /\ scan = "visit"
    /\ ~Skips \/ mtime = Gone
    /\ scan' = "submit" /\ found' = mtime
    /\ UNCHANGED <<fileVars, mode, start, last, queued, offered, late>>

VisitFinds ==
    /\ scan = "visit"
    /\ mtime # Gone /\ ~Skips
    /\ scan' = "submit" /\ found' = mtime
    /\ UNCHANGED <<fileVars, queued, mode, start, last, offered, late>>

\* submit answers QUEUED, or one of its refusals: the task is paused, the breaker
\* is open or the queue is full.  The scan goes on all the same.
ScanSubmit ==
    /\ scan = "submit" /\ mtime # Gone
    /\ queued' \in {queued, queued \cup {found}}
    /\ offered' = offered \cup {found}
    /\ scan' = "end" /\ found' = Gone
    /\ UNCHANGED <<fileVars, mode, start, last, late>>

ScanAccepted == ScanSubmit /\ found \in queued'

\* get_status fails, or FileRef.from_stat finds the file gone or locked: the
\* exception ends the scan before _last_scan_mtime moves, and the loop goes on.
ScanRaises ==
    /\ scan = "submit"
    /\ scan' = "idle" /\ start' = 0 /\ found' = Gone
    /\ UNCHANGED <<fileVars, queued, mode, last, offered, late>>

LaterOf(a, b) == IF a > b THEN a ELSE b

ScanEndNow == \* mutant: the time at which the scan ends
    /\ scan = "end"
    /\ last' = LaterOf(last, clock)
    /\ scan' = "idle" /\ start' = 0
    /\ UNCHANGED <<fileVars, queued, mode, found, offered, late>>

ScanEnd ==
    /\ scan = "end"
    /\ last' = LaterOf(last, start)
    /\ scan' = "idle" /\ start' = 0
    /\ UNCHANGED <<fileVars, queued, mode, found, offered, late>>

InScan == VisitPasses \/ VisitKnows \/ VisitFinds \/ ScanSubmit \/ ScanRaises \/ ScanEnd

\* The watcher submits the file, and the pool accepts.
WatcherSubmits ==
    /\ mtime # Gone
    /\ queued' = queued \cup {mtime}
    /\ UNCHANGED <<fileVars, mode, scan, start, found, last, offered, late>>

\* A version is late when its time is after the start of every scan so far.
ScanFileStep ==
    /\ FileNext
    /\ late' = IF mtime' = mtime THEN late ELSE mtime' > last /\ mtime' > start
    /\ UNCHANGED <<mode, scan, start, found, last, queued, offered>>

ScanNext == ScanFileStep \/ WatcherSubmits \/ ScanBegin \/ InScan

ScanSpec == ScanInit /\ [][ScanNext]_scanVars

(***************************************************************************)
(* A poller that is not off comes back, and its thread runs.  The pool     *)
(* does not refuse for ever what it is offered again and again.  Nothing   *)
(* is assumed of the files, of the watcher or of manual triggers.          *)
(***************************************************************************)
ScanFairSpec ==
    /\ ScanSpec
    /\ WF_scanVars(InScan)
    /\ WF_scanVars(mode # "off" /\ ScanBegin)
    /\ SF_scanVars(ScanAccepted)
-----------------------------------------------------------------------------
ScanTypeOK ==
    /\ FileTypeOK
    /\ mode \in PollModes
    /\ scan \in {"idle", "visit", "submit", "end"}
    /\ {start, found, last} \subseteq 0 .. MaxTime
    /\ scan = "submit" <=> found # Gone
    /\ queued \subseteq Version /\ offered \subseteq Version /\ late \in BOOLEAN

\* The scans leave no gap behind them: a file that was newer, when it came, than
\* the scans before it, and that later scans pass over as old, has been submitted
\* in this version, or was known.  It may have come during a scan, before or
\* after its directory was read, and scans may have failed in between.
ScannedIsOffered ==
    late /\ mtime # Gone /\ mtime <= last /\ scan = "idle" => mtime \in offered

\* Full polling makes up for lost events, refusals and failed scans: a file that
\* stays is queued in the end.
FullPollingFindsAll ==
    \A v \in Version :
        mode = "full" /\ <>[](mtime = v) => <>(v \in queued)
=============================================================================
