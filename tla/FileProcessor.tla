---------------------------- MODULE FileProcessor ----------------------------
(***************************************************************************)
(* core/file_processor.py run by the worker threads of several service     *)
(* instances that share the table processed_files and the directories of   *)
(* one task.  FileProcessor.__call__ is cut at its repository calls and at *)
(* its file moves: every one of them is a step, and steps of other workers,*)
(* a crash of an instance, the end of a lease or an operator's retry may   *)
(* fall between any two.                                                   *)
(*                                                                         *)
(* A file stands for one FileRef, that is for one key of the table.  Which *)
(* ref a worker takes from its queue is left open: watcher, poller, manual *)
(* trigger and the start of a new instance may all submit the same ref     *)
(* again.                                                                  *)
(***************************************************************************)
EXTENDS ProcessedFileRepo, HandlerVerdicts, Sequences

CONSTANTS Worker,       \* the worker threads of all instances
          InstanceOf,   \* InstanceOf[w] is the instance that worker w belongs to
          File,         \* the refs (task_id, file_path, file_mtime)
          ArchiveModes, \* the values archive_mode may have
          LoadsCap      \* loads is counted up to this bound

ASSUME ProcessorAssumption ==
    /\ InstanceOf \in [Worker -> Instance]
    /\ NULL \notin File
    /\ ArchiveModes \subseteq {"keep", "delete", "move"}
    /\ LoadsCap \in Nat

VARIABLES rows,     \* the table processed_files: one row per file
          disk,     \* disk[f]: the directories that hold a copy of f
          up,       \* the instances whose process is running
          pc,       \* pc[w]: the call of __call__ that worker w makes next
          ref,      \* ref[w]: the file worker w handles, or NULL
          path,     \* path[w]: what archive_after_success returned
          verdict,  \* verdict[w]: the breaker calls made for the current ref
          taken,    \* taken[f]: has an expired lease of f been taken over?
          loads     \* loads[f]: how often pipeline.execute returned SUCCESS

vars == <<rows, disk, up, pc, ref, path, verdict, taken, loads>>

Place == {"watch", "archive", "dead"}

\* The calls after which the worker owns the row in the eyes of the program:
\* from mark_processing's True to the call that records the outcome.
Processing == {"execute", "mark_success", "mark_skipped",
               "mark_retry", "mark_fatal", "mark_raised"}

\* Repository calls outside any try block of __call__.
RepoCall == {"try_claim", "mark_processing", "mark_archived"}
                \cup (Processing \ {"execute"})

PC == {"idle", "done", "archive", "dead_fatal", "dead_exhausted"}
        \cup Processing \cup RepoCall

Processors(f) == {w \in Worker : ref[w] = f /\ pc[w] \in Processing}
-----------------------------------------------------------------------------
Init ==
    /\ rows    = [f \in File |-> NoRow]
    /\ disk    = [f \in File |-> {"watch"}]
    /\ up      = Instance
    /\ pc      = [w \in Worker |-> "idle"]
    /\ ref     = [w \in Worker |-> NULL]
    /\ path    = [w \in Worker |-> "null"]
    /\ verdict = [w \in Worker |-> <<>>]
    /\ taken   = [f \in File |-> "no"]
    /\ loads   = [f \in File |-> 0]

Goto(w, label) == pc' = [pc EXCEPT ![w] = label]

Record(w, call) == verdict' = [verdict EXCEPT ![w] = Append(@, call)]

\* An exception leaves __call__: WorkerPool._work records a failure.
Raise(w) == Goto(w, "done") /\ Record(w, "failure")
-----------------------------------------------------------------------------
(***************************************************************************)
(* The queue hands a ref to worker w.  When the task has been removed from *)
(* the configuration meanwhile, get_task returns None and the handler      *)
(* returns.                                                                *)
(***************************************************************************)
Take(w, f) ==
    /\ pc[w] = "idle" /\ InstanceOf[w] \in up
    /\ ref' = [ref EXCEPT ![w] = f]
    /\ \E label \in {"try_claim", "done"} : Goto(w, label)
    /\ UNCHANGED <<rows, disk, up, path, verdict, taken, loads>>

\* taken records a claim that overtakes an expired lease: "stolen" when
\* a live worker is still processing the file, "orphan" when none is.
TakenAfter(f) ==
    IF rows[f].status \in {"CLAIMED", "PROCESSING"} /\ rows[f].claim_expires_at = "past"
    THEN IF Processors(f) # {} \/ taken[f] = "stolen" THEN "stolen" ELSE "orphan"
    ELSE taken[f]

TryClaim(w) ==
    LET f == ref[w] IN
    /\ pc[w] = "try_claim"
    /\ rows' = [rows EXCEPT ![f] = TryClaimRow(@, InstanceOf[w])]
    /\ taken' = [taken EXCEPT ![f] = TakenAfter(f)]
    /\ Goto(w, IF TryClaimResult(rows[f], InstanceOf[w]) THEN "mark_processing" ELSE "done")
    /\ UNCHANGED <<disk, up, ref, path, verdict, loads>>

MarkProcessing(w) ==
    LET f == ref[w] IN
    /\ pc[w] = "mark_processing"
    /\ rows' = [rows EXCEPT ![f] = MarkProcessingRow(@, InstanceOf[w])]
    /\ Goto(w, IF MarkProcessingMatches(rows[f], InstanceOf[w]) THEN "execute" ELSE "done")
    /\ UNCHANGED <<disk, up, ref, path, verdict, taken, loads>>

\* What pipeline.execute can answer: a missing file is skipped.
Outcomes(f) ==
    IF "watch" \in disk[f]
    THEN {"mark_success", "mark_skipped", "mark_retry", "mark_fatal", "mark_raised"}
    ELSE {"mark_skipped"}

Execute(w) ==
    LET f == ref[w] IN
    /\ pc[w] = "execute"
    /\ \E outcome \in Outcomes(f) :
         /\ Goto(w, outcome)
         /\ loads' = IF outcome = "mark_success" /\ loads[f] < LoadsCap
                     THEN [loads EXCEPT ![f] = @ + 1] ELSE loads
    /\ UNCHANGED <<rows, disk, up, ref, path, verdict, taken>>
-----------------------------------------------------------------------------
\* SUCCESS: the row first, then the archive, then the archive path, and only
\* then the success for the breaker.
MarkSuccessReports(w) == \* mutant: record_success before the archive
    /\ pc[w] = "mark_success"
    /\ rows' = [rows EXCEPT ![ref[w]] = MarkSuccessRow(@)]
    /\ Record(w, "success")
    /\ Goto(w, "archive")
    /\ UNCHANGED <<disk, up, ref, path, taken, loads>>

MarkSuccess(w) ==
    /\ pc[w] = "mark_success"
    /\ rows' = [rows EXCEPT ![ref[w]] = MarkSuccessRow(@)]
    /\ Goto(w, "archive")
    /\ UNCHANGED <<disk, up, ref, path, verdict, taken, loads>>

\* archive_mode keep, or move without an archive_dir: the source's own path.
ArchiveKeep(w) ==
    /\ pc[w] = "archive" /\ ArchiveModes \cap {"keep", "move"} # {}
    /\ path' = [path EXCEPT ![w] = "source"]
    /\ Goto(w, "mark_archived")
    /\ UNCHANGED <<rows, disk, up, ref, verdict, taken, loads>>

\* archive_mode delete: an error of unlink is logged; no path, no mark_archived.
ArchiveDelete(w) ==
    /\ pc[w] = "archive" /\ "delete" \in ArchiveModes
    /\ \E left \in {disk[ref[w]], disk[ref[w]] \ {"watch"}} :
         disk' = [disk EXCEPT ![ref[w]] = left]
    /\ Record(w, "success")
    /\ Goto(w, "done")
    /\ UNCHANGED <<rows, up, ref, path, taken, loads>>

\* archive_mode move: copy, verify, rename, unlink the source; an error of the
\* unlink is logged and leaves both copies.
ArchiveMove(w) ==
    /\ pc[w] = "archive" /\ "move" \in ArchiveModes
    /\ "watch" \in disk[ref[w]]
    /\ \E unlinked \in {{}, {"watch"}} :
         disk' = [disk EXCEPT ![ref[w]] = (@ \cup {"archive"}) \ unlinked]
    /\ path' = [path EXCEPT ![w] = "archive"]
    /\ Goto(w, "mark_archived")
    /\ UNCHANGED <<rows, up, ref, verdict, taken, loads>>

\* The source is gone, the directory cannot be made or the copy does not verify.
ArchiveRaisesFails(w) == \* mutant: a failed archive fails the file
    /\ pc[w] = "archive" /\ "move" \in ArchiveModes
    /\ rows' = [rows EXCEPT ![ref[w]] = MarkFailedRow(@)]
    /\ Raise(w)
    /\ UNCHANGED <<disk, up, ref, path, taken, loads>>

ArchiveRaises(w) ==
    /\ pc[w] = "archive" /\ "move" \in ArchiveModes
    /\ Raise(w)
    /\ UNCHANGED <<rows, disk, up, ref, path, taken, loads>>

MarkArchived(w) ==
    /\ pc[w] = "mark_archived"
    /\ rows' = [rows EXCEPT ![ref[w]] = MarkArchivedRow(@, path[w])]
    /\ Record(w, "success")
    /\ Goto(w, "done")
    /\ UNCHANGED <<disk, up, ref, path, taken, loads>>
-----------------------------------------------------------------------------
MarkSkipped(w) ==
    /\ pc[w] = "mark_skipped"
    /\ rows' = [rows EXCEPT ![ref[w]] = MarkSkippedRow(@)]
    /\ Goto(w, "done")
    /\ UNCHANGED <<disk, up, ref, path, verdict, taken, loads>>

\* RETRY: mark_failed returns the new retry_count, which decides on dead letter.
MarkRetryEarly(w) == \* mutant: dead letter one attempt early
    LET row == MarkFailedRow(rows[ref[w]]) IN
    /\ pc[w] = "mark_retry"
    /\ rows' = [rows EXCEPT ![ref[w]] = row]
    /\ Goto(w, IF row.retry_count + 1 >= MaxRetries THEN "dead_exhausted" ELSE "done")
    /\ UNCHANGED <<disk, up, ref, path, verdict, taken, loads>>

MarkRetry(w) ==
    LET row == MarkFailedRow(rows[ref[w]]) IN
    /\ pc[w] = "mark_retry"
    /\ rows' = [rows EXCEPT ![ref[w]] = row]
    /\ Goto(w, IF row.retry_count >= MaxRetries THEN "dead_exhausted" ELSE "done")
    /\ UNCHANGED <<disk, up, ref, path, verdict, taken, loads>>

\* FAILED: dead letter whatever the retry_count.
MarkFatal(w) ==
    /\ pc[w] = "mark_fatal"
    /\ rows' = [rows EXCEPT ![ref[w]] = MarkFailedRow(@)]
    /\ Record(w, "failure")
    /\ Goto(w, "dead_fatal")
    /\ UNCHANGED <<disk, up, ref, path, taken, loads>>

\* An exception out of pipeline.execute: failed, and no dead letter.
MarkRaised(w) ==
    /\ pc[w] = "mark_raised"
    /\ rows' = [rows EXCEPT ![ref[w]] = MarkFailedRow(@)]
    /\ Record(w, "failure")
    /\ Goto(w, "done")
    /\ UNCHANGED <<disk, up, ref, path, taken, loads>>

\* TaskManager.move_to_dead_letter: no dead_letter_dir, a missing source and
\* an error of the move all leave the directories alone.  The move is one step, as it
\* is within a file system.
MoveToDeadLetter(w) ==
    /\ pc[w] \in {"dead_fatal", "dead_exhausted"}
    /\ \/ UNCHANGED disk
       \/ /\ "watch" \in disk[ref[w]]
          /\ disk' = [disk EXCEPT ![ref[w]] = (@ \ {"watch"}) \cup {"dead"}]
    /\ Goto(w, "done")
    /\ UNCHANGED <<rows, up, ref, path, verdict, taken, loads>>

\* os.makedirs of the dead letter directory is not guarded.
DeadLetterRaises(w) ==
    /\ pc[w] \in {"dead_fatal", "dead_exhausted"}
    /\ Raise(w)
    /\ UNCHANGED <<rows, disk, up, ref, path, taken, loads>>

\* A repository call fails (database down, connection lost) before its commit;
\* the exception leaves __call__.
RepoRaises(w) ==
    /\ pc[w] \in RepoCall
    /\ Raise(w)
    /\ UNCHANGED <<rows, disk, up, ref, path, taken, loads>>

\* The row that the repository call at pc[w] commits.
Committed(w, r) ==
    CASE pc[w] = "try_claim"       -> TryClaimRow(r, InstanceOf[w])
      [] pc[w] = "mark_processing" -> MarkProcessingRow(r, InstanceOf[w])
      [] pc[w] = "mark_success"    -> MarkSuccessRow(r)
      [] pc[w] = "mark_archived"   -> MarkArchivedRow(r, path[w])
      [] pc[w] = "mark_skipped"    -> MarkSkippedRow(r)
      [] OTHER                     -> MarkFailedRow(r)

\* The connection is lost after the commit: the row has changed, and the caller
\* sees the same exception.
RepoAnswerLost(w) ==
    LET f == ref[w] IN
    /\ pc[w] \in RepoCall
    /\ rows' = [rows EXCEPT ![f] = Committed(w, @)]
    /\ taken' = IF pc[w] = "try_claim" THEN [taken EXCEPT ![f] = TakenAfter(f)] ELSE taken
    /\ Raise(w)
    /\ UNCHANGED <<disk, up, ref, path, loads>>

\* The finally clause of WorkerPool._work; the worker is free again.
Return(w) ==
    /\ pc[w] = "done"
    /\ Goto(w, "idle")
    /\ ref' = [ref EXCEPT ![w] = NULL]
    /\ path' = [path EXCEPT ![w] = "null"]
    /\ verdict' = [verdict EXCEPT ![w] = <<>>]
    /\ UNCHANGED <<rows, disk, up, taken, loads>>
-----------------------------------------------------------------------------
\* The process of an instance ends (crash, kill, stop that timed out): its
\* threads are gone, the table and the directories stay.
Crash(i) ==
    LET mine == {w \in Worker : InstanceOf[w] = i} IN
    /\ i \in up
    /\ up' = up \ {i}
    /\ pc' = [w \in Worker |-> IF w \in mine THEN "idle" ELSE pc[w]]
    /\ ref' = [w \in Worker |-> IF w \in mine THEN NULL ELSE ref[w]]
    /\ path' = [w \in Worker |-> IF w \in mine THEN "null" ELSE path[w]]
    /\ verdict' = [w \in Worker |-> IF w \in mine THEN <<>> ELSE verdict[w]]
    /\ UNCHANGED <<rows, disk, taken, loads>>

\* A process starts with an instance_id that is not in use.
Start(i) ==
    /\ i \notin up
    /\ up' = up \cup {i}
    /\ UNCHANGED <<rows, disk, pc, ref, path, verdict, taken, loads>>

\* The clock passes claim_expires_at.  Nothing renews a lease.
Expire(f) ==
    /\ rows[f].claim_expires_at = "future"
    /\ rows' = [rows EXCEPT ![f].claim_expires_at = "past"]
    /\ UNCHANGED <<disk, up, pc, ref, path, verdict, taken, loads>>

\* An operator calls POST /api/v1/files/<id>/retry.
RetryFileAny(f) == \* mutant: AND status='FAILED' dropped
    /\ rows[f].status # "ABSENT"
    /\ rows' = [rows EXCEPT ![f] = RetryFileRow(@)]
    /\ UNCHANGED <<disk, up, pc, ref, path, verdict, taken, loads>>

RetryFile(f) ==
    /\ rows[f].status = "FAILED"
    /\ rows' = [rows EXCEPT ![f] = RetryFileRow(@)]
    /\ UNCHANGED <<disk, up, pc, ref, path, verdict, taken, loads>>
-----------------------------------------------------------------------------
\* A step of the handler that worker w is in, when the database answers.
Handle(w) ==
    \/ TryClaim(w) \/ MarkProcessing(w) \/ Execute(w)
    \/ MarkSuccess(w) \/ ArchiveKeep(w) \/ ArchiveDelete(w) \/ ArchiveMove(w)
    \/ ArchiveRaises(w) \/ MarkArchived(w) \/ MarkSkipped(w)
    \/ MarkRetry(w) \/ MarkFatal(w) \/ MarkRaised(w)
    \/ MoveToDeadLetter(w) \/ DeadLetterRaises(w) \/ Return(w)

ReliableNext ==
    \/ \E w \in Worker : Handle(w)
    \/ \E w \in Worker, f \in File : Take(w, f)
    \/ \E f \in File : Expire(f) \/ RetryFile(f)

Next ==
    \/ ReliableNext
    \/ \E w \in Worker : RepoRaises(w) \/ RepoAnswerLost(w)
    \/ \E i \in Instance : Crash(i) \/ Start(i)

Spec == Init /\ [][Next]_vars

\* No crash and no database error.  A thread that is in the handler is
\* scheduled again; nothing is assumed of operators, new refs and the clock.
ReliableSpec ==
    Init /\ [][ReliableNext]_vars /\ \A w \in Worker : WF_vars(Handle(w))
-----------------------------------------------------------------------------
(***************************************************************************)
(* Properties.                                                             *)
(***************************************************************************)
TypeOK ==
    /\ rows    \in [File -> Row]
    /\ disk    \in [File -> SUBSET Place]
    /\ up      \subseteq Instance
    /\ pc      \in [Worker -> PC]
    /\ ref     \in [Worker -> File \cup {NULL}]
    /\ path    \in [Worker -> {"null", "source", "archive"}]
    /\ verdict \in [Worker -> Seq({"success", "failure"})]
    /\ taken   \in [File -> {"no", "orphan", "stolen"}]
    /\ loads   \in [File -> Nat]

\* Every lease of f that was overtaken belonged to a worker that had already
\* stopped processing f.
NotStolen(f) == taken[f] # "stolen"

\* try_claim followed by mark_processing is a lock: two workers, of one instance
\* or of two, process the same file only when a lease ran out under a worker
\* that was still processing.
ExclusiveProcessing ==
    \A f \in File : NotStolen(f) =>
        \A w1, w2 \in Processors(f) : w1 = w2

RetryLimit == IF MaxRetries = 0 THEN 1 ELSE MaxRetries

\* A file is attempted at most max_retries times (once when it is 0), however
\* often its ref is queued and whichever instance takes it.
RetryBound ==
    \A f \in File : NotStolen(f) =>
        rows[f].retry_count <= RetryLimit

\* A row marked SUCCESS keeps that status: no duplicate ref, crash, failed
\* archive or operator's retry brings the file back.
SuccessIsFinal ==
    [][\A f \in File : rows[f].status = "SUCCESS" /\ NotStolen(f)' =>
           rows'[f].status = "SUCCESS"]_vars

\* The last copy of a file is removed only when its row says SUCCESS.
NoFileLost ==
    \A f \in File : disk[f] = {} /\ NotStolen(f) => rows[f].status = "SUCCESS"

\* Between the mark_failed that exhausts the retries and the move to the dead
\* letter directory no other worker gets hold of the file.
ExhaustedIsOurs ==
    \A w \in Worker : pc[w] = "dead_exhausted" /\ NotStolen(ref[w]) =>
        ~MayClaim(rows[ref[w]]) /\ Processors(ref[w]) = {}

\* A file's rows are loaded completely a second time only after an expired
\* lease was overtaken: a crash or database error before mark_success, or a
\* worker slower than its lease.
SecondLoadNeedsTakeover ==
    \A f \in File : loads[f] > 1 => taken[f] # "no"

\* A crash cannot strand the first attempt at a file: as long as no failure was
\* recorded, a claimed row carries a lease and can be claimed again when it ends.
FirstAttemptHasLease ==
    \A f \in File :
        /\ rows[f].status \in {"CLAIMED", "PROCESSING"}
        /\ rows[f].retry_count = 0
        => rows[f].claim_expires_at # "null"

\* The breaker never hears success and failure for the same ref, and at most
\* two failures: this is what WorkerPool may assume of its process_fn.
VerdictContract == \A w \in Worker : verdict[w] \in Verdicts

\* With one instance that stays up and a database that answers, every claim
\* reaches an outcome, unless a lease ran out under a worker still processing.
ClaimsResolve ==
    \A f \in File :
        rows[f].status \in {"CLAIMED", "PROCESSING"}
            ~> rows[f].status \notin {"CLAIMED", "PROCESSING"} \/ ~NotStolen(f)
-----------------------------------------------------------------------------
(***************************************************************************)
(* The inductive invariant behind the safety properties: IInv implies them *)
(* and every step preserves it (FileProcessorProofs).                      *)
(***************************************************************************)
InClaim(f) == rows[f].status \in {"CLAIMED", "PROCESSING"}

\* A worker that processes a file that was not stolen sees its own mark.
LockInv ==
    \A f \in File : NotStolen(f) =>
        /\ \A w \in Processors(f) : rows[f].status = "PROCESSING"
        /\ \A w1, w2 \in Processors(f) : w1 = w2

RetryInv ==
    \A f \in File : NotStolen(f) =>
        /\ rows[f].retry_count <= RetryLimit
        /\ InClaim(f) => rows[f].retry_count < RetryLimit

LeaseInv ==
    \A f \in File :
        /\ rows[f].status = "FAILED" =>
             rows[f].retry_count > 0 /\ rows[f].claim_expires_at = "null"
        /\ InClaim(f) /\ rows[f].retry_count = 0 => rows[f].claim_expires_at # "null"

\* While it archives, the worker's row still says SUCCESS.
ArchiveInv ==
    \A w \in Worker : pc[w] = "archive" /\ NotStolen(ref[w]) =>
        rows[ref[w]].status = "SUCCESS"

ExhaustedInv ==
    \A w \in Worker : pc[w] = "dead_exhausted" /\ NotStolen(ref[w]) =>
        /\ rows[ref[w]].status \in {"FAILED", "PENDING"}
        /\ rows[ref[w]].status = "FAILED" => rows[ref[w]].retry_count >= MaxRetries

\* A loaded file whose leases were never overtaken is SUCCESS, or about to be
\* marked, or left behind in PROCESSING.
LoadInv ==
    \A f \in File : taken[f] = "no" /\ loads[f] > 0 =>
        /\ loads[f] = 1
        /\ rows[f].status \in {"PROCESSING", "SUCCESS"}
        /\ \A w \in Processors(f) : pc[w] = "mark_success"

VerdictInv ==
    \A w \in Worker :
        /\ pc[w] \notin {"done", "dead_fatal"} => verdict[w] = <<>>
        /\ pc[w] = "dead_fatal" => verdict[w] = <<"failure">>
        /\ pc[w] = "done" => verdict[w] \in Verdicts

BusyInv == \A w \in Worker : pc[w] # "idle" => ref[w] \in File

IInv == /\ TypeOK /\ BusyInv /\ LockInv /\ RetryInv /\ LeaseInv /\ ArchiveInv
        /\ ExhaustedInv /\ LoadInv /\ NoFileLost /\ VerdictInv
-----------------------------------------------------------------------------
(***************************************************************************)
(* The promise to the rest of the system, FileLifecycle, and how the rows, *)
(* the labels and the history of a file are read as its state.             *)
(***************************************************************************)
StageOf(status) ==
    CASE status = "ABSENT"  -> "open"
      [] status = "FAILED"  -> "failed"
      [] status = "PENDING" -> "set_aside"
      [] status = "SUCCESS" -> "loaded"
      [] status = "SKIPPED" -> "skipped"
      [] OTHER              -> "held"

Lifecycle == INSTANCE FileLifecycle WITH
    stage    <- [f \in File |-> StageOf(rows[f].status)],
    attempts <- [f \in File |-> rows[f].retry_count],
    holders  <- [f \in File |-> Processors(f)],
    broken   <- [f \in File |-> taken[f] = "stolen"]

\* Every step of the handlers, the table, the clock, the operator and the crashes
\* is, for each file, a step of the lifecycle or none.
ImplementsLifecycle == Lifecycle!Spec
-----------------------------------------------------------------------------
(***************************************************************************)
(* What the documents say and the code does not do.                        *)
(***************************************************************************)
\* CONTEXT.md, ADR-2: the conditions on claimed_at and claim_expires_at agree
\* with the one on status, so that a claim always comes with its lease.
ClaimHasLease ==
    \A f \in File : rows[f].status = "CLAIMED" => rows[f].claim_expires_at # "null"
=============================================================================
