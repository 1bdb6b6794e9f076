-------------------------- MODULE ProcessedFileRepo --------------------------
(***************************************************************************)
(* The statements of infrastructure/processed_file_repo.py, as operators   *)
(* on one row of the table processed_files.  A row belongs to one key      *)
(* (task_id, file_path, file_mtime); each operator is what one SQL         *)
(* statement does to that row, so each is atomic.                          *)
(*                                                                         *)
(* Time is abstracted to what the statements compare: claim_expires_at is  *)
(* "null", in the "future" or in the "past" of the claimer's clock.        *)
(* claimed_at is written but never read by the program and is left out.    *)
(***************************************************************************)
EXTENDS Naturals

CONSTANTS Instance,    \* the values of instance_id
          NULL,        \* the SQL NULL of the column claimed_by
          MaxRetries,  \* max_retries of the task
          FoundRows    \* does the driver report matched rows, not changed ones?

ASSUME RepoAssumption ==
    /\ NULL \notin Instance
    /\ MaxRetries \in Nat
    /\ FoundRows \in BOOLEAN

Status == {"ABSENT", "PENDING", "CLAIMED", "PROCESSING",
           "SUCCESS", "FAILED", "SKIPPED"}

Row == [status           : Status,
        claimed_by       : Instance \cup {NULL},
        claim_expires_at : {"null", "future", "past"},
        retry_count      : Nat,
        archive_path     : {"null", "source", "archive"}]

NoRow == [status           |-> "ABSENT",
          claimed_by       |-> NULL,
          claim_expires_at |-> "null",
          retry_count      |-> 0,
          archive_path     |-> "null"]
-----------------------------------------------------------------------------
(***************************************************************************)
(* try_claim.  The condition is repeated in the IF of every column.  MySQL *)
(* assigns the columns of ON DUPLICATE KEY UPDATE from left to right and a *)
(* later expression reads the values assigned before it, so each Set below *)
(* evaluates the condition on the row its predecessor left.  A comparison  *)
(* with a NULL claim_expires_at is not true.  MaxRetries is the limit of   *)
(* the file's task; that a reload may change it is left out.               *)
(***************************************************************************)
MayClaimOneMore(r) == \* mutant: <= for <
    \/ r.status = "FAILED" /\ r.retry_count <= MaxRetries
    \/ r.status \in {"CLAIMED", "PROCESSING"} /\ r.claim_expires_at = "past"

MayClaim(r) ==
    \/ r.status = "FAILED" /\ r.retry_count < MaxRetries
    \/ r.status \in {"CLAIMED", "PROCESSING"} /\ r.claim_expires_at = "past"

SetStatusAlways(r)    == [r EXCEPT !.status = "CLAIMED"] \* mutant: no IF
SetStatus(r)          == IF MayClaim(r) THEN [r EXCEPT !.status = "CLAIMED"] ELSE r
SetClaimedBy(r, iid)  == IF MayClaim(r) THEN [r EXCEPT !.claimed_by = iid] ELSE r
SetClaimExpiresAt(r)  == IF MayClaim(r) THEN [r EXCEPT !.claim_expires_at = "future"] ELSE r

InsertRowNoExpiry(iid) == \* mutant: the lease is not inserted
    [NoRow EXCEPT !.status = "CLAIMED", !.claimed_by = iid]

InsertRow(iid) ==
    [NoRow EXCEPT !.status = "CLAIMED", !.claimed_by = iid, !.claim_expires_at = "future"]

OnDuplicateKeyUpdate(r, iid) == SetClaimExpiresAt(SetClaimedBy(SetStatus(r), iid))

TryClaimRow(r, iid) ==
    IF r.status = "ABSENT" THEN InsertRow(iid) ELSE OnDuplicateKeyUpdate(r, iid)

\* rowcount is 1 for an insert, 2 for a changed row, and for an unchanged row
\* 1 or 0 according to FoundRows.
TryClaimResult(r, iid) == TryClaimRow(r, iid) # r \/ FoundRows
-----------------------------------------------------------------------------
\* The WHERE clause of mark_processing, and the row it leaves.
MarkProcessingMatchesOwner(r, iid) == r.claimed_by = iid \* mutant: status not tested

MarkProcessingMatchesLeased(r, iid) == \* mutant: only under a running lease
    r.status = "CLAIMED" /\ r.claimed_by = iid /\ r.claim_expires_at = "future"

MarkProcessingMatches(r, iid) == r.status = "CLAIMED" /\ r.claimed_by = iid

MarkProcessingRow(r, iid) ==
    IF MarkProcessingMatches(r, iid) THEN [r EXCEPT !.status = "PROCESSING"] ELSE r

\* The next three match the key alone: neither claimed_by nor status is tested.
MarkSuccessRow(r) == [r EXCEPT !.status = "SUCCESS"]

MarkFailedRow(r) ==
    [r EXCEPT !.status = "FAILED", !.retry_count = @ + 1, !.claim_expires_at = "null"]

MarkSkippedRow(r) == [r EXCEPT !.status = "SKIPPED"]

MarkArchivedRow(r, path) ==
    IF r.status = "SUCCESS" THEN [r EXCEPT !.archive_path = path] ELSE r

\* The UPDATE of POST /api/v1/files/<id>/retry.
RetryFileRowQueued(r) == \* mutant: a status the column does not have
    [r EXCEPT !.status = "QUEUED", !.retry_count = 0,
              !.claim_expires_at = "null", !.claimed_by = NULL]

RetryFileRow(r) ==
    [r EXCEPT !.status = "PENDING", !.retry_count = 0,
              !.claim_expires_at = "null", !.claimed_by = NULL]
=============================================================================
