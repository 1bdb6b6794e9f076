------------------------ MODULE FileProcessorProofs ------------------------
(***************************************************************************)
(* Proofs about the claim protocol of FileProcessor, for any number of     *)
(* instances, workers and files, any max_retries and either meaning of     *)
(* rowcount.                                                               *)
(***************************************************************************)
EXTENDS FileProcessor, SequenceTheorems, TLAPS

USE RepoAssumption, ProcessorAssumption

\* Each statement of the repository leaves a row of the table's type.
LEMMA RowTypes ==
    ASSUME NEW r \in Row
    PROVE  /\ NoRow \in Row
           /\ \A iid \in Instance : TryClaimRow(r, iid) \in Row
           /\ \A iid \in Instance : MarkProcessingRow(r, iid) \in Row
           /\ MarkSuccessRow(r) \in Row
           /\ MarkFailedRow(r) \in Row
           /\ MarkSkippedRow(r) \in Row
           /\ RetryFileRow(r) \in Row
           /\ [r EXCEPT !.claim_expires_at = "past"] \in Row
           /\ \A p \in {"null", "source", "archive"} : MarkArchivedRow(r, p) \in Row
<1>1. NoRow \in Row /\ \A iid \in Instance : InsertRow(iid) \in Row
  BY DEF NoRow, InsertRow, Row, Status
<1>2. SetStatus(r) \in Row
  BY DEF SetStatus, Row, Status
<1>3. \A s \in Row, iid \in Instance : SetClaimedBy(s, iid) \in Row
  BY DEF SetClaimedBy, Row, Status
<1>4. \A s \in Row : SetClaimExpiresAt(s) \in Row
  BY DEF SetClaimExpiresAt, Row, Status
<1>5. \A iid \in Instance : TryClaimRow(r, iid) \in Row
  BY <1>1, <1>2, <1>3, <1>4 DEF TryClaimRow, OnDuplicateKeyUpdate
<1>6. (\A iid \in Instance : MarkProcessingRow(r, iid) \in Row) /\ MarkSuccessRow(r) \in Row
  BY DEF MarkProcessingRow, MarkSuccessRow, Row, Status
<1>7. MarkFailedRow(r) \in Row /\ MarkSkippedRow(r) \in Row
  <2>1. r.retry_count + 1 \in Nat
    BY DEF Row
  <2>2. \A m \in Nat : [r EXCEPT !.status = "FAILED", !.retry_count = m,
                                 !.claim_expires_at = "null"] \in Row
    BY DEF Row, Status
  <2>3. QED
    BY <2>1, <2>2 DEF MarkFailedRow, MarkSkippedRow, Row, Status
<1>8. RetryFileRow(r) \in Row /\ [r EXCEPT !.claim_expires_at = "past"] \in Row
  BY DEF RetryFileRow, Row, Status
<1>9. \A p \in {"null", "source", "archive"} : MarkArchivedRow(r, p) \in Row
  BY DEF MarkArchivedRow, Row, Status
<1>10. QED
  BY <1>1, <1>5, <1>6, <1>7, <1>8, <1>9

(***************************************************************************)
(* What try_claim does to a row, read off the left-to-right assignments: a *)
(* row that may not be claimed is left alone; a failed row becomes CLAIMED *)
(* and keeps owner and (missing) lease; an expired claim gets a new owner  *)
(* and a new lease.                                                        *)
(***************************************************************************)
LEMMA TryClaimCases ==
    ASSUME NEW r \in Row, NEW iid \in Instance
    PROVE  /\ r.status = "ABSENT" => TryClaimRow(r, iid) = InsertRow(iid)
           /\ r.status # "ABSENT" /\ ~MayClaim(r) => TryClaimRow(r, iid) = r
           /\ r.status = "FAILED" /\ r.claim_expires_at = "null" /\ MayClaim(r)
                => TryClaimRow(r, iid) = [r EXCEPT !.status = "CLAIMED"]
           /\ r.status \in {"CLAIMED", "PROCESSING"} /\ MayClaim(r)
                => TryClaimRow(r, iid) = [r EXCEPT !.status = "CLAIMED", !.claimed_by = iid,
                                                   !.claim_expires_at = "future"]
<1>1. r.status # "ABSENT" /\ ~MayClaim(r) => TryClaimRow(r, iid) = r
  BY DEF TryClaimRow, OnDuplicateKeyUpdate, SetStatus, SetClaimedBy, SetClaimExpiresAt
<1>2. ASSUME r.status = "FAILED", r.claim_expires_at = "null", MayClaim(r)
      PROVE  TryClaimRow(r, iid) = [r EXCEPT !.status = "CLAIMED"]
  BY <1>2 DEF TryClaimRow, OnDuplicateKeyUpdate, SetStatus, SetClaimedBy,
              SetClaimExpiresAt, MayClaim, Row
<1>3. ASSUME r.status \in {"CLAIMED", "PROCESSING"}, MayClaim(r)
      PROVE  TryClaimRow(r, iid) = [r EXCEPT !.status = "CLAIMED", !.claimed_by = iid,
                                             !.claim_expires_at = "future"]
  BY <1>3 DEF TryClaimRow, OnDuplicateKeyUpdate, SetStatus, SetClaimedBy,
              SetClaimExpiresAt, MayClaim, Row
<1>4. QED
  BY <1>1, <1>2, <1>3 DEF TryClaimRow
-----------------------------------------------------------------------------
\* A busy worker has a file, and its row is a row of the table.
LEMMA BusyFacts ==
    ASSUME TypeOK, BusyInv, NEW w \in Worker, pc[w] # "idle"
    PROVE  /\ ref[w] \in File /\ rows[ref[w]] \in Row /\ InstanceOf[w] \in Instance
           /\ disk[ref[w]] \in SUBSET Place
  BY DEF TypeOK, BusyInv

\* The case split on Next that the step lemmas share: what every action leaves
\* of TypeOK and BusyInv.
LEMMA TypeStep ==
    ASSUME TypeOK, BusyInv, [Next]_vars
    PROVE  TypeOK' /\ BusyInv'
<1> USE DEF TypeOK, BusyInv, PC, Processing, RepoCall
<1>1. ASSUME NEW w \in Worker, NEW f \in File, Take(w, f)
      PROVE  TypeOK' /\ BusyInv'
  BY <1>1 DEF Take, Goto
<1>2. ASSUME NEW w \in Worker, TryClaim(w)
      PROVE  TypeOK' /\ BusyInv'
  <2>1. rows' \in [File -> Row]
    BY <1>2, BusyFacts, RowTypes DEF TryClaim
  <2>2. TakenAfter(ref[w]) \in {"no", "orphan", "stolen"}
    BY <1>2, BusyFacts DEF TakenAfter, TryClaim
  <2>3. QED
    BY <1>2, <2>1, <2>2 DEF TryClaim, Goto
<1>3. ASSUME NEW w \in Worker, MarkProcessing(w)
      PROVE  TypeOK' /\ BusyInv'
  <2>1. rows' \in [File -> Row]
    BY <1>3, BusyFacts, RowTypes DEF MarkProcessing
  <2>2. QED
    BY <1>3, <2>1 DEF MarkProcessing, Goto
<1>4. ASSUME NEW w \in Worker, Execute(w)
      PROVE  TypeOK' /\ BusyInv'
  <2>1. loads' \in [File -> Nat]
    BY <1>4, BusyFacts DEF Execute
  <2>2. PICK o \in Outcomes(ref[w]) : Goto(w, o)
    BY <1>4 DEF Execute
  <2>3. o \in PC \ {"idle"}
    BY DEF Outcomes
  <2>4. QED
    BY <1>4, <2>1, <2>2, <2>3 DEF Execute, Goto
<1>5. ASSUME NEW w \in Worker, MarkSuccess(w)
      PROVE  TypeOK' /\ BusyInv'
  BY <1>5, BusyFacts, RowTypes DEF MarkSuccess, Goto
<1>6. ASSUME NEW w \in Worker, ArchiveKeep(w)
      PROVE  TypeOK' /\ BusyInv'
  BY <1>6 DEF ArchiveKeep, Goto
<1>7. ASSUME NEW w \in Worker, ArchiveDelete(w)
      PROVE  TypeOK' /\ BusyInv'
  <2>1. disk' \in [File -> SUBSET Place]
    BY <1>7, BusyFacts DEF ArchiveDelete
  <2>2. QED
    BY <1>7, <2>1 DEF ArchiveDelete, Goto, Record
<1>8. ASSUME NEW w \in Worker, ArchiveMove(w)
      PROVE  TypeOK' /\ BusyInv'
  <2>1. disk' \in [File -> SUBSET Place]
    BY <1>8, BusyFacts DEF ArchiveMove, Place
  <2>2. QED
    BY <1>8, <2>1 DEF ArchiveMove, Goto
<1>9. ASSUME NEW w \in Worker, ArchiveRaises(w) \/ DeadLetterRaises(w) \/ RepoRaises(w)
      PROVE  TypeOK' /\ BusyInv'
  <2>1. /\ pc[w] # "idle" /\ Raise(w)
        /\ UNCHANGED <<rows, disk, up, ref, path, taken, loads>>
    BY <1>9 DEF ArchiveRaises, DeadLetterRaises, RepoRaises
  <2>2. verdict' \in [Worker -> Seq({"success", "failure"})]
    BY <2>1 DEF Raise, Record
  <2>3. QED
    BY <2>1, <2>2 DEF Raise, Goto
<1>10. ASSUME NEW w \in Worker, MarkArchived(w)
       PROVE  TypeOK' /\ BusyInv'
  <2>1. rows' \in [File -> Row]
    BY <1>10, BusyFacts, RowTypes DEF MarkArchived
  <2>2. QED
    BY <1>10, <2>1 DEF MarkArchived, Goto, Record
<1>11. ASSUME NEW w \in Worker, MarkSkipped(w)
       PROVE  TypeOK' /\ BusyInv'
  BY <1>11, BusyFacts, RowTypes DEF MarkSkipped, Goto
<1>12. ASSUME NEW w \in Worker, MarkRetry(w)
       PROVE  TypeOK' /\ BusyInv'
  <2>1. rows' \in [File -> Row]
    BY <1>12, BusyFacts, RowTypes DEF MarkRetry
  <2>2. QED
    BY <1>12, <2>1 DEF MarkRetry, Goto
<1>13. ASSUME NEW w \in Worker, MarkFatal(w) \/ MarkRaised(w)
       PROVE  TypeOK' /\ BusyInv'
  <2>1. /\ pc[w] # "idle" /\ Record(w, "failure")
        /\ rows' = [rows EXCEPT ![ref[w]] = MarkFailedRow(@)]
        /\ Goto(w, "done") \/ Goto(w, "dead_fatal")
        /\ UNCHANGED <<disk, up, ref, path, taken, loads>>
    BY <1>13 DEF MarkFatal, MarkRaised
  <2>2. rows' \in [File -> Row]
    BY <2>1, BusyFacts, RowTypes
  <2>3. verdict' \in [Worker -> Seq({"success", "failure"})]
    BY <2>1 DEF Record
  <2>4. QED
    BY <2>1, <2>2, <2>3 DEF Goto
<1>14. ASSUME NEW w \in Worker, MoveToDeadLetter(w)
       PROVE  TypeOK' /\ BusyInv'
  <2>1. disk' \in [File -> SUBSET Place]
    <3>1. ref[w] \in File /\ disk[ref[w]] \in SUBSET Place
      BY <1>14, BusyFacts DEF MoveToDeadLetter
    <3>2. (disk[ref[w]] \ {"watch"}) \cup {"dead"} \in SUBSET Place
      BY <3>1 DEF Place
    <3>3. QED
      BY <1>14, <3>1, <3>2 DEF MoveToDeadLetter
  <2>2. QED
    BY <1>14, <2>1 DEF MoveToDeadLetter, Goto
<1>15. ASSUME NEW w \in Worker, Return(w)
       PROVE  TypeOK' /\ BusyInv'
  BY <1>15 DEF Return, Goto
<1>16. ASSUME NEW i \in Instance, Crash(i) \/ Start(i)
       PROVE  TypeOK' /\ BusyInv'
  <2>1. CASE Start(i)
    BY <2>1 DEF Start
  <2>2. CASE Crash(i)
    <3>1. verdict' \in [Worker -> Seq({"success", "failure"})]
      BY <2>2 DEF Crash
    <3>2. QED
      BY <2>2, <3>1 DEF Crash
  <2>3. QED
    BY <1>16, <2>1, <2>2
<1>17. ASSUME NEW f \in File, Expire(f)
       PROVE  TypeOK' /\ BusyInv'
  <2>1. rows' = [rows EXCEPT ![f] = [rows[f] EXCEPT !.claim_expires_at = "past"]]
    BY <1>17 DEF Expire
  <2>2. rows' \in [File -> Row]
    BY <2>1, RowTypes
  <2>3. QED
    BY <1>17, <2>2 DEF Expire
<1>18. ASSUME NEW f \in File, RetryFile(f)
       PROVE  TypeOK' /\ BusyInv'
  BY <1>18, RowTypes DEF RetryFile
<1>19. ASSUME NEW w \in Worker, RepoAnswerLost(w)
       PROVE  TypeOK' /\ BusyInv'
  <2>1. ref[w] \in File /\ rows[ref[w]] \in Row /\ InstanceOf[w] \in Instance
    BY <1>19, BusyFacts DEF RepoAnswerLost
  <2>2. Committed(w, rows[ref[w]]) \in Row
    BY <2>1, RowTypes DEF Committed
  <2>3. rows' \in [File -> Row]
    BY <1>19, <2>1, <2>2 DEF RepoAnswerLost
  <2>4. taken' \in [File -> {"no", "orphan", "stolen"}]
    BY <1>19, <2>1 DEF RepoAnswerLost, TakenAfter
  <2>5. verdict' \in [Worker -> Seq({"success", "failure"})]
    BY <1>19 DEF RepoAnswerLost, Raise, Record
  <2>6. QED
    BY <1>19, <2>1, <2>3, <2>4, <2>5 DEF RepoAnswerLost, Raise, Goto
<1>20. CASE UNCHANGED vars
  BY <1>20 DEF vars
<1>21. QED
  BY <1>1, <1>2, <1>3, <1>4, <1>5, <1>6, <1>7, <1>8, <1>9, <1>10, <1>11, <1>12,
     <1>13, <1>14, <1>15, <1>16, <1>17, <1>18, <1>19, <1>20
     DEF Next, ReliableNext, Handle
-----------------------------------------------------------------------------
(***************************************************************************)
(* The parts of IInv that relate a file's row to the workers that hold the *)
(* file, gathered per file: a step of the handler or of the operator       *)
(* touches one row, so the step lemmas look at one file.                   *)
(***************************************************************************)
Holds(w, f, labels) == ref[w] = f /\ pc[w] \in labels

FileLock(f) ==
    NotStolen(f) =>
        /\ \A w \in Worker : Holds(w, f, Processing) => rows[f].status = "PROCESSING"
        /\ \A w1, w2 \in Worker :
             Holds(w1, f, Processing) /\ Holds(w2, f, Processing) => w1 = w2

FileRetry(f) ==
    NotStolen(f) =>
        /\ rows[f].retry_count <= RetryLimit
        /\ InClaim(f) => rows[f].retry_count < RetryLimit

FileLease(f) ==
    /\ rows[f].status = "FAILED" =>
         rows[f].retry_count > 0 /\ rows[f].claim_expires_at = "null"
    /\ InClaim(f) /\ rows[f].retry_count = 0 => rows[f].claim_expires_at # "null"

FileAfter(f) ==
    NotStolen(f) =>
        \A w \in Worker :
            /\ Holds(w, f, {"archive"}) => rows[f].status = "SUCCESS"
            /\ Holds(w, f, {"dead_exhausted"}) =>
                 /\ rows[f].status \in {"FAILED", "PENDING"}
                 /\ rows[f].status = "FAILED" => rows[f].retry_count >= MaxRetries

FileLoad(f) ==
    taken[f] = "no" /\ loads[f] > 0 =>
        /\ loads[f] = 1
        /\ rows[f].status \in {"PROCESSING", "SUCCESS"}
        /\ \A w \in Worker : Holds(w, f, Processing) => pc[w] = "mark_success"

FileInv(f) ==
    FileLock(f) /\ FileRetry(f) /\ FileLease(f) /\ FileAfter(f) /\ FileLoad(f)

\* The per-file form says the same as the conjuncts of IInv.
LEMMA FileInvSplit ==
    TypeOK /\ BusyInv =>
        ((\A f \in File : FileInv(f)) <=>
             LockInv /\ RetryInv /\ LeaseInv /\ ArchiveInv /\ ExhaustedInv /\ LoadInv)
<1> SUFFICES ASSUME TypeOK, BusyInv
             PROVE  (\A f \in File : FileInv(f)) <=>
                LockInv /\ RetryInv /\ LeaseInv /\ ArchiveInv /\ ExhaustedInv /\ LoadInv
  OBVIOUS
<1>1. (\A f \in File : FileLock(f)) <=> LockInv
  BY DEF FileLock, LockInv, Processors, Holds
<1>2. (\A f \in File : FileRetry(f)) <=> RetryInv
  BY DEF FileRetry, RetryInv
<1>3. (\A f \in File : FileLease(f)) <=> LeaseInv
  BY DEF FileLease, LeaseInv
<1>4. (\A f \in File : FileAfter(f)) <=> ArchiveInv /\ ExhaustedInv
  <2>1. \A w \in Worker : pc[w] \in {"archive", "dead_exhausted"} => ref[w] \in File
    BY DEF BusyInv
  <2>2. QED
    BY <2>1 DEF FileAfter, ArchiveInv, ExhaustedInv, Holds
<1>5. (\A f \in File : FileLoad(f)) <=> LoadInv
  BY DEF FileLoad, LoadInv, Processors, Holds
<1>6. QED
  BY <1>1, <1>2, <1>3, <1>4, <1>5 DEF FileInv

\* A file whose row, history and holders a step leaves alone, or whose holders
\* only let go of it, keeps its invariant.
LEMMA FileFrame ==
    ASSUME NEW f \in File, FileInv(f),
           rows'[f] = rows[f], taken'[f] = taken[f], loads'[f] = loads[f],
           \A w \in Worker :
               /\ ref'[w] = f
               /\ pc'[w] \in Processing \cup {"archive", "dead_exhausted"}
               => ref[w] = f /\ pc'[w] = pc[w]
    PROVE  FileInv(f)'
<1>1. FileLock(f)' /\ FileAfter(f)' /\ FileLoad(f)'
  BY DEF FileInv, FileLock, FileAfter, FileLoad, Holds, NotStolen, Processing
<1>2. FileRetry(f)' /\ FileLease(f)'
  BY DEF FileInv, FileRetry, FileLease, InClaim, NotStolen, RetryLimit
<1>3. QED
  BY <1>1, <1>2 DEF FileInv

-----------------------------------------------------------------------------
(***************************************************************************)
(* A repository call that commits, whether or not its answer arrives.      *)
(***************************************************************************)
ClaimCall(w) ==
    \/ TryClaim(w)
    \/ pc[w] = "try_claim" /\ RepoAnswerLost(w)

ProcessingCall(w) ==
    \/ MarkProcessing(w)
    \/ pc[w] = "mark_processing" /\ RepoAnswerLost(w)

ArchivedCall(w) ==
    \/ MarkArchived(w)
    \/ pc[w] = "mark_archived" /\ RepoAnswerLost(w)

OutcomeCall(w) ==
    \/ MarkSuccess(w) \/ MarkSkipped(w)
    \/ MarkRetry(w) \/ MarkFatal(w) \/ MarkRaised(w)
    \/ pc[w] \in Processing /\ RepoAnswerLost(w)

\* A lost answer belongs to one of the four kinds of calls.
LEMMA CallSplit ==
    ASSUME NEW w \in Worker, RepoAnswerLost(w)
    PROVE  ClaimCall(w) \/ ProcessingCall(w) \/ ArchivedCall(w) \/ OutcomeCall(w)
  BY DEF RepoAnswerLost, RepoCall, ClaimCall, ProcessingCall, ArchivedCall, OutcomeCall

\* What try_claim leaves behind, answered or not.
LEMMA ClaimFacts ==
    ASSUME NEW w \in Worker, ClaimCall(w)
    PROVE  /\ pc[w] = "try_claim"
           /\ rows' = [rows EXCEPT ![ref[w]] = TryClaimRow(@, InstanceOf[w])]
           /\ taken' = [taken EXCEPT ![ref[w]] = TakenAfter(ref[w])]
           /\ loads' = loads /\ ref' = ref /\ disk' = disk
           /\ \E label \in {"mark_processing", "done"} : Goto(w, label)
  BY DEF ClaimCall, TryClaim, RepoAnswerLost, Committed, Raise

\* What mark_processing leaves behind: only a match lets the caller go on.
LEMMA ProcessingFacts ==
    ASSUME NEW w \in Worker, ProcessingCall(w)
    PROVE  /\ pc[w] = "mark_processing"
           /\ rows' = [rows EXCEPT ![ref[w]] = MarkProcessingRow(@, InstanceOf[w])]
           /\ taken' = taken /\ loads' = loads /\ ref' = ref /\ disk' = disk
           /\ \E label \in {"execute", "done"} :
                /\ Goto(w, label)
                /\ label = "execute" => MarkProcessingMatches(rows[ref[w]], InstanceOf[w])
  BY DEF ProcessingCall, MarkProcessing, RepoAnswerLost, Committed, Raise

\* What mark_archived leaves behind.
LEMMA ArchivedFacts ==
    ASSUME NEW w \in Worker, ArchivedCall(w)
    PROVE  /\ pc[w] = "mark_archived" /\ Goto(w, "done")
           /\ rows' = [rows EXCEPT ![ref[w]] = MarkArchivedRow(@, path[w])]
           /\ taken' = taken /\ loads' = loads /\ ref' = ref /\ disk' = disk
  BY DEF ArchivedCall, MarkArchived, RepoAnswerLost, Committed, Raise

\* A step of worker w on its file leaves the invariant of the other files.
LEMMA OtherFiles ==
    ASSUME TypeOK, NEW w \in Worker, NEW label, Goto(w, label), ref' = ref,
           NEW f \in File, f # ref[w], FileInv(f),
           rows'[f] = rows[f], taken'[f] = taken[f], loads'[f] = loads[f]
    PROVE  FileInv(f)'
<1>1. \A v \in Worker : ref[v] = f => pc'[v] = pc[v]
  BY DEF Goto, TypeOK
<1>2. QED
  BY <1>1, FileFrame

(***************************************************************************)
(* The call that records an outcome.  Unless the file was stolen, its      *)
(* caller is the only processor, so afterwards there is none; the row left *)
(* decides the rest.                                                       *)
(***************************************************************************)
LEMMA OutcomeStep ==
    ASSUME TypeOK, BusyInv, NEW w \in Worker, pc[w] \in Processing, FileInv(ref[w]),
           NEW label \in {"archive", "done", "dead_fatal", "dead_exhausted"},
           Goto(w, label), ref' = ref, taken' = taken, loads' = loads,
           NEW r, r \in Row, rows' = [rows EXCEPT ![ref[w]] = r],
           \/ /\ r.status = "SUCCESS" /\ r.retry_count = rows[ref[w]].retry_count
              /\ label \in {"archive", "done"}
           \/ /\ r.status = "SKIPPED" /\ r.retry_count = rows[ref[w]].retry_count
              /\ label = "done" /\ pc[w] # "mark_success"
           \/ /\ r.status = "FAILED" /\ r.retry_count = rows[ref[w]].retry_count + 1
              /\ r.claim_expires_at = "null" /\ pc[w] # "mark_success"
              /\ label # "archive"
              /\ label = "dead_exhausted" => r.retry_count >= MaxRetries
    PROVE  FileInv(ref[w])'
<1> DEFINE f == ref[w]
<1>1. f \in File /\ rows[f] \in Row /\ rows'[f] = r /\ Holds(w, f, Processing)
  BY BusyFacts DEF TypeOK, Processing, Holds
<1>2. ~Holds(w, f, Processing)'
  BY DEF Holds, Goto, TypeOK, Processing
<1>3. \A v \in Worker : v # w => pc'[v] = pc[v]
  BY DEF Goto, TypeOK
<1>4. NotStolen(f) => rows[f].status = "PROCESSING"
  BY <1>1 DEF FileInv, FileLock
<1>5. NotStolen(f) => \A v \in Worker : ~Holds(v, f, Processing)'
  BY <1>1, <1>2, <1>3 DEF FileInv, FileLock, Holds
<1>6. FileLock(f)'
  BY <1>5 DEF FileLock, NotStolen
<1>7. FileRetry(f)'
  <2>1. NotStolen(f) => rows[f].retry_count < RetryLimit
    BY <1>1, <1>4 DEF FileInv, FileRetry, InClaim
  <2>2. RetryLimit \in Nat /\ rows[f].retry_count \in Nat
    BY <1>1 DEF RetryLimit, Row
  <2>3. QED
    BY <1>1, <2>1, <2>2 DEF FileRetry, InClaim, NotStolen, RetryLimit
<1>8. FileLease(f)'
  <2>1. rows[f].retry_count \in Nat
    BY <1>1 DEF Row
  <2>2. QED
    BY <1>1, <2>1 DEF FileLease, InClaim
<1>9. FileAfter(f)'
  <2>1. NotStolen(f) => \A v \in Worker : ~Holds(v, f, {"archive"}) /\ ~Holds(v, f, {"dead_exhausted"})
    BY <1>4 DEF FileInv, FileAfter
  <2>2. QED
    BY <1>1, <1>3, <2>1 DEF FileAfter, NotStolen, Holds, Goto, TypeOK
<1>10. FileLoad(f)'
  <2>1. CASE taken[f] = "no" /\ loads[f] > 0
    <3>1. pc[w] = "mark_success" /\ loads[f] = 1 /\ NotStolen(f)
      BY <1>1, <2>1 DEF FileInv, FileLoad, NotStolen
    <3>2. QED
      BY <1>1, <1>5, <3>1 DEF FileLoad
  <2>2. CASE ~(taken[f] = "no" /\ loads[f] > 0)
    BY <2>2 DEF FileLoad
  <2>3. QED
    BY <2>1, <2>2
<1>11. QED
  BY <1>6, <1>7, <1>8, <1>9, <1>10 DEF FileInv

\* try_claim of a file that may not be claimed changes nothing; of a new or
\* failed file, there is no processor unless it was stolen; an expired lease
\* under a processor makes the file stolen.
LEMMA TryClaimStep ==
    ASSUME TypeOK, BusyInv, NEW w \in Worker, ClaimCall(w), FileInv(ref[w])
    PROVE  FileInv(ref[w])'
<1> DEFINE f == ref[w]
           r == rows[f]
<1>1. /\ f \in File /\ r \in Row /\ InstanceOf[w] \in Instance
      /\ rows'[f] = TryClaimRow(r, InstanceOf[w]) /\ taken'[f] = TakenAfter(f)
      /\ loads' = loads /\ ref' = ref
  BY ClaimFacts, BusyFacts DEF TypeOK
<1>2. \A v \in Worker : pc'[v] \in Processing \cup {"archive", "dead_exhausted"}
                            => pc'[v] = pc[v]
  BY ClaimFacts DEF Goto, TypeOK, Processing
<1>3. CASE ~MayClaim(r) /\ r.status # "ABSENT"
  <2>1. rows'[f] = r /\ taken'[f] = taken[f]
    BY <1>1, <1>3, TryClaimCases DEF TakenAfter, MayClaim
  <2>2. QED
    BY <1>1, <1>2, <2>1, FileFrame
<1>4. CASE r.status = "ABSENT"
  <2>1. rows'[f] = InsertRow(InstanceOf[w]) /\ taken'[f] = taken[f]
    BY <1>1, <1>4, TryClaimCases DEF TakenAfter
  <2>2. /\ rows'[f].status = "CLAIMED" /\ rows'[f].retry_count = 0
        /\ rows'[f].claim_expires_at = "future"
    BY <2>1 DEF InsertRow, NoRow
  <2>3. NotStolen(f) => \A v \in Worker : ~Holds(v, f, Processing)
    BY <1>4 DEF FileInv, FileLock
  <2>4. NotStolen(f) => \A v \in Worker : ~Holds(v, f, {"archive"}) /\ ~Holds(v, f, {"dead_exhausted"})
    BY <1>4 DEF FileInv, FileAfter
  <2>5. FileLock(f)' /\ FileAfter(f)'
    BY <1>1, <1>2, <2>1, <2>3, <2>4 DEF FileLock, FileAfter, Holds, NotStolen, Processing
  <2>6. FileRetry(f)' /\ FileLease(f)'
    BY <1>1, <2>2 DEF FileRetry, FileLease, RetryLimit
  <2>7. ~(taken[f] = "no" /\ loads[f] > 0)
    BY <1>4 DEF FileInv, FileLoad
  <2>8. QED
    BY <1>1, <2>1, <2>5, <2>6, <2>7 DEF FileInv, FileLoad
<1>5. CASE r.status = "FAILED" /\ MayClaim(r)
  <2>1. r.claim_expires_at = "null" /\ r.retry_count > 0 /\ r.retry_count < MaxRetries
    BY <1>5 DEF FileInv, FileLease, MayClaim
  <2>2. rows'[f] = [r EXCEPT !.status = "CLAIMED"] /\ taken'[f] = taken[f]
    BY <1>1, <1>5, <2>1, TryClaimCases DEF TakenAfter
  <2>3. rows'[f].status = "CLAIMED" /\ rows'[f].retry_count = r.retry_count
    BY <1>1, <2>2 DEF Row
  <2>4. NotStolen(f) => \A v \in Worker : ~Holds(v, f, Processing)
    BY <1>5 DEF FileInv, FileLock
  <2>5. NotStolen(f) => \A v \in Worker : ~Holds(v, f, {"archive"}) /\ ~Holds(v, f, {"dead_exhausted"})
    BY <1>1, <1>5, <2>1 DEF FileInv, FileAfter, Row
  <2>6. FileLock(f)' /\ FileAfter(f)'
    BY <1>1, <1>2, <2>2, <2>4, <2>5 DEF FileLock, FileAfter, Holds, NotStolen, Processing
  <2>7. FileRetry(f)' /\ FileLease(f)'
    BY <1>1, <2>1, <2>3 DEF FileRetry, FileLease, RetryLimit, Row
  <2>8. ~(taken[f] = "no" /\ loads[f] > 0)
    BY <1>5 DEF FileInv, FileLoad
  <2>9. QED
    BY <1>1, <2>2, <2>6, <2>7, <2>8 DEF FileInv, FileLoad
<1>6. CASE r.status \in {"CLAIMED", "PROCESSING"} /\ MayClaim(r)
  <2>1. /\ rows'[f].status = "CLAIMED" /\ rows'[f].retry_count = r.retry_count
        /\ rows'[f].claim_expires_at = "future"
    <3>1. rows'[f] = [r EXCEPT !.status = "CLAIMED", !.claimed_by = InstanceOf[w],
                               !.claim_expires_at = "future"]
      BY <1>1, <1>6, TryClaimCases
    <3>2. QED
      BY <1>1, <3>1 DEF Row
  <2>2. /\ taken'[f] \in {"orphan", "stolen"}
        /\ NotStolen(f)' => NotStolen(f) /\ Processors(f) = {}
    BY <1>1, <1>6 DEF TakenAfter, NotStolen, MayClaim
  <2>3. NotStolen(f)' => \A v \in Worker : ~Holds(v, f, Processing)
    BY <2>2 DEF Processors, Holds
  <2>4. NotStolen(f) => \A v \in Worker : ~Holds(v, f, {"archive"}) /\ ~Holds(v, f, {"dead_exhausted"})
    BY <1>6 DEF FileInv, FileAfter
  <2>5. FileLock(f)' /\ FileAfter(f)'
    BY <1>1, <1>2, <2>2, <2>3, <2>4 DEF FileLock, FileAfter, Holds, Processing
  <2>6. FileRetry(f)' /\ FileLease(f)'
    BY <1>1, <1>6, <2>1, <2>2 DEF FileInv, FileRetry, FileLease, InClaim, RetryLimit
  <2>7. QED
    BY <1>1, <2>2, <2>5, <2>6 DEF FileInv, FileLoad
<1>7. QED
  BY <1>3, <1>4, <1>5, <1>6 DEF MayClaim

\* mark_processing succeeds only on a CLAIMED row, which has no processor
\* unless the file was stolen.
LEMMA MarkProcessingStep ==
    ASSUME TypeOK, BusyInv, NEW w \in Worker, ProcessingCall(w), FileInv(ref[w])
    PROVE  FileInv(ref[w])'
<1> DEFINE f == ref[w]
           r == rows[f]
<1>1. /\ f \in File /\ r \in Row /\ taken' = taken /\ loads' = loads /\ ref' = ref
      /\ rows'[f] = MarkProcessingRow(r, InstanceOf[w])
  BY ProcessingFacts, BusyFacts DEF TypeOK
<1>2. /\ \A v \in Worker : v # w => pc'[v] = pc[v]
      /\ pc'[w] \in {"execute", "done"}
      /\ pc'[w] = "execute" => MarkProcessingMatches(r, InstanceOf[w])
  BY ProcessingFacts DEF Goto, TypeOK
<1>3. CASE ~MarkProcessingMatches(r, InstanceOf[w])
  <2>1. rows'[f] = r /\ pc'[w] = "done"
    BY <1>1, <1>2, <1>3 DEF MarkProcessingRow
  <2>2. QED
    BY <1>1, <1>2, <2>1, FileFrame DEF Processing
<1>4. CASE MarkProcessingMatches(r, InstanceOf[w])
  <2>1. /\ r.status = "CLAIMED" /\ rows'[f].status = "PROCESSING"
        /\ rows'[f].retry_count = r.retry_count
        /\ rows'[f].claim_expires_at = r.claim_expires_at
    BY <1>1, <1>4 DEF MarkProcessingRow, MarkProcessingMatches, Row
  <2>2. NotStolen(f) => \A v \in Worker : ~Holds(v, f, Processing)
    BY <2>1 DEF FileInv, FileLock
  <2>3. NotStolen(f) => \A v \in Worker : ~Holds(v, f, {"archive"}) /\ ~Holds(v, f, {"dead_exhausted"})
    BY <2>1 DEF FileInv, FileAfter
  <2>4. FileLock(f)' /\ FileAfter(f)'
    BY <1>1, <1>2, <2>1, <2>2, <2>3 DEF FileLock, FileAfter, Holds, NotStolen
  <2>5. FileRetry(f)' /\ FileLease(f)'
    BY <1>1, <2>1 DEF FileInv, FileRetry, FileLease, InClaim, NotStolen, RetryLimit
  <2>6. ~(taken[f] = "no" /\ loads[f] > 0)
    BY <2>1 DEF FileInv, FileLoad
  <2>7. QED
    BY <1>1, <2>4, <2>5, <2>6 DEF FileInv, FileLoad
<1>5. QED
  BY <1>3, <1>4

\* pipeline.execute moves its caller from one processing label to another.  A
\* file that is loaded here for the second time was overtaken before.
LEMMA ExecuteStep ==
    ASSUME TypeOK, BusyInv, NEW w \in Worker, Execute(w), FileInv(ref[w])
    PROVE  FileInv(ref[w])'
<1> DEFINE f == ref[w]
<1>1. /\ f \in File /\ rows' = rows /\ taken' = taken /\ ref' = ref
      /\ pc[w] = "execute" /\ Holds(w, f, Processing)
  BY BusyFacts DEF Execute, Holds, Processing
<1>2. PICK o \in Outcomes(f) :
          /\ Goto(w, o)
          /\ loads' = IF o = "mark_success" /\ loads[f] < LoadsCap
                      THEN [loads EXCEPT ![f] = @ + 1] ELSE loads
  BY DEF Execute
<1>3. o \in Processing \ {"execute"} /\ pc'[w] = o /\ \A v \in Worker : v # w => pc'[v] = pc[v]
  BY <1>2 DEF Outcomes, Goto, TypeOK, Processing
<1>4. FileLock(f)' /\ FileAfter(f)'
  BY <1>1, <1>3 DEF FileInv, FileLock, FileAfter, Holds, NotStolen, Processing
<1>5. FileRetry(f)' /\ FileLease(f)'
  BY <1>1 DEF FileInv, FileRetry, FileLease, InClaim, NotStolen, RetryLimit
<1>6. FileLoad(f)'
  <2>1. CASE taken[f] = "no"
    <3>1. loads[f] = 0
      BY <1>1, <2>1 DEF FileInv, FileLoad, TypeOK
    <3>2. loads'[f] > 0 => loads'[f] = 1 /\ o = "mark_success"
      BY <1>1, <1>2, <3>1 DEF TypeOK
    <3>3. rows[f].status = "PROCESSING"
      BY <1>1, <2>1 DEF FileInv, FileLock, NotStolen
    <3>4. \A v \in Worker : Holds(v, f, Processing)' => v = w
      BY <1>1, <1>3, <2>1 DEF FileInv, FileLock, NotStolen, Holds
    <3>5. QED
      BY <1>1, <1>3, <3>2, <3>3, <3>4 DEF FileLoad
  <2>2. CASE taken[f] # "no"
    BY <1>1, <2>2 DEF FileLoad
  <2>3. QED
    BY <2>1, <2>2
<1>7. QED
  BY <1>4, <1>5, <1>6 DEF FileInv

\* The statements outside the lock: mark_archived keeps status, count and lease.
LEMMA MarkArchivedStep ==
    ASSUME TypeOK, BusyInv, NEW w \in Worker, ArchivedCall(w), FileInv(ref[w])
    PROVE  FileInv(ref[w])'
<1> DEFINE f == ref[w]
<1>1. /\ f \in File /\ rows[f] \in Row /\ taken' = taken /\ loads' = loads /\ ref' = ref
      /\ rows'[f] = MarkArchivedRow(rows[f], path[w])
  BY ArchivedFacts, BusyFacts DEF TypeOK
<1>2. /\ rows'[f].status = rows[f].status /\ rows'[f].retry_count = rows[f].retry_count
      /\ rows'[f].claim_expires_at = rows[f].claim_expires_at
  BY <1>1 DEF MarkArchivedRow, Row
<1>3. \A v \in Worker : pc'[v] \in Processing \cup {"archive", "dead_exhausted"}
                            => pc'[v] = pc[v]
  BY ArchivedFacts DEF Goto, TypeOK, Processing
<1>4. FileLock(f)' /\ FileAfter(f)' /\ FileLoad(f)'
  BY <1>1, <1>2, <1>3 DEF FileInv, FileLock, FileAfter, FileLoad, Holds, NotStolen, Processing
<1>5. FileRetry(f)' /\ FileLease(f)'
  BY <1>1, <1>2 DEF FileInv, FileRetry, FileLease, InClaim, NotStolen, RetryLimit
<1>6. QED
  BY <1>4, <1>5 DEF FileInv

\* The end of a lease, and the operator's retry of a failed file.
LEMMA TableStep ==
    ASSUME TypeOK, NEW f \in File, Expire(f) \/ RetryFile(f), NEW g \in File, FileInv(g)
    PROVE  FileInv(g)'
<1> DEFINE r == rows[f]
<1>1. taken' = taken /\ loads' = loads /\ ref' = ref /\ pc' = pc /\ r \in Row
  BY DEF Expire, RetryFile, TypeOK
<1>2. CASE g # f
  BY <1>1, <1>2, FileFrame DEF Expire, RetryFile, TypeOK
<1>3. CASE g = f /\ Expire(f)
  <2>1. rows'[f] = [r EXCEPT !.claim_expires_at = "past"] /\ r.claim_expires_at = "future"
    BY <1>3 DEF Expire, TypeOK
  <2>2. /\ rows'[f].status = r.status /\ rows'[f].retry_count = r.retry_count
        /\ rows'[f].claim_expires_at = "past"
    BY <1>1, <2>1 DEF Row
  <2>3. FileLock(f)' /\ FileAfter(f)' /\ FileLoad(f)'
    BY <1>1, <1>3, <2>2 DEF FileInv, FileLock, FileAfter, FileLoad, Holds, NotStolen
  <2>4. FileRetry(f)' /\ FileLease(f)'
    BY <1>1, <1>3, <2>1, <2>2 DEF FileInv, FileRetry, FileLease, InClaim, NotStolen, RetryLimit
  <2>5. QED
    BY <1>3, <2>3, <2>4 DEF FileInv
<1>4. CASE g = f /\ RetryFile(f)
  <2>1. rows'[f] = RetryFileRow(r) /\ r.status = "FAILED"
    BY <1>4 DEF RetryFile, TypeOK
  <2>2. rows'[f].status = "PENDING" /\ rows'[f].retry_count = 0
    BY <1>1, <2>1 DEF RetryFileRow, Row
  <2>3. FileLock(f)' /\ FileAfter(f)' /\ FileLoad(f)'
    BY <1>1, <1>4, <2>1, <2>2 DEF FileInv, FileLock, FileAfter, FileLoad, Holds, NotStolen
  <2>4. FileRetry(f)' /\ FileLease(f)'
    BY <1>1, <2>2 DEF FileRetry, FileLease, InClaim, RetryLimit
  <2>5. QED
    BY <1>4, <2>3, <2>4 DEF FileInv
<1>5. QED
  BY <1>2, <1>3, <1>4

\* Steps that touch no row and take no file into processing.
QuietStep(w) ==
    \/ \E f \in File : Take(w, f)
    \/ ArchiveKeep(w) \/ ArchiveDelete(w) \/ ArchiveMove(w) \/ ArchiveRaises(w)
    \/ MoveToDeadLetter(w) \/ DeadLetterRaises(w) \/ RepoRaises(w) \/ Return(w)

\* A quiet step leaves table and history, and nobody enters a label that the
\* per-file invariant speaks of.
LEMMA QuietFacts ==
    ASSUME TypeOK, NEW w \in Worker, QuietStep(w)
    PROVE  /\ rows' = rows /\ taken' = taken /\ loads' = loads
           /\ \A v \in Worker :
                pc'[v] \in Processing \cup {"archive", "dead_exhausted"}
                    => ref'[v] = ref[v] /\ pc'[v] = pc[v]
<1>1. rows' = rows /\ taken' = taken /\ loads' = loads
  BY DEF QuietStep, Take, ArchiveKeep, ArchiveDelete, ArchiveMove, ArchiveRaises,
         MoveToDeadLetter, DeadLetterRaises, RepoRaises, Return
<1>2. \E label \in {"try_claim", "done", "mark_archived", "idle"} : Goto(w, label)
  BY DEF QuietStep, Take, ArchiveKeep, ArchiveDelete, ArchiveMove, ArchiveRaises,
         MoveToDeadLetter, DeadLetterRaises, RepoRaises, Return, Raise
<1>3. \A v \in Worker : v # w => ref'[v] = ref[v]
  BY DEF QuietStep, Take, ArchiveKeep, ArchiveDelete, ArchiveMove, ArchiveRaises,
         MoveToDeadLetter, DeadLetterRaises, RepoRaises, Return, TypeOK
<1>4. QED
  BY <1>1, <1>2, <1>3 DEF Goto, TypeOK, Processing

\* The kinds of steps that the lemmas below distinguish.
LEMMA StepCases ==
    ASSUME [Next]_vars
    PROVE  \/ \E w \in Worker : \/ QuietStep(w) \/ Execute(w) \/ OutcomeCall(w)
                                \/ ClaimCall(w) \/ ProcessingCall(w) \/ ArchivedCall(w)
           \/ \E i \in Instance : Crash(i) \/ Start(i)
           \/ \E f \in File : Expire(f) \/ RetryFile(f)
           \/ UNCHANGED vars
<1>1. ASSUME NEW w \in Worker,
             Handle(w) \/ RepoRaises(w) \/ RepoAnswerLost(w) \/ \E f \in File : Take(w, f)
      PROVE  \/ QuietStep(w) \/ Execute(w) \/ OutcomeCall(w)
             \/ ClaimCall(w) \/ ProcessingCall(w) \/ ArchivedCall(w)
  <2>1. CASE RepoAnswerLost(w)
    BY <2>1, CallSplit
  <2>2. CASE RepoRaises(w) \/ \E f \in File : Take(w, f)
    BY <2>2 DEF QuietStep
  <2>3. CASE Handle(w)
    BY <2>3, Zenon
       DEF Handle, QuietStep, OutcomeCall, ClaimCall, ProcessingCall, ArchivedCall
  <2>4. QED
    BY <1>1, <2>1, <2>2, <2>3
<1>2. QED
  BY <1>1 DEF Next, ReliableNext

\* The calls that record an outcome, as OutcomeStep needs them.
LEMMA OutcomeFacts ==
    ASSUME TypeOK, BusyInv, NEW w \in Worker, OutcomeCall(w)
    PROVE  /\ pc[w] \in Processing /\ ref' = ref /\ taken' = taken /\ loads' = loads
           /\ disk' = disk
           /\ \E label \in {"archive", "done", "dead_fatal", "dead_exhausted"}, r \in Row :
                /\ Goto(w, label) /\ rows' = [rows EXCEPT ![ref[w]] = r]
                /\ \/ /\ r.status = "SUCCESS" /\ r.retry_count = rows[ref[w]].retry_count
                      /\ label \in {"archive", "done"}
                   \/ /\ r.status = "SKIPPED" /\ r.retry_count = rows[ref[w]].retry_count
                      /\ label = "done" /\ pc[w] # "mark_success"
                   \/ /\ r.status = "FAILED" /\ r.retry_count = rows[ref[w]].retry_count + 1
                      /\ r.claim_expires_at = "null" /\ pc[w] # "mark_success"
                      /\ label # "archive"
                      /\ label = "dead_exhausted" => r.retry_count >= MaxRetries
<1> DEFINE r0 == rows[ref[w]]
<1>1. /\ pc[w] \in Processing /\ pc[w] # "idle"
      /\ ref' = ref /\ taken' = taken /\ loads' = loads /\ disk' = disk
  BY DEF OutcomeCall, MarkSuccess, MarkSkipped, MarkRetry, MarkFatal, MarkRaised,
         RepoAnswerLost, Processing
<1>2. r0 \in Row
  BY <1>1, BusyFacts
<1>3. /\ MarkFailedRow(r0) \in Row /\ MarkFailedRow(r0).status = "FAILED"
      /\ MarkFailedRow(r0).retry_count = r0.retry_count + 1
      /\ MarkFailedRow(r0).claim_expires_at = "null"
  <2>1. MarkFailedRow(r0) \in Row
    BY <1>2, RowTypes
  <2>2. QED
    BY <1>2, <2>1 DEF MarkFailedRow, Row
<1>4. /\ MarkSuccessRow(r0) \in Row /\ MarkSuccessRow(r0).status = "SUCCESS"
       /\ MarkSuccessRow(r0).retry_count = r0.retry_count
  <2>1. MarkSuccessRow(r0) \in Row
    BY <1>2, RowTypes
  <2>2. QED
    BY <1>2, <2>1 DEF MarkSuccessRow, Row
<1>5. /\ MarkSkippedRow(r0) \in Row /\ MarkSkippedRow(r0).status = "SKIPPED"
       /\ MarkSkippedRow(r0).retry_count = r0.retry_count
  <2>1. MarkSkippedRow(r0) \in Row
    BY <1>2, RowTypes
  <2>2. QED
    BY <1>2, <2>1 DEF MarkSkippedRow, Row
<1>6. CASE MarkSuccess(w)
  BY <1>1, <1>6, <1>4 DEF MarkSuccess
<1>7. CASE MarkSkipped(w)
  BY <1>1, <1>7, <1>5 DEF MarkSkipped
<1>8. CASE MarkRetry(w)
  <2>1. PICK label \in {"dead_exhausted", "done"} :
            /\ Goto(w, label)
            /\ label = "dead_exhausted" => MarkFailedRow(r0).retry_count >= MaxRetries
    BY <1>8 DEF MarkRetry
  <2>2. pc[w] = "mark_retry" /\ rows' = [rows EXCEPT ![ref[w]] = MarkFailedRow(r0)]
    BY <1>8 DEF MarkRetry
  <2>3. QED
    BY <1>1, <1>3, <2>1, <2>2
<1>9. CASE MarkFatal(w)
  BY <1>1, <1>3, <1>9 DEF MarkFatal
<1>10. CASE MarkRaised(w)
  BY <1>1, <1>3, <1>10 DEF MarkRaised
<1>11. CASE pc[w] \in Processing /\ RepoAnswerLost(w)
  <2>1. /\ pc[w] \in Processing \ {"execute"} /\ Goto(w, "done")
        /\ rows' = [rows EXCEPT ![ref[w]] = Committed(w, r0)]
    BY <1>11 DEF RepoAnswerLost, RepoCall, Raise
  <2>2. CASE pc[w] = "mark_success"
    BY <1>1, <1>4, <2>1, <2>2 DEF Committed
  <2>3. CASE pc[w] = "mark_skipped"
    BY <1>1, <1>5, <2>1, <2>3 DEF Committed
  <2>4. CASE pc[w] \in {"mark_retry", "mark_fatal", "mark_raised"}
    BY <1>1, <1>3, <2>1, <2>4 DEF Committed
  <2>5. QED
    BY <2>1, <2>2, <2>3, <2>4 DEF Processing
<1>12. QED
  BY <1>6, <1>7, <1>8, <1>9, <1>10, <1>11 DEF OutcomeCall

\* Every step preserves the per-file invariant of every file.
LEMMA FileInvStep ==
    ASSUME TypeOK, BusyInv, [Next]_vars, \A f \in File : FileInv(f)
    PROVE  \A f \in File : FileInv(f)'
<1> TAKE g \in File
<1>1. ASSUME NEW w \in Worker, QuietStep(w)
      PROVE  FileInv(g)'
  BY <1>1, QuietFacts, FileFrame
<1>2. ASSUME NEW w \in Worker, ClaimCall(w) \/ ProcessingCall(w) \/ Execute(w) \/ ArchivedCall(w)
      PROVE  FileInv(g)'
  <2>1. ref' = ref /\ ref[w] \in File
    BY <1>2, ClaimFacts, ProcessingFacts, ArchivedFacts, BusyFacts DEF Execute
  <2>2. CASE g = ref[w]
    BY <1>2, <2>1, <2>2, TryClaimStep, MarkProcessingStep, ExecuteStep, MarkArchivedStep
  <2>3. CASE g # ref[w]
    <3>1. rows'[g] = rows[g] /\ taken'[g] = taken[g] /\ loads'[g] = loads[g]
      BY <1>2, <2>3, ClaimFacts, ProcessingFacts, ArchivedFacts DEF Execute, TypeOK
    <3>2. \E label : Goto(w, label)
      BY <1>2, ClaimFacts, ProcessingFacts, ArchivedFacts DEF Execute
    <3>3. QED
      BY <2>1, <2>3, <3>1, <3>2, OtherFiles
  <2>4. QED
    BY <2>2, <2>3
<1>3. ASSUME NEW w \in Worker, OutcomeCall(w)
      PROVE  FileInv(g)'
  <2>1. PICK label \in {"archive", "done", "dead_fatal", "dead_exhausted"}, r \in Row :
            /\ Goto(w, label) /\ rows' = [rows EXCEPT ![ref[w]] = r]
            /\ \/ /\ r.status = "SUCCESS" /\ r.retry_count = rows[ref[w]].retry_count
                  /\ label \in {"archive", "done"}
               \/ /\ r.status = "SKIPPED" /\ r.retry_count = rows[ref[w]].retry_count
                  /\ label = "done" /\ pc[w] # "mark_success"
               \/ /\ r.status = "FAILED" /\ r.retry_count = rows[ref[w]].retry_count + 1
                  /\ r.claim_expires_at = "null" /\ pc[w] # "mark_success"
                  /\ label # "archive"
                  /\ label = "dead_exhausted" => r.retry_count >= MaxRetries
    BY <1>3, OutcomeFacts
  <2>2. pc[w] \in Processing /\ ref' = ref /\ taken' = taken /\ loads' = loads
    BY <1>3, OutcomeFacts
  <2>3. ref[w] \in File
    BY <2>2, BusyFacts DEF Processing
  <2>4. FileInv(ref[w])'
    BY <2>1, <2>2, <2>3, OutcomeStep
  <2>5. CASE g # ref[w]
    BY <2>1, <2>2, <2>5, OtherFiles DEF TypeOK
  <2>6. QED
    BY <2>2, <2>4, <2>5
<1>4. ASSUME NEW i \in Instance, Crash(i) \/ Start(i)
      PROVE  FileInv(g)'
  <2>1. rows' = rows /\ taken' = taken /\ loads' = loads
    BY <1>4 DEF Crash, Start
  <2>2. \A v \in Worker : pc'[v] \in Processing \cup {"archive", "dead_exhausted"}
                              => ref'[v] = ref[v] /\ pc'[v] = pc[v]
    BY <1>4 DEF Crash, Start, Processing
  <2>3. QED
    BY <2>1, <2>2, FileFrame
<1>5. ASSUME NEW f \in File, Expire(f) \/ RetryFile(f)
      PROVE  FileInv(g)'
  BY <1>5, TableStep
<1>6. CASE UNCHANGED vars
  BY <1>6, FileFrame DEF vars
<1>7. QED
  BY <1>1, <1>2, <1>3, <1>4, <1>5, <1>6, StepCases
-----------------------------------------------------------------------------
\* No step takes a file out of SUCCESS unless it was stolen: only a processor
\* writes an outcome, and a processor's row says PROCESSING.
LEMMA SuccessStep ==
    ASSUME TypeOK, BusyInv, [Next]_vars, NEW f \in File, FileInv(f),
           rows[f].status = "SUCCESS", NotStolen(f)'
    PROVE  rows'[f].status = "SUCCESS"
<1>1. ASSUME NEW w \in Worker, ClaimCall(w)
      PROVE  rows'[f].status = "SUCCESS"
  <2>1. rows[f] \in Row /\ InstanceOf[w] \in Instance /\ ~MayClaim(rows[f])
    BY DEF TypeOK, MayClaim
  <2>2. TryClaimRow(rows[f], InstanceOf[w]) = rows[f]
    BY <2>1, TryClaimCases
  <2>3. rows'[f] = rows[f] \/ rows'[f] = TryClaimRow(rows[f], InstanceOf[w])
    BY <1>1, ClaimFacts DEF TypeOK
  <2>4. QED
    BY <2>2, <2>3
<1>2. ASSUME NEW w \in Worker, ProcessingCall(w)
      PROVE  rows'[f].status = "SUCCESS"
  <2>1. rows' = [rows EXCEPT ![ref[w]] = MarkProcessingRow(@, InstanceOf[w])]
    BY <1>2, ProcessingFacts
  <2>2. rows'[f] = rows[f] \/ rows'[f] = MarkProcessingRow(rows[f], InstanceOf[w])
    BY <2>1 DEF TypeOK
  <2>3. MarkProcessingRow(rows[f], InstanceOf[w]) = rows[f]
    BY DEF MarkProcessingRow, MarkProcessingMatches
  <2>4. QED
    BY <2>2, <2>3
<1>3. ASSUME NEW w \in Worker, OutcomeCall(w)
      PROVE  rows'[f].status = "SUCCESS"
  <2>1. pc[w] \in Processing /\ taken' = taken /\ \E r \in Row : rows' = [rows EXCEPT ![ref[w]] = r]
    BY <1>3, OutcomeFacts
  <2>2. ref[w] # f
    BY <2>1 DEF FileInv, FileLock, Holds, NotStolen
  <2>3. ASSUME NEW r \in Row, rows' = [rows EXCEPT ![ref[w]] = r]
        PROVE  rows'[f] = rows[f]
    BY <2>2, <2>3 DEF TypeOK
  <2>4. rows'[f] = rows[f]
    BY <2>1, <2>3
  <2>5. QED
    BY <2>4
<1>4. ASSUME NEW w \in Worker, ArchivedCall(w)
      PROVE  rows'[f].status = "SUCCESS"
  <2>1. rows'[f] = rows[f] \/ rows'[f] = [rows[f] EXCEPT !.archive_path = path[w]]
    <3>1. rows' = [rows EXCEPT ![ref[w]] = MarkArchivedRow(@, path[w])]
      BY <1>4, ArchivedFacts
    <3>2. rows'[f] = rows[f] \/ rows'[f] = MarkArchivedRow(rows[f], path[w])
      BY <3>1 DEF TypeOK
    <3>3. QED
      BY <3>2 DEF MarkArchivedRow
  <2>2. QED
    BY <2>1 DEF TypeOK, Row
<1>5. ASSUME NEW w \in Worker, QuietStep(w) \/ Execute(w)
      PROVE  rows'[f].status = "SUCCESS"
  BY <1>5, QuietFacts DEF Execute
<1>6. ASSUME NEW i \in Instance, Crash(i) \/ Start(i)
      PROVE  rows'[f].status = "SUCCESS"
  BY <1>6 DEF Crash, Start
<1>7. ASSUME NEW g \in File, Expire(g)
      PROVE  rows'[f].status = "SUCCESS"
  <2>1. rows'[f] = rows[f] \/ rows'[f] = [rows[f] EXCEPT !.claim_expires_at = "past"]
    BY <1>7 DEF Expire, TypeOK
  <2>2. QED
    BY <2>1 DEF TypeOK, Row
<1>8. ASSUME NEW g \in File, RetryFile(g)
      PROVE  rows'[f].status = "SUCCESS"
  BY <1>8 DEF RetryFile, TypeOK
<1>9. CASE UNCHANGED vars
  BY <1>9 DEF vars
<1>10. QED
  BY <1>1, <1>2, <1>3, <1>4, <1>5, <1>6, <1>7, <1>8, <1>9, StepCases

\* A file once stolen stays so.
LEMMA StolenStep ==
    ASSUME TypeOK, BusyInv, [Next]_vars, NEW f \in File, NotStolen(f)'
    PROVE  NotStolen(f)
<1>1. ASSUME NEW w \in Worker, ClaimCall(w)
      PROVE  NotStolen(f)
  BY <1>1, ClaimFacts, BusyFacts DEF TakenAfter, NotStolen, TypeOK
<1>2. ASSUME NEW w \in Worker, QuietStep(w) \/ ProcessingCall(w) \/ Execute(w) \/ ArchivedCall(w)
      PROVE  NotStolen(f)
  BY <1>2, QuietFacts, ProcessingFacts, ArchivedFacts DEF Execute, NotStolen
<1>3. ASSUME NEW w \in Worker, OutcomeCall(w)
      PROVE  NotStolen(f)
  BY <1>3, OutcomeFacts DEF NotStolen
<1>4. CASE \/ \E i \in Instance : Crash(i) \/ Start(i)
           \/ \E g \in File : Expire(g) \/ RetryFile(g)
           \/ UNCHANGED vars
  BY <1>4 DEF Crash, Start, Expire, RetryFile, vars, NotStolen
<1>5. QED
  BY <1>1, <1>2, <1>3, <1>4, StepCases

\* Only archive_mode delete can remove the last copy, and it runs in SUCCESS.
LEMMA LostStep ==
    ASSUME TypeOK, BusyInv, [Next]_vars, \A f \in File : FileInv(f), NoFileLost
    PROVE  NoFileLost'
<1> SUFFICES ASSUME NEW f \in File, disk'[f] = {}, NotStolen(f)'
             PROVE  rows'[f].status = "SUCCESS"
  BY DEF NoFileLost
<1>1. NotStolen(f)
  BY StolenStep
<1>2. CASE disk[f] = {}
  BY <1>1, <1>2, SuccessStep DEF NoFileLost
<1>3. CASE disk[f] # {}
  <2>1. disk'[f] # disk[f]
    BY <1>3
  <2>2. \E w \in Worker : ArchiveDelete(w) \/ ArchiveMove(w) \/ MoveToDeadLetter(w)
    BY <2>1 DEF Next, ReliableNext, Handle, Take, TryClaim, MarkProcessing, Execute,
         MarkSuccess, ArchiveKeep, ArchiveRaises, MarkArchived, MarkSkipped, MarkRetry,
         MarkFatal, MarkRaised, DeadLetterRaises, RepoRaises, RepoAnswerLost, Return, Crash, Start,
         Expire, RetryFile, vars
  <2>3. PICK w \in Worker : ArchiveDelete(w) \/ ArchiveMove(w) \/ MoveToDeadLetter(w)
    BY <2>2
  <2>4. ref[w] = f /\ ~ArchiveMove(w) /\ ~MoveToDeadLetter(w)
    <3>1. ref[w] = f
      BY <2>1, <2>3 DEF ArchiveDelete, ArchiveMove, MoveToDeadLetter, TypeOK
    <3>2. ~ArchiveMove(w)
      <4>1. SUFFICES ASSUME ArchiveMove(w) PROVE FALSE
        OBVIOUS
      <4>2. PICK unlinked \in {{}, {"watch"}} :
                disk' = [disk EXCEPT ![ref[w]] = (@ \cup {"archive"}) \ unlinked]
        BY <4>1 DEF ArchiveMove
      <4>3. disk'[f] = (disk[f] \cup {"archive"}) \ unlinked
        BY <3>1, <4>2 DEF TypeOK
      <4>4. "archive" \in disk'[f]
        BY <4>3
      <4>5. QED
        BY <4>4
    <3>3. ~MoveToDeadLetter(w)
      <4>1. SUFFICES ASSUME MoveToDeadLetter(w) PROVE FALSE
        OBVIOUS
      <4>2. disk' = [disk EXCEPT ![ref[w]] = (@ \ {"watch"}) \cup {"dead"}]
        BY <2>1, <4>1 DEF MoveToDeadLetter
      <4>3. disk'[f] = (disk[f] \ {"watch"}) \cup {"dead"}
        BY <3>1, <4>2 DEF TypeOK
      <4>4. "dead" \in disk'[f]
        BY <4>3
      <4>5. QED
        BY <4>4
    <3>4. QED
      BY <3>1, <3>2, <3>3
  <2>5. pc[w] = "archive" /\ rows' = rows
    BY <2>3, <2>4 DEF ArchiveDelete
  <2>6. QED
    BY <1>1, <2>4, <2>5 DEF FileInv, FileAfter, Holds
<1>4. QED
  BY <1>2, <1>3
-----------------------------------------------------------------------------
\* VerdictInv for one worker.
VerdictOf(w) ==
    /\ pc[w] \notin {"done", "dead_fatal"} => verdict[w] = <<>>
    /\ pc[w] = "dead_fatal" => verdict[w] = <<"failure">>
    /\ pc[w] = "done" => verdict[w] \in Verdicts

\* Appending a second element to a sequence of length one.
LEMMA SecondAppend ==
    ASSUME NEW S, NEW e \in S, NEW s \in Seq(S), Len(s) = 1, s[1] = e,
           NEW u \in Seq(S), Len(u) = 2, u[1] = e, u[2] = e
    PROVE  Append(s, e) = u
<1>1. SUFFICES ASSUME NEW t, t = Append(s, e) PROVE t = u
  OBVIOUS
<1>2. /\ t \in Seq(S) /\ Len(t) = Len(s) + 1
      /\ \A i \in 1 .. Len(s) : t[i] = s[i]
      /\ t[Len(s) + 1] = e
  BY ONLY <1>1, AppendProperties, s \in Seq(S), e \in S
<1>3. Len(t) = Len(u) /\ \A i \in 1 .. Len(t) : t[i] = u[i]
  BY <1>2
<1>4. QED
  BY <1>2, <1>3, SeqEqual

\* What Append makes of the breaker calls recorded so far.
LEMMA Appends ==
    /\ Append(<<>>, "success") = <<"success">>
    /\ Append(<<>>, "failure") = <<"failure">>
    /\ Append(<<"failure">>, "failure") = <<"failure", "failure">>
<1>1. Append(<<>>, "success") = <<"success">>
  OBVIOUS
<1>2. Append(<<>>, "failure") = <<"failure">>
  OBVIOUS
<1>3. Append(<<"failure">>, "failure") = <<"failure", "failure">>
  <2>1. "failure" \in {"failure"}
    OBVIOUS
  <2>2. /\ <<"failure">> \in Seq({"failure"}) /\ Len(<<"failure">>) = 1
        /\ <<"failure">>[1] = "failure"
    OBVIOUS
  <2>3. LET u == <<"failure", "failure">> IN
        u \in Seq({"failure"}) /\ Len(u) = 2 /\ u[1] = "failure" /\ u[2] = "failure"
    OBVIOUS
  <2>4. QED
    BY <2>1, <2>2, <2>3, SecondAppend, Zenon
<1>4. QED
  BY <1>1, <1>2, <1>3

\* The calls on the breaker, per path through __call__.
LEMMA VerdictStep ==
    ASSUME TypeOK, VerdictInv, [Next]_vars
    PROVE  VerdictInv'
<1> SUFFICES ASSUME NEW v \in Worker PROVE VerdictOf(v)'
  BY DEF VerdictInv, VerdictOf
<1>1. VerdictOf(v)
  BY DEF VerdictInv, VerdictOf
<1>2. ASSUME NEW w \in Worker, v # w,
             Handle(w) \/ RepoRaises(w) \/ RepoAnswerLost(w) \/ \E f \in File : Take(w, f)
      PROVE  VerdictOf(v)'
  <2>1. pc'[v] = pc[v] /\ verdict'[v] = verdict[v]
    BY <1>2 DEF Handle, Take, TryClaim, MarkProcessing, Execute, MarkSuccess, ArchiveKeep,
         ArchiveDelete, ArchiveMove, ArchiveRaises, MarkArchived, MarkSkipped, MarkRetry,
         MarkFatal, MarkRaised, MoveToDeadLetter, DeadLetterRaises, RepoRaises, RepoAnswerLost,
         Return, Raise, Goto, Record, TypeOK
  <2>2. QED
    BY <1>1, <2>1 DEF VerdictOf
<1>3. CASE \/ \E f \in File : Take(v, f)
           \/ TryClaim(v) \/ MarkProcessing(v) \/ Execute(v) \/ MarkSuccess(v)
           \/ ArchiveKeep(v) \/ ArchiveMove(v) \/ MarkSkipped(v) \/ MarkRetry(v)
  <2>1. pc[v] \notin {"done", "dead_fatal"} /\ verdict' = verdict
    BY <1>3 DEF Take, TryClaim, MarkProcessing, Execute, MarkSuccess, ArchiveKeep,
         ArchiveMove, MarkSkipped, MarkRetry
  <2>2. \E label : label # "dead_fatal" /\ Goto(v, label)
    BY <1>3 DEF Take, TryClaim, MarkProcessing, Execute, Outcomes, MarkSuccess, ArchiveKeep,
         ArchiveMove, MarkSkipped, MarkRetry
  <2>3. pc'[v] # "dead_fatal"
    BY <2>2 DEF Goto, TypeOK
  <2>4. QED
    BY <1>1, <2>1, <2>3 DEF VerdictOf, Verdicts
<1>4. CASE ArchiveDelete(v) \/ MarkArchived(v)
  <2>1. verdict'[v] = <<"success">> /\ pc'[v] = "done"
    BY <1>1, <1>4, Appends DEF ArchiveDelete, MarkArchived, VerdictOf, Record, Goto, TypeOK
  <2>2. QED
    BY <2>1 DEF VerdictOf, Verdicts
<1>5. CASE ArchiveRaises(v) \/ RepoRaises(v) \/ RepoAnswerLost(v) \/ DeadLetterRaises(v)
  <2>1. pc[v] \notin {"done"} /\ Goto(v, "done") /\ Record(v, "failure")
    BY <1>5 DEF ArchiveRaises, RepoRaises, RepoAnswerLost, DeadLetterRaises, Raise, RepoCall,
         Processing
  <2>2. verdict[v] = <<>> \/ verdict[v] = <<"failure">>
    BY <1>1, <2>1 DEF VerdictOf
  <2>3. verdict'[v] \in {<<"failure">>, <<"failure", "failure">>} /\ pc'[v] = "done"
    BY <2>1, <2>2, Appends DEF Record, Goto, TypeOK
  <2>4. QED
    BY <2>3 DEF VerdictOf, Verdicts
<1>6. CASE MarkFatal(v) \/ MarkRaised(v)
  <2>1. verdict'[v] = <<"failure">> /\ pc'[v] \in {"done", "dead_fatal"}
    BY <1>1, <1>6, Appends DEF MarkFatal, MarkRaised, VerdictOf, Record, Goto, TypeOK
  <2>2. QED
    BY <2>1 DEF VerdictOf, Verdicts
<1>7. CASE MoveToDeadLetter(v)
  <2>1. verdict' = verdict /\ pc'[v] = "done" /\ verdict[v] \in {<<>>, <<"failure">>}
    BY <1>1, <1>7 DEF MoveToDeadLetter, VerdictOf, Goto, TypeOK
  <2>2. QED
    BY <2>1 DEF VerdictOf, Verdicts
<1>8. CASE Return(v)
  BY <1>8 DEF Return, VerdictOf, Goto, TypeOK
<1>9. ASSUME NEW i \in Instance, Crash(i)
      PROVE  VerdictOf(v)'
  BY <1>1, <1>9 DEF Crash, VerdictOf
<1>10. CASE \/ \E i \in Instance : Start(i)
            \/ \E f \in File : Expire(f) \/ RetryFile(f)
            \/ UNCHANGED vars
  BY <1>1, <1>10 DEF Start, Expire, RetryFile, vars, VerdictOf
<1>11. QED
  BY <1>2, <1>3, <1>4, <1>5, <1>6, <1>7, <1>8, <1>9, <1>10 DEF Next, ReliableNext, Handle
-----------------------------------------------------------------------------
\* The empty table, with every file in the watched directory.
LEMMA InitIInv == Init => IInv
<1> SUFFICES ASSUME Init PROVE IInv
  OBVIOUS
<1>1. TypeOK /\ BusyInv
  <2>1. NoRow \in Row
    BY DEF NoRow, Row, Status
  <2>2. QED
    BY <2>1 DEF Init, TypeOK, BusyInv, PC, Place
<1>2. LockInv /\ ArchiveInv /\ ExhaustedInv /\ LoadInv
  BY DEF Init, LockInv, ArchiveInv, ExhaustedInv, LoadInv, Processors, Processing
<1>3. RetryInv /\ LeaseInv
  BY DEF Init, RetryInv, LeaseInv, InClaim, NoRow, RetryLimit
<1>4. NoFileLost /\ VerdictInv
  BY DEF Init, NoFileLost, VerdictInv
<1>5. QED
  BY <1>1, <1>2, <1>3, <1>4 DEF IInv

\* IInv is inductive.
LEMMA NextIInv == IInv /\ [Next]_vars => IInv'
<1> SUFFICES ASSUME IInv, [Next]_vars PROVE IInv'
  OBVIOUS
<1>1. TypeOK' /\ BusyInv'
  BY TypeStep DEF IInv
<1>2. \A f \in File : FileInv(f)
  BY FileInvSplit DEF IInv
<1>3. (\A f \in File : FileInv(f))'
  BY <1>2, FileInvStep DEF IInv
<1>4. (LockInv /\ RetryInv /\ LeaseInv /\ ArchiveInv /\ ExhaustedInv /\ LoadInv)'
  BY <1>1, <1>3, FileInvSplit, PTL
<1>5. NoFileLost' /\ VerdictInv'
  BY <1>2, LostStep, VerdictStep DEF IInv
<1>6. QED
  BY <1>1, <1>4, <1>5 DEF IInv

\* The invariant holds in every reachable state: of the handler, the table, the
\* directories and the breaker calls together.
THEOREM Inductive == Spec => []IInv
  BY InitIInv, NextIInv, PTL DEF Spec

\* Every reachable state has rows, directories and labels of the declared types.
THEOREM TypeCorrect == Spec => []TypeOK
<1>1. IInv => TypeOK
  BY DEF IInv
<1>2. QED
  BY <1>1, Inductive, PTL

\* try_claim and mark_processing lock the file among any number of workers and
\* instances, up to a lease that runs out under a processing worker.
THEOREM ClaimExclusive == Spec => []ExclusiveProcessing
<1>1. IInv => ExclusiveProcessing
  BY DEF IInv, LockInv, ExclusiveProcessing
<1>2. QED
  BY <1>1, Inductive, PTL

\* Failed attempts are bounded by max_retries for every value of it.
THEOREM RetriesBounded == Spec => []RetryBound
<1>1. IInv => RetryBound
  BY DEF IInv, RetryInv, RetryBound
<1>2. QED
  BY <1>1, Inductive, PTL

\* No step takes a file that was not stolen out of SUCCESS.
THEOREM SuccessFinal == Spec => SuccessIsFinal
<1>1. IInv /\ [Next]_vars =>
          [\A f \in File : rows[f].status = "SUCCESS" /\ NotStolen(f)' =>
               rows'[f].status = "SUCCESS"]_vars
  <2> SUFFICES ASSUME IInv, [Next]_vars, NEW f \in File,
                      rows[f].status = "SUCCESS", NotStolen(f)'
               PROVE  rows'[f].status = "SUCCESS"
    OBVIOUS
  <2>1. FileInv(f)
    BY FileInvSplit DEF IInv
  <2>2. QED
    BY <2>1, SuccessStep DEF IInv
<1>2. QED
  BY <1>1, Inductive, PTL DEF Spec, SuccessIsFinal

\* archive_after_success and move_to_dead_letter never remove the last copy of a
\* file whose rows are not loaded.
THEOREM FileKept == Spec => []NoFileLost
<1>1. IInv => NoFileLost
  BY DEF IInv
<1>2. QED
  BY <1>1, Inductive, PTL

\* A worker about to move an exhausted file to the dead letter directory has it
\* to itself.
THEOREM ExhaustedOwned == Spec => []ExhaustedIsOurs
<1>1. IInv => ExhaustedIsOurs
  <2> SUFFICES ASSUME IInv, NEW w \in Worker, pc[w] = "dead_exhausted", NotStolen(ref[w])
               PROVE  ~MayClaim(rows[ref[w]]) /\ Processors(ref[w]) = {}
    BY DEF ExhaustedIsOurs
  <2> DEFINE r == rows[ref[w]]
  <2>1. ref[w] \in File /\ r.retry_count \in Nat
    BY DEF IInv, TypeOK, BusyInv, Row
  <2>2. r.status \in {"FAILED", "PENDING"} /\ (r.status = "FAILED" => r.retry_count >= MaxRetries)
    BY DEF IInv, ExhaustedInv
  <2>3. Processors(ref[w]) = {}
    BY <2>1, <2>2 DEF IInv, LockInv
  <2>4. QED
    BY <2>1, <2>2, <2>3 DEF MayClaim
<1>2. QED
  BY <1>1, Inductive, PTL

\* pipeline.execute answers SUCCESS at most once for a file none of whose leases
\* was overtaken.
THEOREM LoadedOnce == Spec => []SecondLoadNeedsTakeover
<1>1. IInv => SecondLoadNeedsTakeover
  <2> SUFFICES ASSUME IInv, NEW f \in File, loads[f] > 1
               PROVE  taken[f] # "no"
    BY DEF SecondLoadNeedsTakeover
  <2>1. loads[f] \in Nat /\ ~(loads[f] = 0) /\ ~(loads[f] = 1)
    BY DEF IInv, TypeOK
  <2>2. QED
    BY <2>1 DEF IInv, LoadInv
<1>2. QED
  BY <1>1, Inductive, PTL

\* A claimed row without a recorded failure has a lease.
THEOREM FirstAttemptLeased == Spec => []FirstAttemptHasLease
<1>1. IInv => FirstAttemptHasLease
  BY DEF IInv, LeaseInv, InClaim, FirstAttemptHasLease
<1>2. QED
  BY <1>1, Inductive, PTL

\* The handler keeps the contract with the worker pool on every path.
THEOREM VerdictsKept == Spec => []VerdictContract
<1>1. IInv => VerdictContract
  BY DEF IInv, VerdictInv, VerdictContract, Verdicts
<1>2. QED
  BY <1>1, Inductive, PTL
-----------------------------------------------------------------------------
(***************************************************************************)
(* FileProcessor implements FileLifecycle.  The refinement mapping is read *)
(* off the inductive invariant above: without FileLock a step of one       *)
(* worker could leave another holder behind, which no step of the          *)
(* lifecycle does.                                                         *)
(***************************************************************************)
\* A step of the lifecycle of f, in the words of the table and the labels.
Becomes(f, s, n, h) ==
    StageOf(rows'[f].status) = s /\ rows'[f].retry_count = n /\ Processors(f)' = h

FileMoves(f) ==
    LET s == StageOf(rows[f].status)
        n == rows[f].retry_count
        h == Processors(f)
    IN  \/ taken'[f] = "stolen"
        \/ /\ taken[f] # "stolen" /\ taken'[f] # "stolen"
           /\ \/ Becomes(f, s, n, h)
              \/ s = "open" /\ Becomes(f, "held", 0, {})
              \/ s = "failed" /\ n < MaxRetries /\ Becomes(f, "held", n, {})
              \/ /\ s = "held" /\ h = {}
                 /\ \E w \in Worker : Becomes(f, "held", n, {w})
              \/ /\ s = "held" /\ h # {}
                 /\ \/ \E t \in {"held", "loaded", "skipped"} : Becomes(f, t, n, {})
                    \/ Becomes(f, "failed", n + 1, {})
              \/ s = "failed" /\ Becomes(f, "set_aside", 0, {})

\* A file whose row keeps its stage and its retry_count, and which nobody starts
\* to process, stays or loses its one holder.
LEMMA LosesHolder ==
    ASSUME NEW f \in File, NotStolen(f), NotStolen(f)', FileLock(f),
           StageOf(rows'[f].status) = StageOf(rows[f].status),
           rows'[f].retry_count = rows[f].retry_count,
           \A v \in Worker : pc'[v] \in Processing => ref'[v] = ref[v] /\ pc'[v] = pc[v]
    PROVE  FileMoves(f)
<1>1. Processors(f)' \subseteq Processors(f)
  BY DEF Processors
<1>2. \A v1, v2 \in Processors(f) : v1 = v2
  BY DEF FileLock, Holds, Processors
<1>3. CASE Processors(f)' = Processors(f)
  BY <1>3 DEF FileMoves, Becomes, NotStolen
<1>4. CASE Processors(f)' # Processors(f)
  <2>1. PICK v \in Processors(f) : v \notin Processors(f)'
    BY <1>1, <1>4
  <2>2. Processors(f)' = {} /\ Processors(f) # {}
    BY <1>1, <1>2, <2>1
  <2>3. StageOf(rows[f].status) = "held"
    BY <2>1 DEF FileLock, Holds, Processors, StageOf
  <2>4. QED
    BY <2>2, <2>3 DEF FileMoves, Becomes, NotStolen
<1>5. QED
  BY <1>3, <1>4

\* A file whose row does not say PROCESSING has no holder.
LEMMA NoHolder ==
    ASSUME NEW f \in File, NotStolen(f), FileLock(f), rows[f].status # "PROCESSING"
    PROVE  Processors(f) = {}
  BY DEF FileLock, Holds, Processors

\* try_claim acquires a new or failed file, and takes a lease from a file that
\* nobody processes or that is broken from then on.
LEMMA ClaimMoves ==
    ASSUME TypeOK, BusyInv, NEW w \in Worker, ClaimCall(w), NEW f \in File, f = ref[w],
           FileInv(f), NotStolen(f), NotStolen(f)'
    PROVE  FileMoves(f)
<1> DEFINE r == rows[f]
<1>1. /\ r \in Row /\ InstanceOf[w] \in Instance
      /\ rows'[f] = TryClaimRow(r, InstanceOf[w]) /\ taken'[f] = TakenAfter(f)
      /\ ref' = ref
  <2>1. r \in Row /\ InstanceOf[w] \in Instance
    BY ProcessorAssumption DEF TypeOK
  <2>2. rows'[f] = TryClaimRow(r, InstanceOf[w])
    BY ClaimFacts DEF TypeOK
  <2>3. taken'[f] = TakenAfter(f)
    BY ClaimFacts DEF TypeOK
  <2>4. ref' = ref
    BY ClaimFacts
  <2>5. QED
    BY <2>1, <2>2, <2>3, <2>4
<1>2. \A v \in Worker : pc'[v] \in Processing => ref'[v] = ref[v] /\ pc'[v] = pc[v]
  BY ClaimFacts DEF Goto, TypeOK, Processing
<1>3. FileLock(f)
  BY DEF FileInv
<1>4. Processors(f)' \subseteq Processors(f)
  BY <1>2 DEF Processors
<1>5. CASE r.status = "ABSENT"
  <2>1. rows'[f].status = "CLAIMED" /\ rows'[f].retry_count = 0
    <3>1. rows'[f] = InsertRow(InstanceOf[w])
      BY <1>1, <1>5, TryClaimCases
    <3>2. QED
      BY <3>1 DEF InsertRow, NoRow
  <2>2. Processors(f)' = {}
    BY <1>3, <1>4, <1>5, NoHolder
  <2>3. QED
    BY <1>5, <2>1, <2>2 DEF FileMoves, Becomes, StageOf, NotStolen
<1>6. CASE r.status = "FAILED" /\ MayClaim(r)
  <2>1. r.claim_expires_at = "null"
    BY <1>6 DEF FileInv, FileLease
  <2>2. rows'[f] = [r EXCEPT !.status = "CLAIMED"]
    BY <1>1, <1>6, <2>1, TryClaimCases
  <2>3. rows'[f].status = "CLAIMED" /\ rows'[f].retry_count = r.retry_count
    BY <1>1, <2>2 DEF Row
  <2>4. Processors(f)' = {}
    BY <1>3, <1>4, <1>6, NoHolder
  <2>5. QED
    BY <1>6, <2>3, <2>4 DEF FileMoves, Becomes, StageOf, NotStolen, MayClaim
<1>7. CASE r.status # "ABSENT" /\ ~MayClaim(r)
  <2>1. rows'[f] = r
    BY <1>1, <1>7, TryClaimCases
  <2>2. QED
    BY <1>2, <1>3, <2>1, LosesHolder
<1>8. CASE r.status \in {"CLAIMED", "PROCESSING"} /\ MayClaim(r)
  <2>1. rows'[f] = [r EXCEPT !.status = "CLAIMED", !.claimed_by = InstanceOf[w],
                             !.claim_expires_at = "future"]
    <3>1. r \in Row /\ InstanceOf[w] \in Instance
      BY <1>1
    <3>2. TryClaimRow(r, InstanceOf[w])
            = [r EXCEPT !.status = "CLAIMED", !.claimed_by = InstanceOf[w],
                        !.claim_expires_at = "future"]
      BY <1>8, <3>1, TryClaimCases
    <3>3. QED
      BY <1>1, <3>2
  <2>2. rows'[f].status = "CLAIMED" /\ rows'[f].retry_count = r.retry_count
    BY <1>1, <2>1 DEF Row
  <2>3. StageOf(rows'[f].status) = StageOf(r.status)
    BY <1>8, <2>2 DEF StageOf
  <2>4. QED
    BY <1>2, <1>3, <2>2, <2>3, LosesHolder
<1>9. QED
  BY <1>5, <1>6, <1>7, <1>8 DEF MayClaim

\* mark_processing begins on a claimed file, or changes nothing.
LEMMA ProcessingMoves ==
    ASSUME TypeOK, BusyInv, NEW w \in Worker, ProcessingCall(w), NEW f \in File, f = ref[w],
           FileInv(f), NotStolen(f), NotStolen(f)'
    PROVE  FileMoves(f)
<1> DEFINE r == rows[f]
<1>1. r \in Row /\ rows'[f] = MarkProcessingRow(r, InstanceOf[w]) /\ ref' = ref
  BY ProcessingFacts DEF TypeOK
<1>2. /\ StageOf(rows'[f].status) = StageOf(r.status)
      /\ rows'[f].retry_count = r.retry_count
  BY <1>1 DEF MarkProcessingRow, MarkProcessingMatches, StageOf, Row
<1>3. FileLock(f)
  BY DEF FileInv
<1>4. PICK label \in {"execute", "done"} :
        /\ Goto(w, label)
        /\ label = "execute" => MarkProcessingMatches(r, InstanceOf[w])
  BY ProcessingFacts
<1>5. CASE label = "done"
  <2>1. \A v \in Worker : pc'[v] \in Processing => ref'[v] = ref[v] /\ pc'[v] = pc[v]
    BY <1>1, <1>4, <1>5 DEF Goto, TypeOK, Processing
  <2>2. QED
    BY <1>2, <1>3, <2>1, LosesHolder
<1>6. CASE label = "execute"
  <2>1. r.status = "CLAIMED"
    BY <1>4, <1>6 DEF MarkProcessingMatches
  <2>2. Processors(f) = {}
    BY <1>3, <2>1, NoHolder
  <2>3. Processors(f)' = {w}
    BY <1>1, <1>4, <1>6, <2>2 DEF Goto, TypeOK, Processors, Processing
  <2>4. QED
    BY <1>2, <2>1, <2>2, <2>3 DEF FileMoves, Becomes, StageOf, NotStolen
<1>7. QED
  BY <1>5, <1>6

\* The call that records an outcome is made by the only holder, who leaves.
LEMMA OutcomeMoves ==
    ASSUME TypeOK, BusyInv, NEW w \in Worker, OutcomeCall(w), NEW f \in File, f = ref[w],
           FileInv(f), NotStolen(f), NotStolen(f)'
    PROVE  FileMoves(f)
<1>1. PICK label \in {"archive", "done", "dead_fatal", "dead_exhausted"}, r \in Row :
        /\ Goto(w, label) /\ rows' = [rows EXCEPT ![ref[w]] = r]
        /\ \/ /\ r.status = "SUCCESS" /\ r.retry_count = rows[ref[w]].retry_count
              /\ label \in {"archive", "done"}
           \/ /\ r.status = "SKIPPED" /\ r.retry_count = rows[ref[w]].retry_count
              /\ label = "done" /\ pc[w] # "mark_success"
           \/ /\ r.status = "FAILED" /\ r.retry_count = rows[ref[w]].retry_count + 1
              /\ r.claim_expires_at = "null" /\ pc[w] # "mark_success"
              /\ label # "archive"
              /\ label = "dead_exhausted" => r.retry_count >= MaxRetries
  BY OutcomeFacts
<1>2. pc[w] \in Processing /\ ref' = ref
  BY OutcomeFacts
<1>3. w \in Processors(f) /\ \A v \in Processors(f) : v = w
  BY <1>2 DEF FileInv, FileLock, Holds, Processors
<1>4. Processors(f)' = {}
  BY <1>1, <1>2, <1>3 DEF Goto, TypeOK, Processors, Processing
<1>5. rows[f].status = "PROCESSING" /\ rows'[f] = r
  BY <1>1, <1>3 DEF FileInv, FileLock, Holds, Processors, TypeOK
<1>6. QED
  BY <1>1, <1>3, <1>4, <1>5 DEF FileMoves, Becomes, StageOf, NotStolen

\* Every step, seen from one file.
LEMMA MovesStep ==
    ASSUME TypeOK, BusyInv, [Next]_vars, NEW f \in File, FileInv(f), NotStolen(f)'
    PROVE  FileMoves(f)
<1>1. NotStolen(f) /\ FileLock(f)
  BY StolenStep DEF FileInv
<1>2. ASSUME NEW w \in Worker, QuietStep(w)
      PROVE  FileMoves(f)
  BY <1>1, <1>2, QuietFacts, LosesHolder
<1>3. ASSUME NEW w \in Worker, Execute(w)
      PROVE  FileMoves(f)
  <2>1. rows' = rows /\ ref' = ref /\ pc[w] = "execute"
    BY <1>3 DEF Execute
  <2>2. PICK o \in Processing : Goto(w, o)
    BY <1>3 DEF Execute, Outcomes, Processing
  <2>3. Processors(f)' = Processors(f)
    BY <2>1, <2>2 DEF Goto, TypeOK, Processors, Processing
  <2>4. QED
    BY <1>1, <2>1, <2>3 DEF FileMoves, Becomes, NotStolen
<1>4. ASSUME NEW w \in Worker, ArchivedCall(w)
      PROVE  FileMoves(f)
  <2>1. rows'[f] = rows[f] \/ rows'[f] = MarkArchivedRow(rows[f], path[w])
    BY <1>4, ArchivedFacts DEF TypeOK
  <2>2. rows'[f].status = rows[f].status /\ rows'[f].retry_count = rows[f].retry_count
    BY <2>1 DEF MarkArchivedRow, TypeOK, Row
  <2>3. \A v \in Worker : pc'[v] \in Processing => ref'[v] = ref[v] /\ pc'[v] = pc[v]
    BY <1>4, ArchivedFacts DEF Goto, TypeOK, Processing
  <2>4. QED
    BY <1>1, <2>2, <2>3, LosesHolder
<1>5. ASSUME NEW w \in Worker, ClaimCall(w) \/ ProcessingCall(w) \/ OutcomeCall(w), f = ref[w]
      PROVE  FileMoves(f)
  BY <1>1, <1>5, ClaimMoves, ProcessingMoves, OutcomeMoves
<1>6. ASSUME NEW w \in Worker, ClaimCall(w) \/ ProcessingCall(w) \/ OutcomeCall(w), f # ref[w]
      PROVE  FileMoves(f)
  <2>1. ref' = ref /\ \E label : Goto(w, label)
    BY <1>6, ClaimFacts, ProcessingFacts, OutcomeFacts
  <2>2. rows'[f] = rows[f]
    BY <1>6, ClaimFacts, ProcessingFacts, OutcomeFacts DEF TypeOK
  <2>3. Processors(f)' = Processors(f)
    BY <1>6, <2>1 DEF Goto, TypeOK, Processors
  <2>4. QED
    BY <1>1, <2>2, <2>3 DEF FileMoves, Becomes, NotStolen
<1>7. ASSUME NEW i \in Instance, Crash(i) \/ Start(i)
      PROVE  FileMoves(f)
  <2>1. rows' = rows
    BY <1>7 DEF Crash, Start
  <2>2. \A v \in Worker : pc'[v] \in Processing => ref'[v] = ref[v] /\ pc'[v] = pc[v]
    BY <1>7 DEF Crash, Start, Processing
  <2>3. QED
    BY <1>1, <2>1, <2>2, LosesHolder
<1>8. ASSUME NEW g \in File, Expire(g)
      PROVE  FileMoves(f)
  <2>1. rows'[f] = rows[f] \/ rows'[f] = [rows[f] EXCEPT !.claim_expires_at = "past"]
    BY <1>8 DEF Expire, TypeOK
  <2>2. rows'[f].status = rows[f].status /\ rows'[f].retry_count = rows[f].retry_count
    BY <2>1 DEF TypeOK, Row
  <2>3. QED
    BY <1>1, <1>8, <2>2, LosesHolder DEF Expire
<1>9. ASSUME NEW g \in File, RetryFile(g)
      PROVE  FileMoves(f)
  <2>1. Processors(f)' = Processors(f)
    BY <1>9 DEF RetryFile, Processors
  <2>2. CASE f # g
    BY <1>1, <1>9, <2>1, <2>2 DEF RetryFile, FileMoves, Becomes, NotStolen, TypeOK
  <2>3. CASE f = g
    <3>1. Processors(f) = {} /\ rows[f].status = "FAILED"
      BY <1>1, <1>9, <2>3, NoHolder DEF RetryFile
    <3>2. rows'[f].status = "PENDING" /\ rows'[f].retry_count = 0
      BY <1>9, <2>3 DEF RetryFile, RetryFileRow, TypeOK, Row
    <3>3. QED
      BY <1>1, <2>1, <3>1, <3>2 DEF FileMoves, Becomes, StageOf, NotStolen
  <2>4. QED
    BY <2>2, <2>3
<1>10. CASE UNCHANGED vars
  <2>1. rows' = rows /\ pc' = pc /\ ref' = ref
    BY <1>10 DEF vars
  <2>2. QED
    BY <1>1, <2>1, LosesHolder
<1>11. QED
  BY <1>2, <1>3, <1>4, <1>5, <1>6, <1>7, <1>8, <1>9, <1>10, StepCases

\* The first states of the program are first states of the lifecycle.
LEMMA LifecycleInit == Init => Lifecycle!Init
<1> SUFFICES ASSUME Init PROVE Lifecycle!Init
  OBVIOUS
<1>1. \A f \in File : Processors(f) = {}
  BY DEF Init, Processors, Processing
<1>2. QED
  BY <1>1 DEF Init, Lifecycle!Init, StageOf, NoRow

\* FileMoves says of the program what FileStep says of the lifecycle.
LEMMA LifecycleStep ==
    ASSUME NEW f \in File, FileMoves(f)
    PROVE  Lifecycle!FileStep(f)
  BY DEF FileMoves, Becomes, Lifecycle!FileStep, Lifecycle!Stay, Lifecycle!Acquire,
         Lifecycle!Begin, Lifecycle!Leave, Lifecycle!Reset, Lifecycle!Moves

\* The claim protocol as the rest of the system may see it: a file has one holder
\* at a time, a failed file is acquired again only with attempts left, and loaded,
\* skipped and reset files stay as they are, until a lease is taken from a worker
\* that is still processing.
THEOREM LifecycleImplemented == Spec => ImplementsLifecycle
<1>1. IInv /\ [Next]_vars => Lifecycle!Next
  <2> SUFFICES ASSUME IInv, [Next]_vars, NEW f \in File
               PROVE  Lifecycle!FileStep(f)
    BY DEF Lifecycle!Next
  <2>1. FileInv(f)
    BY FileInvSplit DEF IInv
  <2>2. CASE NotStolen(f)'
    BY <2>1, <2>2, MovesStep, LifecycleStep DEF IInv
  <2>3. CASE ~NotStolen(f)'
    BY <2>3, LifecycleStep DEF NotStolen, FileMoves
  <2>4. QED
    BY <2>2, <2>3
<1>2. QED
  BY <1>1, LifecycleInit, Inductive, PTL DEF Spec, ImplementsLifecycle, Lifecycle!Spec
============================================================================
