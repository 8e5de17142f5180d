------------------------------ MODULE BulkJobs ------------------------------
(***************************************************************************)
(* Bulk imports and exports of one organization (routes/bulk.ts,           *)
(* services/bulk-jobs.ts, bulk-cleanup.ts, bulk-actor.ts, workers/bulk.ts, *)
(* bulk-import.ts and bulk-export.ts, services/zip-writer.ts).             *)
(*                                                                         *)
(* The bulk_jobs row is the record; the queue carries its id only, and     *)
(* hands it out again when a worker stops.  A partial unique index allows  *)
(* one QUEUED or RUNNING job per kind.  The two kinds use different        *)
(* queues, workers and index entries and share nothing else, so a          *)
(* behaviour is about one of them, chosen at the start.  The sweep reads a *)
(* stale job, removes its file and fails it in three awaited steps, while  *)
(* a slow worker may still be at it; then it removes the ZIPs of the jobs  *)
(* past their day and deletes these jobs.  It may fail at any of them.     *)
(*                                                                         *)
(* A CSV or a selection is a set of rows; validation, the starter's role   *)
(* and the issuing of one code are outcomes.                               *)
(***************************************************************************)
EXTENDS Naturals, FiniteSets

CONSTANTS
    Starter,     \* requests that start a job
    BulkWorker,  \* worker slots over the API processes
    BulkRow,     \* rows of the import (codes of the export)
    MaxJobs,     \* jobs the model starts
    NoJob

ASSUME BulkAssumption == MaxJobs \in Nat \ {0} /\ NoJob \notin Nat

Job == 1..MaxJobs
ActiveStatus == {"QUEUED", "RUNNING"}

VARIABLES
    kind,       \* IMPORT or EXPORT
    dryRun,     \* the validated rows are stored (imports)
    starter,    \* requests between creating the row and answering
    bulkQueue,  \* job ids waiting in the queue
    bulkJob,    \* the rows of bulk_jobs and the files of the export directory
    worker,     \* running workers
    sweep,      \* the cleanup worker's step
    issued      \* history: codes issued per job and row (up to two)

bulkVars == <<kind, dryRun, starter, bulkQueue, bulkJob, worker, sweep, issued>>

\* stale: updatedAt lies past the sweep's limit.  swept: history, the sweep
\* picked the job up, as interrupted or as past its day.
BulkJobRow == [st : ActiveStatus \cup {"none", "SUCCEEDED", "FAILED", "deleted"}, stale : BOOLEAN,
               results : SUBSET BulkRow, file : {"none", "part", "zip"}, swept : BOOLEAN]

StarterCall == [pc : {"idle", "create", "enqueue", "unqueued", "drop"}, j : Job \cup {NoJob}]
WorkerRun == [pc : {"idle", "claim", "check", "work", "finish", "unlink", "rescue", "fail"},
              j : Job \cup {NoJob}, done : SUBSET BulkRow]
SweepRun == [pc : {"idle", "remove", "finish", "expire"}, ids : SUBSET Job]

BulkTypeOK ==
    /\ kind \in {"IMPORT", "EXPORT"}
    /\ dryRun \in BOOLEAN
    /\ starter \in [Starter -> StarterCall]
    /\ bulkQueue \in SUBSET Job
    /\ bulkJob \in [Job -> BulkJobRow]
    /\ worker \in [BulkWorker -> WorkerRun]
    /\ sweep \in SweepRun
    /\ issued \in [Job -> [BulkRow -> 0..2]]

IdleWorker == [pc |-> "idle", j |-> NoJob, done |-> {}]
IdleSweep == [pc |-> "idle", ids |-> {}]

BulkInit ==
    /\ kind \in {"IMPORT", "EXPORT"}
    /\ dryRun = TRUE
    /\ starter = [c \in Starter |-> [pc |-> "idle", j |-> NoJob]]
    /\ bulkQueue = {}
    /\ bulkJob = [j \in Job |-> [st |-> "none", stale |-> FALSE, results |-> {}, file |-> "none",
                                 swept |-> FALSE]]
    /\ worker = [w \in BulkWorker |-> IdleWorker]
    /\ sweep = IdleSweep
    /\ issued = [j \in Job |-> [r \in BulkRow |-> 0]]

-----------------------------------------------------------------------------
(* Starting a job *)

StarterGoes(c, pc, j) == starter' = [starter EXCEPT ![c] = [pc |-> pc, j |-> j]]

\* The commit loads the dry run; an export resolves its selection instead.
CommitLoad(c) ==
    /\ starter[c].pc = "idle"
    /\ kind = "IMPORT" => dryRun
    /\ StarterGoes(c, "create", NoJob)
    /\ UNCHANGED <<kind, dryRun, bulkQueue, bulkJob, worker, sweep, issued>>

\* createBulkJob: the unique index decides between concurrent starts (409).
createBulkJob(c, j) ==
    /\ starter[c].pc = "create"
    /\ IF \E i \in Job : bulkJob[i].st \in ActiveStatus
       THEN StarterGoes(c, "idle", NoJob) /\ UNCHANGED bulkJob
       ELSE /\ bulkJob[j].st = "none"
            /\ \A i \in Job : i < j => bulkJob[i].st # "none"
            /\ bulkJob' = [bulkJob EXCEPT ![j].st = "QUEUED"]
            /\ StarterGoes(c, "enqueue", j)
    /\ UNCHANGED <<kind, dryRun, bulkQueue, worker, sweep, issued>>

\* startJob: the id is queued; or the add does not answer in time, and may
\* still reach the queue.
EnqueueJob(c) ==
    LET j == starter[c].j IN
    /\ starter[c].pc = "enqueue"
    /\ \/ bulkQueue' = bulkQueue \cup {j} /\ StarterGoes(c, "drop", j)
       \/ bulkQueue' \in {bulkQueue, bulkQueue \cup {j}} /\ StarterGoes(c, "unqueued", j)
    /\ UNCHANGED <<kind, dryRun, bulkJob, worker, sweep, issued>>

\* finishBulkJob: only a job still QUEUED or RUNNING is changed.
FinishedById(j, st) == IF bulkJob[j].st # "deleted" THEN [bulkJob EXCEPT ![j].st = st] ELSE bulkJob  \* mutant
Finished(j, st) == IF bulkJob[j].st \in ActiveStatus THEN [bulkJob EXCEPT ![j].st = st] ELSE bulkJob
StartGivesUp(c) ==
    /\ starter[c].pc = "unqueued"
    /\ bulkJob' = Finished(starter[c].j, "FAILED")
    /\ StarterGoes(c, "idle", NoJob)
    /\ UNCHANGED <<kind, dryRun, bulkQueue, worker, sweep, issued>>

\* A queued import uses its dry run up (the cache may fail to delete it).
DropDryRun(c) ==
    /\ starter[c].pc = "drop"
    /\ dryRun' \in IF kind = "IMPORT" THEN {FALSE, dryRun} ELSE {dryRun}
    /\ StarterGoes(c, "idle", NoJob)
    /\ UNCHANGED <<kind, bulkQueue, bulkJob, worker, sweep, issued>>

-----------------------------------------------------------------------------
(* The worker *)

WorkerGoes(w, pc) == worker' = [worker EXCEPT ![w].pc = pc]
WorkerEnds(w) == worker' = [worker EXCEPT ![w] = IdleWorker]

Deliver(w, j) ==
    /\ worker[w].pc = "idle"
    /\ j \in bulkQueue
    /\ bulkQueue' = bulkQueue \ {j}
    /\ worker' = [worker EXCEPT ![w].pc = "claim", ![w].j = j]
    /\ UNCHANGED <<kind, dryRun, starter, bulkJob, sweep, issued>>

\* claimJob: QUEUED to RUNNING, or somebody else had it.
ClaimableAgain(j) == bulkJob[j].st \in ActiveStatus  \* mutant
ClaimableJob(j) == bulkJob[j].st = "QUEUED"
claimJob(w) ==
    LET j == worker[w].j IN
    /\ worker[w].pc = "claim"
    /\ IF ClaimableJob(j)
       THEN /\ bulkJob' = [bulkJob EXCEPT ![j].st = "RUNNING", ![j].stale = FALSE]
            /\ WorkerGoes(w, "check")
       ELSE WorkerEnds(w) /\ UNCHANGED bulkJob
    /\ UNCHANGED <<kind, dryRun, starter, bulkQueue, sweep, issued>>

\* bulkStarterRefusal as of now fails the job; an export then opens its file.
StarterCheck(w) ==
    LET j == worker[w].j IN
    /\ worker[w].pc = "check"
    /\ \/ WorkerGoes(w, "fail") /\ UNCHANGED bulkJob
       \/ /\ WorkerGoes(w, "work")
          /\ bulkJob' = IF kind = "EXPORT" THEN [bulkJob EXCEPT ![j].file = "part"] ELSE bulkJob
    /\ UNCHANGED <<kind, dryRun, starter, bulkQueue, sweep, issued>>

\* One row: a code is issued (import) or drawn into the file (export), or its
\* failure is a result of its own.
WorkRow(w, r) ==
    LET j == worker[w].j IN
    /\ worker[w].pc = "work"
    /\ r \notin worker[w].done
    /\ worker' = [worker EXCEPT ![w].done = @ \cup {r}]
    /\ issued' \in {issued, [issued EXCEPT ![j][r] = IF kind = "IMPORT" /\ @ < 2 THEN @ + 1 ELSE @]}
    /\ UNCHANGED <<kind, dryRun, starter, bulkQueue, bulkJob, sweep>>

\* A write of the row's progress, which also renews updatedAt.  The update is
\* by id: it fails when the row is gone, and otherwise applies to an ended job.
Progressed(w) == [bulkJob EXCEPT ![worker[w].j].results = worker[w].done, ![worker[w].j].stale = FALSE]
SaveProgress(w) ==
    /\ worker[w].pc = "work"
    /\ worker[w].done # bulkJob[worker[w].j].results
    /\ bulkJob[worker[w].j].st # "deleted"
    /\ bulkJob' = Progressed(w)
    /\ UNCHANGED <<kind, dryRun, starter, bulkQueue, worker, sweep, issued>>

\* Every row has its result: the last save of an import, or the rename of an
\* export's finished file, which the sweep may have removed.  An error goes
\* to the handler at the end of the job.
RecordFails(w) ==
    bulkJob[worker[w].j].st = "deleted" \/ (kind = "EXPORT" /\ bulkJob[worker[w].j].file # "part")
RecordSkipped(w) == bulkJob  \* mutant
Recorded(w) == IF kind = "IMPORT" THEN Progressed(w) ELSE [Progressed(w) EXCEPT ![worker[w].j].file = "zip"]
Record(w) ==
    /\ worker[w].pc = "work"
    /\ worker[w].done = BulkRow
    /\ ~RecordFails(w)
    /\ bulkJob' = Recorded(w)
    /\ WorkerGoes(w, "finish")
    /\ UNCHANGED <<kind, dryRun, starter, bulkQueue, sweep, issued>>
WorkFails(w) ==
    /\ worker[w].pc \in {"work", "finish"}
    /\ WorkerGoes(w, "rescue")
    /\ UNCHANGED <<kind, dryRun, starter, bulkQueue, bulkJob, sweep, issued>>

\* finishBulkJob SUCCEEDED; an export the sweep failed meanwhile is deleted.
WorkerFinish(w) ==
    LET j == worker[w].j IN
    /\ worker[w].pc = "finish"
    /\ bulkJob' = Finished(j, "SUCCEEDED")
    /\ IF kind = "EXPORT" /\ bulkJob[j].st \notin ActiveStatus THEN WorkerGoes(w, "unlink")
       ELSE WorkerEnds(w)
    /\ UNCHANGED <<kind, dryRun, starter, bulkQueue, sweep, issued>>
Unlink(w) ==
    /\ worker[w].pc = "unlink"
    /\ bulkJob' = [bulkJob EXCEPT ![worker[w].j].file = "none"]
    /\ WorkerEnds(w)
    /\ UNCHANGED <<kind, dryRun, starter, bulkQueue, sweep, issued>>

\* The handler: an import saves what it has (or fails to), an export deletes
\* its partial file; then the job is FAILED.
Rescue(w) ==
    LET j == worker[w].j IN
    /\ worker[w].pc = "rescue"
    /\ bulkJob' \in IF kind = "IMPORT"
                    THEN IF bulkJob[j].st = "deleted" THEN {bulkJob} ELSE {bulkJob, Progressed(w)}
                    ELSE {IF bulkJob[j].file = "part" THEN [bulkJob EXCEPT ![j].file = "none"] ELSE bulkJob}
    /\ WorkerGoes(w, "fail")
    /\ UNCHANGED <<kind, dryRun, starter, bulkQueue, sweep, issued>>
WorkerFail(w) ==
    /\ worker[w].pc = "fail"
    /\ bulkJob' = Finished(worker[w].j, "FAILED")
    /\ WorkerEnds(w)
    /\ UNCHANGED <<kind, dryRun, starter, bulkQueue, sweep, issued>>

\* The process stops: the queue hands the unfinished id out again.
WorkerCrash(w) ==
    /\ worker[w].pc # "idle"
    /\ bulkQueue' = bulkQueue \cup {worker[w].j}
    /\ WorkerEnds(w)
    /\ UNCHANGED <<kind, dryRun, starter, bulkJob, sweep, issued>>

-----------------------------------------------------------------------------
(* Housekeeping *)

\* Fifteen minutes without progress, or two hours in the queue.
GoesStale(j) ==
    /\ bulkJob[j].st \in ActiveStatus
    /\ ~bulkJob[j].stale
    /\ bulkJob' = [bulkJob EXCEPT ![j].stale = TRUE]
    /\ UNCHANGED <<kind, dryRun, starter, bulkQueue, worker, sweep, issued>>

\* sweepBulkJobs: the stale job is read, its file removed, the job failed.
PicksRunning(j) == bulkJob[j].st = "RUNNING" /\ bulkJob[j].stale  \* mutant
Interrupted(j) == bulkJob[j].st \in ActiveStatus /\ bulkJob[j].stale
SweepRead(j) ==
    /\ sweep.pc = "idle"
    /\ Interrupted(j)
    /\ sweep' = [pc |-> IF kind = "EXPORT" THEN "remove" ELSE "finish", ids |-> {j}]
    /\ bulkJob' = [bulkJob EXCEPT ![j].swept = TRUE]
    /\ UNCHANGED <<kind, dryRun, starter, bulkQueue, worker, issued>>
SweepRemove(j) ==
    /\ sweep.pc = "remove"
    /\ j \in sweep.ids
    /\ bulkJob' = [bulkJob EXCEPT ![j].file = "none"]
    /\ sweep' = [sweep EXCEPT !.pc = "finish"]
    /\ UNCHANGED <<kind, dryRun, starter, bulkQueue, worker, issued>>
SweepFinish(j) ==
    /\ sweep.pc = "finish"
    /\ j \in sweep.ids
    /\ bulkJob' = Finished(j, "FAILED")
    /\ sweep' = IdleSweep
    /\ UNCHANGED <<kind, dryRun, starter, bulkQueue, worker, issued>>

\* The same run of the sweep reads the jobs that ended a day ago, removes the
\* file each of them recorded (one that failed recorded none), and when all
\* are gone deletes the jobs.
EndedJobs == {j \in Job : bulkJob[j].st \in {"SUCCEEDED", "FAILED"}}
ExpireRead ==
    /\ sweep.pc = "idle"
    /\ \E ids \in (SUBSET EndedJobs) \ {{}} :
          /\ sweep' = [pc |-> "expire", ids |-> ids]
          /\ bulkJob' = [j \in Job |-> [bulkJob[j] EXCEPT !.swept = @ \/ j \in ids]]
    /\ UNCHANGED <<kind, dryRun, starter, bulkQueue, worker, issued>>
ExpireRemove(j) ==
    /\ sweep.pc = "expire"
    /\ j \in sweep.ids
    /\ bulkJob[j].st = "SUCCEEDED"
    /\ bulkJob[j].file # "none"
    /\ bulkJob' = [bulkJob EXCEPT ![j].file = "none"]
    /\ UNCHANGED <<kind, dryRun, starter, bulkQueue, worker, sweep, issued>>
ExpireDelete ==
    /\ sweep.pc = "expire"
    /\ \A j \in sweep.ids : bulkJob[j].st = "SUCCEEDED" => bulkJob[j].file = "none"
    /\ bulkJob' = [j \in Job |-> IF j \in sweep.ids
                                 THEN [bulkJob[j] EXCEPT !.st = "deleted", !.results = {}]
                                 ELSE bulkJob[j]]
    /\ sweep' = IdleSweep
    /\ UNCHANGED <<kind, dryRun, starter, bulkQueue, worker, issued>>

\* A file that cannot be unlinked, a database error or the end of its process
\* ends a run of the sweep wherever it is; the next hour's run starts over.
SweepFails ==
    /\ sweep.pc # "idle"
    /\ sweep' = IdleSweep
    /\ UNCHANGED <<kind, dryRun, starter, bulkQueue, bulkJob, worker, issued>>

\* A file without a job goes a day later (removeOrphanFiles).
RemoveOrphan(j) ==
    /\ bulkJob[j].st = "deleted"
    /\ bulkJob[j].file # "none"
    /\ bulkJob' = [bulkJob EXCEPT ![j].file = "none"]
    /\ UNCHANGED <<kind, dryRun, starter, bulkQueue, worker, sweep, issued>>

BulkNext ==
    \/ ExpireRead \/ ExpireDelete \/ SweepFails
    \/ \E j \in Job : \/ GoesStale(j) \/ SweepRead(j) \/ SweepRemove(j) \/ SweepFinish(j)
                       \/ ExpireRemove(j) \/ RemoveOrphan(j)
    \/ \E c \in Starter : CommitLoad(c) \/ EnqueueJob(c) \/ StartGivesUp(c) \/ DropDryRun(c)
                          \/ (\E j \in Job : createBulkJob(c, j))
    \/ \E w \in BulkWorker :
          \/ claimJob(w) \/ StarterCheck(w) \/ SaveProgress(w) \/ Record(w) \/ WorkFails(w)
          \/ WorkerFinish(w) \/ Unlink(w) \/ Rescue(w) \/ WorkerFail(w) \/ WorkerCrash(w)
          \/ (\E j \in Job : Deliver(w, j)) \/ (\E r \in BulkRow : WorkRow(w, r))

\* The cleanup worker runs every hour and reads the interrupted jobs first;
\* nothing else has to happen.  SF: a run may fail, but not every one does.
BulkFairness ==
    /\ WF_bulkVars(ExpireDelete)
    /\ \A j \in Job :
          /\ WF_bulkVars(GoesStale(j)) /\ WF_bulkVars(ExpireRemove(j))
          /\ SF_bulkVars(SweepRead(j)) /\ SF_bulkVars(SweepRemove(j)) /\ SF_bulkVars(SweepFinish(j))

BulkSpec == BulkInit /\ [][BulkNext]_bulkVars

-----------------------------------------------------------------------------
(* Properties *)

\* An import is not idempotent and its queue may hand it out again after a
\* worker stopped: however often that happens, and whichever of the worker,
\* the sweep and the request that could not queue it ends the job, no row of
\* it is issued twice.
IssuedAtMostOnce ==
    \A j \in Job, r \in BulkRow : issued[j][r] <= 1

\* Nothing of the job's outcome is missing.
Whole(j) ==
    IF kind = "IMPORT" THEN bulkJob[j].results = BulkRow
    ELSE bulkJob[j].file = "zip" \/ bulkJob[j].swept

\* A SUCCEEDED job is whole: an import lists every row, and the ZIP an export
\* recorded is there, unless the sweep has picked that job up.  It takes a
\* job past its day, whose ZIP goes before the row does (for good when the
\* run fails in between); or it took the job for interrupted while its worker
\* was only slow, and removes the file of a job that ends well before the
\* sweep can fail it.
SucceededIsWhole ==
    \A j \in Job : bulkJob[j].st = "SUCCEEDED" => Whole(j)

\* A job ends once: the worker, the sweep that took it for interrupted and
\* the request that could not queue it may all come to an end of their own,
\* but the first one written stands until the job is deleted, and nobody is
\* left to change the results of a job that succeeded.
OutcomeIsFinal ==
    [][\A j \in Job :
         /\ bulkJob[j].st \in {"SUCCEEDED", "FAILED"} => bulkJob'[j].st \in {bulkJob[j].st, "deleted"}
         /\ bulkJob[j].st = "SUCCEEDED" /\ bulkJob'[j].st = "SUCCEEDED" =>
              bulkJob'[j].results = bulkJob[j].results]_bulkVars

\* Whatever happens to its request, its queue entry and its worker, a job
\* ends, and with it the organization's only slot becomes free again: the
\* sweep alone sees to it.
SlotIsFreed ==
    \A j \in Job : bulkJob[j].st \in ActiveStatus ~> bulkJob[j].st \notin ActiveStatus

-----------------------------------------------------------------------------
(* The inductive invariant.                                                *)

\* Whoever is at work names a job.
NamesJob ==
    /\ \A c \in Starter : starter[c].pc \in {"enqueue", "unqueued", "drop"} => starter[c].j \in Job
    /\ \A w \in BulkWorker : worker[w].pc # "idle" => worker[w].j \in Job

\* A worker past its claim owns a job that left the queue for good, alone.
Owns(w) == worker[w].pc \notin {"idle", "claim"}
OneOwner ==
    /\ \A w \in BulkWorker :
         Owns(w) => bulkJob[worker[w].j].st \in {"RUNNING", "FAILED", "deleted"}
    /\ \A v, w \in BulkWorker : Owns(v) /\ Owns(w) /\ worker[v].j = worker[w].j => v = w

\* Nothing is issued before the claim, and afterwards only what the owner
\* has done.
IssuedIsDone ==
    /\ \A j \in Job, r \in BulkRow : bulkJob[j].st \in {"none", "QUEUED"} => issued[j][r] = 0
    /\ \A w \in BulkWorker, r \in BulkRow :
         worker[w].pc \in {"check", "work"} /\ r \notin worker[w].done =>
             issued[worker[w].j][r] = 0

\* What is about to be SUCCEEDED is whole, and the sweep marks what it takes.
RecordedIsWhole ==
    /\ \A w \in BulkWorker :
         worker[w].pc = "finish" /\ bulkJob[worker[w].j].st # "deleted" => Whole(worker[w].j)
    /\ \A j \in sweep.ids : bulkJob[j].swept

BulkInv ==
    /\ BulkTypeOK /\ NamesJob /\ OneOwner /\ IssuedIsDone /\ RecordedIsWhole
    /\ IssuedAtMostOnce /\ SucceededIsWhole

=============================================================================
