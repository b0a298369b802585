------------------------- MODULE ExpiredRowsCleanup -------------------------
(***************************************************************************)
(* The hourly job delete_expired_rows (workers/jobs/delete_expired_rows.py)*)
(* over the three tables it cleans, one repository batch per transaction.  *)
(*                                                                         *)
(* A batch is one statement (repositories/*.py, delete_*_batch): a         *)
(* materialized SELECT ... LIMIT ... FOR UPDATE SKIP LOCKED and a DELETE of*)
(* what it locked.  Postgres reads one snapshot, but locks row by row while*)
(* other transactions commit, so the batch is many steps here: it passes   *)
(* over a row somebody holds, and tests a row that changed once more.      *)
(***************************************************************************)
EXTENDS Naturals, FiniteSets

CONSTANTS
    Rows,        \* places for rows in the three tables
    TableOf,     \* the table of each, by its position in TABLE_BATCH_DELETERS
    BatchSize,   \* CLEANUP_BATCH_SIZE
    MaxFaults    \* bound of the model: how many runs may fail

Tables == 1..3
Sessions == 1   \* user_sessions; a session's expiry is never extended

ASSUME CleanupAssumption ==
    /\ IsFiniteSet(Rows)
    /\ TableOf \in [Rows -> Tables]
    /\ BatchSize \in Nat \ {0}
    /\ MaxFaults \in Nat

VARIABLES
    row,       \* each row: live, past its expiry or retention, or not there
    lock,      \* which transaction holds the row locked
    phase,     \* the job: not running, between two batches, in a batch's statement
    table,     \* the table it is at
    toScan,    \* the rows of the statement's snapshot it has not come to yet
    faults,    \* the runs that failed
    skipped,   \* history: the rows this batch passed over because a request held them
    due        \* history: the rows expired when the table's loop began, and not renewed since

jobVars == <<phase, table, toScan, faults>>
vars == <<row, lock, jobVars, skipped, due>>

TypeOK ==
    /\ row \in [Rows -> {"live", "expired", "gone"}]
    /\ lock \in [Rows -> {"free", "request", "job"}]
    /\ phase \in {"idle", "between", "batch"}
    /\ table \in Tables
    /\ toScan \subseteq Rows /\ skipped \subseteq Rows /\ due \subseteq Rows
    /\ faults \in Nat

Init ==
    /\ row \in [Rows -> {"live", "expired"}]
    /\ lock = [r \in Rows |-> "free"]
    /\ phase = "idle" /\ table = Sessions
    /\ toScan = {} /\ skipped = {} /\ due = {}
    /\ faults = 0

----------------------------------------------------------------------------
(* The requests and time, which go on beside the job. *)

\* expires_at, created_at + 24 hours or attempted_at + 30 days passes.
Expire(r) ==
    /\ row[r] = "live"
    /\ row' = [row EXCEPT ![r] = "expired"]
    /\ UNCHANGED <<lock, jobVars, skipped, due>>

\* A sign-in, a first claim of a key, a new event.  Its row outlives a run that is going on.
Insert(r) ==
    /\ phase = "idle" /\ row[r] = "gone"
    /\ row' = [row EXCEPT ![r] = "live"]
    /\ UNCHANGED <<lock, jobVars, skipped, due>>

\* A request's transaction updates or deletes the row, and has not ended yet.
LockForRequest(r) ==
    /\ row[r] # "gone" /\ lock[r] = "free"
    /\ lock' = [lock EXCEPT ![r] = "request"]
    /\ UNCHANGED <<row, jobVars, skipped, due>>

\* It ends: rolled back or without touching the expiry; with the claim started anew (keys, events);
\* with the row deleted (a sign-out, a release).
EndRequest(r) ==
    /\ lock[r] = "request"
    /\ lock' = [lock EXCEPT ![r] = "free"]
    /\ \/ UNCHANGED <<row, due>>
       \/ /\ TableOf[r] # Sessions
          /\ row' = [row EXCEPT ![r] = "live"]
          /\ due' = due \ {r}
       \/ /\ row' = [row EXCEPT ![r] = "gone"]
          /\ due' = due \ {r}
    /\ UNCHANGED <<jobVars, skipped>>

----------------------------------------------------------------------------
(* The job. *)

\* The rows the batch has locked, which its DELETE removes.
Batch == {r \in Rows : lock[r] = "job"}

\* The WHERE of the three delete_*_batch statements.
Expired(t) == {r \in Rows : TableOf[r] = t /\ row[r] = "expired"}

\* Mutant: nothing bounds the scan (a CTE that is not materialized is read once per deleted row).
IsLimitless == TRUE

\* The LIMIT of the batch's SELECT, which counts the rows it has locked.
IsWithinLimit == Cardinality(Batch) < BatchSize

\* Mutant: an off-by-one, a full batch ends the loop too.
IsAtMostFull == Cardinality(Batch) <= BatchSize

\* `batch_deleted_count < CLEANUP_BATCH_SIZE`
IsShort == Cardinality(Batch) < BatchSize

\* arq starts the cron job at minute 0.
StartRun ==
    /\ phase = "idle"
    /\ phase' = "between" /\ table' = Sessions
    /\ due' = Expired(Sessions)
    /\ UNCHANGED <<row, lock, toScan, faults, skipped>>

\* engine.begin(), and the statement takes its snapshot.
BeginBatch ==
    /\ phase = "between"
    /\ phase' = "batch"
    /\ toScan' = Expired(table)
    /\ skipped' = {}
    /\ UNCHANGED <<row, lock, table, faults, due>>

\* Mutant: the row is not tested again once it is locked.
VisitWithoutTest(r) ==
    /\ phase = "batch" /\ r \in toScan /\ IsWithinLimit
    /\ toScan' = toScan \ {r}
    /\ IF lock[r] = "request"
       THEN skipped' = skipped \cup {r} /\ UNCHANGED lock
       ELSE lock' = [lock EXCEPT ![r] = "job"] /\ UNCHANGED skipped
    /\ UNCHANGED <<row, phase, table, faults, due>>

\* The statement comes to the next row of its snapshot: skips it, locks it, or finds that whoever
\* held it has renewed or deleted it.
Visit(r) ==
    /\ phase = "batch" /\ r \in toScan /\ IsWithinLimit
    /\ toScan' = toScan \ {r}
    /\ \/ /\ lock[r] = "request"
          /\ skipped' = skipped \cup {r} /\ UNCHANGED lock
       \/ /\ lock[r] = "free" /\ row[r] = "expired"
          /\ lock' = [lock EXCEPT ![r] = "job"] /\ UNCHANGED skipped
       \/ /\ lock[r] = "free" /\ row[r] # "expired"
          /\ UNCHANGED <<lock, skipped>>
    /\ UNCHANGED <<row, phase, table, faults, due>>

\* Mutant: the job returns after its first table.
GoOnOnce ==
    \/ ~IsShort /\ phase' = "between" /\ due' = due \ Batch /\ UNCHANGED table
    \/ IsShort /\ phase' = "idle" /\ due' = {} /\ UNCHANGED table

\* delete_in_batches and delete_expired_rows after a batch: again, the next table, or the end.
GoOn ==
    \/ /\ ~IsShort
       /\ phase' = "between" /\ due' = due \ Batch
       /\ UNCHANGED table
    \/ /\ IsShort /\ table + 1 \in Tables
       /\ phase' = "between" /\ table' = table + 1
       /\ due' = Expired(table + 1)
    \/ /\ IsShort /\ table + 1 \notin Tables
       /\ phase' = "idle" /\ due' = {}
       /\ UNCHANGED table

\* The statement has all it may take; its DELETE runs and the transaction commits.
CommitBatch ==
    /\ phase = "batch"
    /\ IsWithinLimit => toScan = {}
    /\ row' = [r \in Rows |-> IF r \in Batch THEN "gone" ELSE row[r]]
    /\ lock' = [r \in Rows |-> IF r \in Batch THEN "free" ELSE lock[r]]
    /\ toScan' = {}
    /\ GoOn
    /\ UNCHANGED <<faults, skipped>>

\* The database fails, CLEANUP_JOB_TIMEOUT_SECONDS pass or the worker dies: the open batch rolls
\* back, the failure is reported and raised, and the run is not retried before the next hour.
FailRun ==
    /\ phase # "idle" /\ faults < MaxFaults
    /\ faults' = faults + 1
    /\ phase' = "idle" /\ toScan' = {} /\ due' = {}
    /\ lock' = [r \in Rows |-> IF r \in Batch THEN "free" ELSE lock[r]]
    /\ UNCHANGED <<row, table, skipped>>

JobStep == StartRun \/ BeginBatch \/ (\E r \in Rows : Visit(r)) \/ CommitBatch

Next ==
    \/ \E r \in Rows : Expire(r) \/ Insert(r) \/ LockForRequest(r) \/ EndRequest(r)
    \/ JobStep
    \/ FailRun

Spec == Init /\ [][Next]_vars

\* The worker is up: arq starts the job every hour, and the database answers it.
FairSpec == Spec /\ WF_vars(JobStep)

----------------------------------------------------------------------------
(* Properties. *)

Held == {r \in Rows : lock[r] = "request"}

AtOnce == INSTANCE RowsAtOnce WITH
    state <- row, held <- Held, Renewable <- {r \in Rows : TableOf[r] # Sessions}

\* B-26: although the job chooses rows from a snapshot, and locks and deletes them by the batch while
\* requests renew them, each row it deletes goes in one step, expired and held by nobody: what a
\* request sees is the cleanup of RowsAtOnce.
Refinement == AtOnce!Spec

\* The job leaves the table it is at, not by failing.
LeavesTable == CommitBatch /\ (table' # table \/ phase' = "idle")

\* B-26: a backlog of any size is worked through.  When the job leaves a table, every row that was
\* expired when it came to it is deleted, renewed, or was held by a request as the last batch passed.
BacklogIsCleared ==
    [][LeavesTable => \A r \in due : row'[r] = "gone" \/ r \in skipped]_vars

\* What a request can wait for is at most one batch of one table.
LocksAreOneBatch ==
    /\ Cardinality(Batch) <= BatchSize
    /\ \A r \in Batch : phase = "batch" /\ TableOf[r] = table

\* The rest waits for the next hour, and not forever: once requests leave an expired row alone and
\* runs no longer fail, it goes, whatever else expires, is skipped or is renewed beside it.
ExpiredRowsGo ==
    \A r \in Rows :
        <>[](lock[r] # "request") => (row[r] = "expired" ~> row[r] # "expired")
============================================================================
