---------------------- MODULE ExpiredRowsCleanup_proofs ----------------------
(***************************************************************************)
(* Machine-checked proofs about ExpiredRowsCleanup, for any finite number  *)
(* of rows, any batch size and any number of failed runs.  The inductive   *)
(* invariant CleanupInv says what a batch has locked, and which rows of the*)
(* backlog it has yet to come to; with it the job implements RowsAtOnce.   *)
(***************************************************************************)
EXTENDS ExpiredRowsCleanup, FiniteSetTheorems, TLAPS

\* A statement's snapshot is of the table the job is at.
ScansItsTable == \A r \in toScan : phase = "batch" /\ TableOf[r] = table

\* A row the job holds stays as expired as it was when the job tested it.
HeldIsExpired == \A r \in Batch : row[r] = "expired"

\* The backlog is of the table the job is at.
DueIsExpired == \A r \in due : row[r] = "expired" /\ TableOf[r] = table

\* A batch has every row of the backlog before it, has locked it, or passed over it.
DueIsSeen == phase = "batch" => due \subseteq toScan \cup Batch \cup skipped

BatchInv ==
    /\ TypeOK /\ LocksAreOneBatch /\ ScansItsTable
    /\ HeldIsExpired /\ DueIsExpired /\ DueIsSeen

\* A row that is not there is locked by nobody.
GoneIsFree == \A r \in Rows : row[r] = "gone" => lock[r] = "free"

CleanupInv == BatchInv /\ GoneIsFree

----------------------------------------------------------------------------
(* What a step locks and releases. *)

\* A batch is a finite set of rows.
LEMMA BatchIsFinite == IsFiniteSet(Batch) /\ Cardinality(Batch) \in Nat
<1>1. Batch \subseteq Rows
  BY DEF Batch
<1>2. IsFiniteSet(Batch)
  BY <1>1, CleanupAssumption, FS_Subset
<1> QED BY <1>2, FS_CardinalityType

\* A batch that takes a row within its limit stays within it.
LEMMA BatchTakes ==
  ASSUME IsWithinLimit, NEW r, Batch' = Batch \cup {r}
  PROVE  Cardinality(Batch') <= BatchSize
<1>1. /\ IsFiniteSet(Batch) /\ Cardinality(Batch) \in Nat
      /\ Cardinality(Batch) < BatchSize /\ BatchSize \in Nat
  BY BatchIsFinite, CleanupAssumption DEF IsWithinLimit
<1>2. Cardinality(Batch') \in {Cardinality(Batch), Cardinality(Batch) + 1}
  <2>1. CASE r \in Batch
    <3>1. Batch' = Batch
      BY <2>1
    <3> QED BY <3>1
  <2>2. CASE r \notin Batch
    BY <1>1, <2>2, FS_AddElement
  <2> QED BY <2>1, <2>2
<1> QED BY <1>1, <1>2

\* A batch that has released its rows is empty.
LEMMA NothingHeld == ASSUME Batch' = {} PROVE LocksAreOneBatch' /\ HeldIsExpired'
<1>1. Cardinality(Batch') = 0
  BY FS_EmptySet
<1>2. BatchSize \in Nat
  BY CleanupAssumption
<1> QED BY <1>1, <1>2 DEF LocksAreOneBatch, HeldIsExpired

\* A batch that keeps its rows and its table is the same batch, if nobody else touches the rows.
LEMMA SameHeld ==
  ASSUME LocksAreOneBatch, HeldIsExpired, Batch' = Batch,
         \A r \in Batch : row'[r] = row[r] /\ phase' = phase /\ table' = table
  PROVE  LocksAreOneBatch' /\ HeldIsExpired'
  BY DEF LocksAreOneBatch, HeldIsExpired

----------------------------------------------------------------------------
(* The invariant. *)

\* Initially nothing is locked and nothing is due.
LEMMA BatchInit == Init => BatchInv
<1> SUFFICES ASSUME Init PROVE BatchInv
  OBVIOUS
<1>1. TypeOK
  BY DEF Init, TypeOK, Tables, Sessions
<1>2. Batch = {}
  BY DEF Init, Batch
<1>3. Cardinality(Batch) <= BatchSize
  BY <1>2, FS_EmptySet, CleanupAssumption
<1> QED BY <1>1, <1>2, <1>3 DEF Init, BatchInv, LocksAreOneBatch, ScansItsTable,
     HeldIsExpired, DueIsExpired, DueIsSeen

\* What the requests do preserves the invariant: they touch no row the job holds.
LEMMA RequestStep ==
  ASSUME BatchInv, NEW r \in Rows,
         Expire(r) \/ Insert(r) \/ LockForRequest(r) \/ EndRequest(r)
  PROVE  BatchInv'
<1>a. TypeOK /\ LocksAreOneBatch /\ ScansItsTable /\ HeldIsExpired /\ DueIsExpired /\ DueIsSeen
  BY DEF BatchInv
<1> USE <1>a DEF jobVars
<1>1. TypeOK'
  BY DEF TypeOK, Expire, Insert, LockForRequest, EndRequest
<1>2. Batch' = Batch /\ UNCHANGED <<phase, table, toScan, skipped>> /\ due' \subseteq due
  BY DEF TypeOK, Batch, Expire, Insert, LockForRequest, EndRequest
<1>3. \A q \in Batch : row'[q] = row[q]
  BY DEF TypeOK, HeldIsExpired, LocksAreOneBatch, Batch, Expire, Insert, LockForRequest, EndRequest
<1>4. LocksAreOneBatch' /\ HeldIsExpired'
  BY <1>2, <1>3, SameHeld
<1>5. DueIsExpired'
  BY DEF TypeOK, DueIsExpired, Expire, Insert, LockForRequest, EndRequest
<1>6. DueIsSeen' /\ ScansItsTable'
  BY <1>2 DEF DueIsSeen, ScansItsTable
<1> QED BY <1>1, <1>4, <1>5, <1>6 DEF BatchInv

\* A row that a batch visits is locked, skipped, or no longer due.
LEMMA VisitStep == ASSUME BatchInv, NEW r \in Rows, Visit(r) PROVE BatchInv'
<1>a. TypeOK /\ LocksAreOneBatch /\ ScansItsTable /\ HeldIsExpired /\ DueIsExpired /\ DueIsSeen
  BY DEF BatchInv
<1> USE <1>a
<1>1. TypeOK' /\ UNCHANGED <<row, phase, table, due>> /\ phase = "batch" /\ IsWithinLimit
  BY DEF TypeOK, Visit
<1>2. toScan' = toScan \ {r} /\ r \in toScan
  BY DEF Visit
<1>3. DueIsExpired' /\ ScansItsTable'
  BY <1>1, <1>2 DEF DueIsExpired, ScansItsTable
<1>4. CASE UNCHANGED lock
  <2>1. Batch' = Batch
    BY <1>4 DEF Batch
  <2>2. LocksAreOneBatch' /\ HeldIsExpired'
    BY <1>1, <2>1, SameHeld
  <2>3. skipped' = skipped \cup {r} \/ (row[r] # "expired" /\ skipped' = skipped)
    BY <1>4 DEF Visit, TypeOK
  <2>4. DueIsSeen'
    BY <1>1, <1>2, <2>1, <2>3 DEF DueIsSeen, DueIsExpired
  <2> QED BY <1>1, <1>3, <2>2, <2>4 DEF BatchInv
<1>5. CASE row[r] = "expired" /\ lock' = [lock EXCEPT ![r] = "job"] /\ UNCHANGED skipped
  <2>1. Batch' = Batch \cup {r}
    BY <1>5 DEF Batch, TypeOK
  <2>2. Cardinality(Batch') <= BatchSize
    BY <1>1, <2>1, BatchTakes
  <2>3. HeldIsExpired' /\ DueIsSeen'
    BY <1>1, <1>2, <1>5, <2>1 DEF HeldIsExpired, DueIsSeen
  <2>4. TableOf[r] = table
    BY <1>2 DEF ScansItsTable
  <2> QED BY <1>1, <1>3, <2>1, <2>2, <2>3, <2>4 DEF BatchInv, LocksAreOneBatch
<1> QED BY <1>4, <1>5 DEF Visit

\* A run that starts finds what is due in the first table.
LEMMA StartStep == ASSUME BatchInv, StartRun PROVE BatchInv'
<1>a. TypeOK /\ LocksAreOneBatch /\ ScansItsTable
  BY DEF BatchInv
<1> USE <1>a DEF StartRun
<1>1. TypeOK'
  BY DEF TypeOK, Expired, Tables, Sessions
<1>2. Batch = {} /\ Batch' = {} /\ toScan = {}
  BY DEF LocksAreOneBatch, ScansItsTable, Batch
<1>3. LocksAreOneBatch' /\ HeldIsExpired'
  BY <1>2, NothingHeld
<1>4. DueIsExpired' /\ DueIsSeen' /\ ScansItsTable'
  BY <1>2 DEF DueIsExpired, DueIsSeen, ScansItsTable, Expired
<1> QED BY <1>1, <1>3, <1>4 DEF BatchInv

\* A batch that begins has all that is due before it.
LEMMA BeginStep == ASSUME BatchInv, BeginBatch PROVE BatchInv'
<1>a. TypeOK /\ LocksAreOneBatch /\ DueIsExpired
  BY DEF BatchInv
<1> USE <1>a DEF BeginBatch
<1>1. TypeOK'
  BY DEF TypeOK, Expired
<1>2. Batch' = {}
  BY DEF LocksAreOneBatch, Batch
<1>3. LocksAreOneBatch' /\ HeldIsExpired'
  BY <1>2, NothingHeld
<1>4. DueIsExpired' /\ ScansItsTable'
  BY DEF DueIsExpired, ScansItsTable, Expired
<1>5. due \subseteq Expired(table)
  BY DEF DueIsExpired, Expired, TypeOK
<1>6. DueIsSeen'
  BY <1>5 DEF DueIsSeen
<1> QED BY <1>1, <1>3, <1>4, <1>6 DEF BatchInv

\* A batch that commits lets go of what it held; what it leaves of the backlog is still expired.
LEMMA CommitStep == ASSUME BatchInv, CommitBatch PROVE BatchInv'
<1>a. TypeOK /\ LocksAreOneBatch /\ DueIsExpired
  BY DEF BatchInv
<1> USE <1>a
<1>1. /\ row' \in [Rows -> {"live", "expired", "gone"}]
      /\ lock' \in [Rows -> {"free", "request", "job"}]
      /\ \A r \in Rows : lock'[r] # "job"
      /\ \A r \in Rows : r \notin Batch => row'[r] = row[r]
      /\ toScan' = {} /\ UNCHANGED <<faults, skipped>>
  BY DEF CommitBatch, TypeOK, Batch
<1>2. Batch' = {}
  BY <1>1 DEF Batch
<1>3. LocksAreOneBatch' /\ HeldIsExpired'
  BY <1>2, NothingHeld
<1>4. /\ phase' \in {"idle", "between"} /\ table' \in Tables
      /\ due' \subseteq Rows
      /\ \A r \in due' : row[r] = "expired" /\ TableOf[r] = table' /\ r \notin Batch
  <2>1. CASE ~IsShort /\ phase' = "between" /\ due' = due \ Batch /\ table' = table
    BY <2>1 DEF TypeOK, DueIsExpired
  <2>2. CASE /\ table + 1 \in Tables /\ phase' = "between" /\ table' = table + 1
             /\ due' = Expired(table + 1)
    <3>1. \A r \in Batch : TableOf[r] = table
      BY DEF LocksAreOneBatch
    <3>2. table \in Nat /\ table + 1 # table
      BY DEF TypeOK, Tables
    <3> QED BY <2>2, <3>1, <3>2 DEF Expired
  <2>3. CASE phase' = "idle" /\ due' = {} /\ table' = table
    BY <2>3 DEF TypeOK
  <2> QED BY <2>1, <2>2, <2>3 DEF CommitBatch, GoOn
<1>5. TypeOK'
  BY <1>1, <1>4 DEF TypeOK
<1>6. DueIsExpired' /\ DueIsSeen' /\ ScansItsTable'
  BY <1>1, <1>4 DEF DueIsExpired, DueIsSeen, ScansItsTable
<1> QED BY <1>3, <1>5, <1>6 DEF BatchInv

\* A run that fails lets go of what it held and has nothing left to do.
LEMMA FailStep == ASSUME BatchInv, FailRun PROVE BatchInv'
<1>a. TypeOK
  BY DEF BatchInv
<1> USE <1>a DEF FailRun
<1>1. TypeOK'
  BY DEF TypeOK, Batch
<1>2. Batch' = {}
  BY DEF Batch, TypeOK
<1>3. LocksAreOneBatch' /\ HeldIsExpired'
  BY <1>2, NothingHeld
<1>4. DueIsExpired' /\ DueIsSeen' /\ ScansItsTable'
  BY DEF DueIsExpired, DueIsSeen, ScansItsTable
<1> QED BY <1>1, <1>3, <1>4 DEF BatchInv

\* BatchInv is inductive.
LEMMA BatchStep == BatchInv /\ [Next]_vars => BatchInv'
<1> SUFFICES ASSUME BatchInv, [Next]_vars PROVE BatchInv'
  OBVIOUS
<1>1. CASE \E r \in Rows : Expire(r) \/ Insert(r) \/ LockForRequest(r) \/ EndRequest(r)
  BY <1>1, RequestStep
<1>2. CASE StartRun \/ BeginBatch \/ CommitBatch \/ FailRun
  BY <1>2, StartStep, BeginStep, CommitStep, FailStep
<1>3. CASE \E r \in Rows : Visit(r)
  BY <1>3, VisitStep
<1>4. CASE UNCHANGED vars
  BY <1>4 DEF vars, jobVars, BatchInv, TypeOK, LocksAreOneBatch, ScansItsTable, HeldIsExpired,
     DueIsExpired, DueIsSeen, Batch
<1> QED BY <1>1, <1>2, <1>3, <1>4 DEF Next, JobStep

\* A row is inserted unlocked, locked only while it is there, and unlocked as it goes.
LEMMA GoneStep == BatchInv /\ GoneIsFree /\ [Next]_vars => GoneIsFree'
<1> SUFFICES ASSUME TypeOK, TypeOK', GoneIsFree, [Next]_vars, NEW r \in Rows, row'[r] = "gone"
             PROVE  lock'[r] = "free"
  BY BatchStep DEF BatchInv, GoneIsFree
<1> USE DEF GoneIsFree, TypeOK
<1>1. ASSUME NEW q \in Rows, Expire(q) \/ Insert(q) \/ LockForRequest(q) PROVE lock'[r] = "free"
  BY <1>1 DEF Expire, Insert, LockForRequest
<1>2. ASSUME NEW q \in Rows, EndRequest(q) PROVE lock'[r] = "free"
  BY <1>2 DEF EndRequest
<1>3. ASSUME NEW q \in Rows, Visit(q) PROVE lock'[r] = "free"
  BY <1>3 DEF Visit
<1>4. CASE CommitBatch \/ FailRun
  BY <1>4 DEF CommitBatch, FailRun, Batch
<1>5. CASE StartRun \/ BeginBatch \/ UNCHANGED vars
  BY <1>5 DEF StartRun, BeginBatch, vars
<1> QED BY <1>1, <1>2, <1>3, <1>4, <1>5 DEF Next, JobStep

\* The inductive invariant holds at first.
LEMMA CleanupInit == Init => CleanupInv
  BY BatchInit DEF Init, CleanupInv, GoneIsFree

\* Every step keeps it.
LEMMA CleanupStep == CleanupInv /\ [Next]_vars => CleanupInv'
  BY BatchStep, GoneStep DEF CleanupInv

----------------------------------------------------------------------------
(* What one step means to each row. *)

\* Whatever step is taken, each row makes a step of the abstract cleanup, or none.
LEMMA EachRowSteps ==
  ASSUME CleanupInv, [Next]_vars, NEW r \in Rows
  PROVE  AtOnce!RowStep(r)
<1>0. TypeOK /\ TypeOK' /\ HeldIsExpired /\ GoneIsFree
  BY CleanupStep DEF CleanupInv, BatchInv
<1>1. (r \in Held <=> lock[r] = "request") /\ (r \in Held' <=> lock'[r] = "request")
  BY DEF Held
<1>2. ASSUME row'[r] = row[r], lock'[r] = "request" <=> lock[r] = "request" PROVE AtOnce!RowStep(r)
  BY <1>1, <1>2 DEF AtOnce!RowStep, AtOnce!Stay
<1>3. ASSUME NEW q \in Rows, Expire(q) PROVE AtOnce!RowStep(r)
  <2>1. CASE q = r
    BY <1>0, <1>1, <1>3, <2>1 DEF Expire, TypeOK, AtOnce!RowStep, AtOnce!Expire
  <2> QED BY <1>0, <1>2, <1>3, <2>1 DEF Expire, TypeOK
<1>4. ASSUME NEW q \in Rows, Insert(q) PROVE AtOnce!RowStep(r)
  <2>1. CASE q = r
    BY <1>0, <1>1, <1>4, <2>1 DEF Insert, TypeOK, GoneIsFree, AtOnce!RowStep, AtOnce!Insert
  <2> QED BY <1>0, <1>2, <1>4, <2>1 DEF Insert, TypeOK
<1>5. ASSUME NEW q \in Rows, LockForRequest(q) PROVE AtOnce!RowStep(r)
  <2>1. CASE q = r
    BY <1>0, <1>1, <1>5, <2>1 DEF LockForRequest, TypeOK, AtOnce!RowStep, AtOnce!Hold
  <2> QED BY <1>0, <1>2, <1>5, <2>1 DEF LockForRequest, TypeOK
<1>6. ASSUME NEW q \in Rows, EndRequest(q) PROVE AtOnce!RowStep(r)
  <2>1. CASE q = r
    BY <1>0, <1>1, <1>6, <2>1 DEF EndRequest, TypeOK, AtOnce!RowStep, AtOnce!Release
  <2> QED BY <1>0, <1>2, <1>6, <2>1 DEF EndRequest, TypeOK
<1>7. ASSUME NEW q \in Rows, Visit(q) PROVE AtOnce!RowStep(r)
  BY <1>0, <1>2, <1>7 DEF Visit, TypeOK
<1>8. CASE CommitBatch
  <2>1. CASE r \in Batch
    BY <1>0, <1>1, <1>8, <2>1 DEF CommitBatch, HeldIsExpired, Batch, AtOnce!RowStep, AtOnce!CleanUp
  <2> QED BY <1>2, <1>8, <2>1 DEF CommitBatch
<1>9. CASE FailRun
  BY <1>2, <1>9 DEF FailRun, Batch
<1>10. CASE StartRun \/ BeginBatch \/ UNCHANGED vars
  BY <1>2, <1>10 DEF StartRun, BeginBatch, vars
<1> QED BY <1>3, <1>4, <1>5, <1>6, <1>7, <1>8, <1>9, <1>10 DEF Next, JobStep

----------------------------------------------------------------------------
(* The theorems. *)

\* The inductive invariant holds of every reachable state.
THEOREM CleanupInvariance == Spec => []CleanupInv
<1> QED BY CleanupInit, CleanupStep, PTL DEF Spec

\* Rows, locks and the job's state stay within their types.
THEOREM CleanupTypeCorrect == Spec => []TypeOK
<1>1. CleanupInv => TypeOK
  BY DEF CleanupInv, BatchInv
<1> QED BY <1>1, CleanupInvariance, PTL

\* The job never holds more than one batch of rows, all of the table it is at.
THEOREM BatchesBoundLocks == Spec => []LocksAreOneBatch
<1>1. CleanupInv => LocksAreOneBatch
  BY DEF CleanupInv, BatchInv
<1> QED BY <1>1, CleanupInvariance, PTL

\* B-26: batches, snapshots and row locks amount to deleting each row in one step, while it is
\* expired and nobody holds it.
THEOREM RowsGoAtOnce == Spec => Refinement
<1>1. Init => AtOnce!Init
  BY DEF Init, AtOnce!Init, Held
<1>2. CleanupInv /\ [Next]_vars => [AtOnce!Next]_<<row, Held>>
  BY EachRowSteps DEF AtOnce!Next
<1> QED BY <1>1, <1>2, CleanupInvariance, PTL DEF Spec, Refinement, AtOnce!Spec

\* B-26: the job leaves nothing of a table's backlog behind but what a request held.
THEOREM BacklogsAreCleared == Spec => BacklogIsCleared
<1> DEFINE A == LeavesTable => \A r \in due : row'[r] = "gone" \/ r \in skipped
<1>1. CleanupInv /\ [Next]_vars => [A]_vars
  <2> SUFFICES ASSUME CleanupInv, LeavesTable, NEW r \in due
               PROVE  row'[r] = "gone" \/ r \in skipped
    OBVIOUS
  <2>1. CommitBatch /\ TypeOK /\ DueIsSeen /\ IsShort
    BY DEF LeavesTable, CleanupInv, BatchInv, CommitBatch, GoOn
  <2>2. toScan = {} /\ phase = "batch"
    BY <2>1 DEF CommitBatch, IsShort, IsWithinLimit
  <2>3. r \in Batch \cup skipped
    BY <2>1, <2>2 DEF DueIsSeen
  <2>4. r \in Rows
    BY <2>1 DEF TypeOK
  <2> QED BY <2>1, <2>3, <2>4 DEF CommitBatch
<1> QED BY <1>1, CleanupInvariance, PTL DEF Spec, BacklogIsCleared

----------------------------------------------------------------------------
(* Why every run ends: part of what ExpiredRowsGo rests on. *)

\* The rows that are there.
Present == {r \in Rows : row[r] # "gone"}

\* A run never turns back to an earlier table, and when a batch makes it go on with the same one, a
\* whole batch of rows is gone for good: of n rows a run makes at most n / BatchSize + 3 batches.
RunsAdvance ==
    [][phase # "idle" /\ phase' # "idle" =>
         /\ table <= table' /\ Cardinality(Present') <= Cardinality(Present)
         /\ CommitBatch /\ table' = table =>
                Cardinality(Present') + BatchSize <= Cardinality(Present)]_vars

\* The rows that are there are finitely many.
LEMMA PresentIsFinite == IsFiniteSet(Present) /\ Cardinality(Present) \in Nat
<1>1. Present \subseteq Rows
  BY DEF Present
<1> QED BY <1>1, CleanupAssumption, FS_Subset, FS_CardinalityType

\* A commit takes its batch away from the rows that are there, and nothing else.
LEMMA CommitTakesBatch ==
  ASSUME CleanupInv, CommitBatch
  PROVE  Cardinality(Present') = Cardinality(Present) - Cardinality(Batch)
<1>1. Present' = Present \ Batch
  BY DEF Present, Batch, CommitBatch
<1>2. Present \cap Batch = Batch
  BY DEF CleanupInv, BatchInv, HeldIsExpired, Present, Batch
<1>3. Cardinality(Present \ Batch) = Cardinality(Present) - Cardinality(Present \cap Batch)
  BY PresentIsFinite, FS_Difference
<1> QED BY <1>1, <1>2, <1>3

\* While a run goes on, nothing but a commit changes how many rows are there, except downwards.
LEMMA PresentShrinks ==
  ASSUME CleanupInv, [Next]_vars, phase # "idle"
  PROVE  Cardinality(Present') <= Cardinality(Present)
<1>0. TypeOK /\ TypeOK'
  BY CleanupStep DEF CleanupInv, BatchInv
<1>1. Present' \subseteq Present
  <2>1. ASSUME NEW q \in Rows, Expire(q) \/ LockForRequest(q) \/ EndRequest(q) \/ Visit(q)
        PROVE  Present' \subseteq Present
    BY <1>0, <2>1 DEF TypeOK, GoneIsFree, CleanupInv, Present, Expire, LockForRequest, EndRequest, Visit
  <2>2. CASE CommitBatch
    BY <2>2 DEF CommitBatch, Present, Batch
  <2>3. CASE StartRun \/ BeginBatch \/ FailRun \/ UNCHANGED vars
    BY <2>3 DEF StartRun, BeginBatch, FailRun, vars, Present
  <2> QED BY <2>1, <2>2, <2>3 DEF Next, JobStep, Insert
<1> QED BY <1>1, PresentIsFinite, FS_Subset

\* Every run ends within a bounded number of batches.
THEOREM RunsEnd == Spec => RunsAdvance
<1> DEFINE A == phase # "idle" /\ phase' # "idle" =>
                  /\ table <= table' /\ Cardinality(Present') <= Cardinality(Present)
                  /\ CommitBatch /\ table' = table =>
                         Cardinality(Present') + BatchSize <= Cardinality(Present)
<1>1. CleanupInv /\ [Next]_vars => [A]_vars
  <2> SUFFICES ASSUME CleanupInv, [Next]_vars, phase # "idle", phase' # "idle" PROVE A
    OBVIOUS
  <2>1. Cardinality(Present') <= Cardinality(Present)
    BY PresentShrinks
  <2>2. table <= table'
    BY DEF CleanupInv, BatchInv, TypeOK, Tables, Next, JobStep, Expire, Insert, LockForRequest,
       EndRequest, StartRun, BeginBatch, Visit, CommitBatch, GoOn, FailRun, jobVars, vars
  <2>3. ASSUME CommitBatch, table' = table
        PROVE  Cardinality(Present') + BatchSize <= Cardinality(Present)
    <3>1. BatchSize <= Cardinality(Batch)
      BY <2>3, BatchIsFinite, CleanupAssumption DEF CommitBatch, GoOn, IsShort, CleanupInv, BatchInv, TypeOK, Tables
    <3> QED BY <2>3, <3>1, CommitTakesBatch, PresentIsFinite, BatchIsFinite, CleanupAssumption
  <2> QED BY <2>1, <2>2, <2>3
<1> QED BY <1>1, CleanupInvariance, PTL DEF Spec, RunsAdvance
=============================================================================
