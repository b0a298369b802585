-------------------------- MODULE IdempotencyKeys --------------------------
(***************************************************************************)
(* The claim protocol of the Idempotency-Key middleware                    *)
(* (apps/server/app/middleware/idempotency.py) over one row of             *)
(* request_idempotency_keys (repositories/request_idempotency_keys.py).    *)
(*                                                                         *)
(* Every statement of the repository names one (key, user_id) pair, so the *)
(* module follows one such row and the requests that carry its key.  A     *)
(* request is a process: each database statement is one atomic step, the   *)
(* steps of different requests interleave freely, and a request may crash  *)
(* or lose a database answer between any two of them.  Time is Postgres's  *)
(* now(), in ticks; Timeout, Lease and Window are the request timeout, the *)
(* lease and the replay window on that clock.                              *)
(***************************************************************************)
EXTENDS Naturals

CONSTANTS
    Requests,    \* request attempts; a request is also its own claim_token
    Identities,  \* what a key is bound to: method, path and body hash
    None,        \* no request, no identity
    Timeout,     \* the latest a live handler is cancelled after its request started
    Lease,       \* LEASE_SECONDS
    Window,      \* REPLAY_WINDOW_HOURS, and the retention of the cleanup job
    MaxTime      \* bound of the model: the clock stops here

ASSUME NoneAssumption == None \notin Requests \cup Identities

(* constants/idempotency.py: the lease is longer than the request timeout. *)
ASSUME TimingAssumption ==
    /\ Timeout \in Nat /\ Lease \in Nat /\ Window \in Nat /\ MaxTime \in Nat
    /\ Timeout <= Lease

ClaimInsertAttempts == 2   \* CLAIM_INSERT_ATTEMPTS

VARIABLES
    now,        \* the database's clock
    row,        \* the row of this key and user
    nextGen,    \* stands for the uniqueness of created_at: the next claim's generation
    pc,         \* where each request is
    identity,   \* what each request asks for
    startedAt,  \* when the request timeout started counting
    attempt,    \* which claim insert of resolve_claim's loop this is
    gen,        \* the generation of the claim a request took, 0 for none
    bornAt,     \* ClaimOutcome.created_at of that claim
    result,     \* what the handler did
    fate,       \* how the request's claim was settled
    answer,     \* what the client was answered
    replayOf    \* whose stored response a replay sent

claimVars == <<gen, bornAt>>
outcomeVars == <<result, fate, answer, replayOf>>
requestVars == <<identity, startedAt, attempt>>
vars == <<now, row, nextGen, pc, requestVars, claimVars, outcomeVars>>

----------------------------------------------------------------------------
(* Types. *)

Row == [state : {"absent", "in_progress", "completed"},
        identity : Identities \cup {None},
        token : Requests \cup {None},
        response : Requests \cup {None},
        lockedUntil : Nat, createdAt : Nat, generation : Nat]

Absent == [state |-> "absent", identity |-> None, token |-> None, response |-> None,
           lockedUntil |-> 0, createdAt |-> 0, generation |-> 0]

Resolving == {"claim", "read", "take", "reread"}
Running == {"run", "sending"}
Settling == {"complete", "release"}

Results == {"none", "ok", "unstorable", "refused", "failed"}
Fates == {"none", "stored", "superseded", "released", "lost"}
Answers == {"none", "handler", "replay", "reused", "in_progress", "error"}

TypeOK ==
    /\ now \in Nat /\ nextGen \in Nat
    /\ row \in Row
    /\ pc \in [Requests -> {"idle", "done"} \cup Resolving \cup Running \cup Settling]
    /\ identity \in [Requests -> Identities \cup {None}]
    /\ startedAt \in [Requests -> Nat]
    /\ attempt \in [Requests -> Nat]
    /\ gen \in [Requests -> Nat]
    /\ bornAt \in [Requests -> Nat]
    /\ result \in [Requests -> Results]
    /\ fate \in [Requests -> Fates]
    /\ answer \in [Requests -> Answers]
    /\ replayOf \in [Requests -> Requests \cup {None}]

Init ==
    /\ now = 0 /\ nextGen = 1
    /\ row = Absent
    /\ pc = [r \in Requests |-> "idle"]
    /\ identity = [r \in Requests |-> None]
    /\ startedAt = [r \in Requests |-> 0]
    /\ attempt = [r \in Requests |-> 0]
    /\ gen = [r \in Requests |-> 0]
    /\ bornAt = [r \in Requests |-> 0]
    /\ result = [r \in Requests |-> "none"]
    /\ fate = [r \in Requests |-> "none"]
    /\ answer = [r \in Requests |-> "none"]
    /\ replayOf = [r \in Requests |-> None]

----------------------------------------------------------------------------
(* The conditions of the repository's statements. *)

\* Mutant: the insert reclaims a row once its lease, not its replay window, is over.
IsClaimableAfterLease == row.state = "absent" \/ row.createdAt + Lease < now

\* The row takes an insert: none is there, or `created_at < now() - REPLAY_WINDOW`.
IsClaimable == row.state = "absent" \/ row.createdAt + Window < now

\* `created_at > now() - REPLAY_WINDOW`, as read_idempotency_key labels it.
IsWithinReplayWindow == now < row.createdAt + Window

\* Mutant: the takeover does not ask that the lease has expired.
CanTakeOverLiveLease(r) == row.state = "in_progress" /\ row.identity = identity[r]

\* Mutant: the takeover does not ask that the claim is still in progress.
CanTakeOverAnyState(r) ==
    row.state # "absent" /\ row.identity = identity[r] /\ row.lockedUntil < now

\* The WHERE of take_over_idempotency_key.
CanTakeOver(r) ==
    /\ row.state = "in_progress"
    /\ row.identity = identity[r]
    /\ row.lockedUntil < now

\* Mutant: a settlement does not ask whose token the row holds.
HoldsAnyClaim(r) == row.state # "absent"

\* `claim_token = :mine`, the WHERE of the completion and the release.
HoldsClaim(r) == row.state # "absent" /\ row.token = r

\* Mutant: a stored claim is judged without comparing method, path and body.
DecideForAnyIdentity(r) ==
    IF row.state = "absent" \/ ~IsWithinReplayWindow THEN "gone"
    ELSE IF row.state = "completed" THEN "replay"
    ELSE IF now < row.lockedUntil THEN "in_progress"
    ELSE "take_over"

\* decide_from_stored_claim, its tests in the code's order.
Decide(r) ==
    IF row.state = "absent" \/ ~IsWithinReplayWindow THEN "gone"
    ELSE IF row.identity # identity[r] THEN "reused"
    ELSE IF row.state = "completed" THEN "replay"
    ELSE IF now < row.lockedUntil THEN "in_progress"
    ELSE "take_over"

\* The requests the timeout middleware can still cancel.
IsAlive(r) == pc[r] \in Resolving \cup Running

\* The app has returned to the timeout middleware: the deadline and the loop counter are gone.
Leave(r, place) ==
    /\ pc' = [pc EXCEPT ![r] = place]
    /\ startedAt' = [startedAt EXCEPT ![r] = 0]
    /\ attempt' = [attempt EXCEPT ![r] = 0]

----------------------------------------------------------------------------
(* A request arrives and resolves its claim. *)

Arrive(r, i) ==
    /\ pc[r] = "idle"
    /\ pc' = [pc EXCEPT ![r] = "claim"]
    /\ identity' = [identity EXCEPT ![r] = i]
    /\ startedAt' = [startedAt EXCEPT ![r] = now]
    /\ attempt' = [attempt EXCEPT ![r] = 1]
    /\ UNCHANGED <<now, row, nextGen, claimVars, outcomeVars>>

\* The upsert took the key: a new generation, every response column reset.
InsertClaim(r) ==
    /\ IsClaimable
    /\ row' = [state |-> "in_progress", identity |-> identity[r], token |-> r,
               response |-> None, lockedUntil |-> now + Lease, createdAt |-> now,
               generation |-> nextGen]
    /\ nextGen' = nextGen + 1
    /\ gen' = [gen EXCEPT ![r] = nextGen]
    /\ bornAt' = [bornAt EXCEPT ![r] = now]

\* Mutant: a takeover starts a new generation, as a fresh insert does.
ExtendClaimAsNew(r) ==
    /\ CanTakeOver(r)
    /\ row' = [row EXCEPT !.token = r, !.lockedUntil = now + Lease, !.createdAt = now,
                          !.generation = nextGen]
    /\ nextGen' = nextGen + 1
    /\ gen' = [gen EXCEPT ![r] = nextGen]
    /\ bornAt' = [bornAt EXCEPT ![r] = now]

\* The conditional update took the claim over: same generation, new token and lease.
ExtendClaim(r) ==
    /\ CanTakeOver(r)
    /\ row' = [row EXCEPT !.token = r, !.lockedUntil = now + Lease]
    /\ gen' = [gen EXCEPT ![r] = row.generation]
    /\ bornAt' = [bornAt EXCEPT ![r] = row.createdAt]
    /\ UNCHANGED nextGen

ClaimIdempotencyKey(r) ==
    /\ pc[r] = "claim"
    /\ \/ /\ InsertClaim(r)
          /\ pc' = [pc EXCEPT ![r] = "run"]
       \/ /\ ~IsClaimable
          /\ pc' = [pc EXCEPT ![r] = "read"]
          /\ UNCHANGED <<row, nextGen, claimVars>>
    /\ UNCHANGED <<now, requestVars, outcomeVars>>

TakeOverIdempotencyKey(r) ==
    /\ pc[r] = "take"
    /\ \/ /\ ExtendClaim(r)
          /\ pc' = [pc EXCEPT ![r] = "run"]
       \/ /\ ~CanTakeOver(r)
          /\ pc' = [pc EXCEPT ![r] = "reread"]
          /\ UNCHANGED <<row, nextGen, claimVars>>
    /\ UNCHANGED <<now, requestVars, outcomeVars>>

\* The statement commits, but no handler follows: the timeout cancels the request, the connection
\* breaks before the answer, or the process dies.  The client gets 408, 503 or nothing.
LoseClaim(r) ==
    /\ \/ pc[r] = "claim" /\ InsertClaim(r)
       \/ pc[r] = "take" /\ ExtendClaim(r)
    /\ Leave(r, "done")
    /\ fate' = [fate EXCEPT ![r] = "lost"]
    /\ answer' = [answer EXCEPT ![r] = "error"]
    /\ UNCHANGED <<now, identity, result, replayOf>>

\* The request ends before it holds a claim: a connect failure (503), its deadline (408), a crash.
FailResolving(r) ==
    /\ pc[r] \in Resolving
    /\ Leave(r, "done")
    /\ answer' = [answer EXCEPT ![r] = "error"]
    /\ UNCHANGED <<now, row, nextGen, identity, claimVars, result, fate, replayOf>>

\* answer_claim, for a request that runs no handler.
Refuse(r, code) ==
    /\ Leave(r, "done")
    /\ answer' = [answer EXCEPT ![r] = code]
    /\ UNCHANGED replayOf

Replay(r) ==
    /\ Leave(r, "done")
    /\ answer' = [answer EXCEPT ![r] = "replay"]
    /\ replayOf' = [replayOf EXCEPT ![r] = row.response]

\* resolve_claim's loop: a vanished row retries the insert once, then answers 409.
RetryInsert(r) ==
    \/ /\ attempt[r] < ClaimInsertAttempts
       /\ attempt' = [attempt EXCEPT ![r] = @ + 1]
       /\ pc' = [pc EXCEPT ![r] = "claim"]
       /\ UNCHANGED <<startedAt, answer, replayOf>>
    \/ attempt[r] = ClaimInsertAttempts /\ Refuse(r, "in_progress")

\* What both reads of the row lead to, short of a takeover.
Judge(r) ==
    \/ Decide(r) = "gone" /\ RetryInsert(r)
    \/ Decide(r) \in {"reused", "in_progress"} /\ Refuse(r, Decide(r))
    \/ Decide(r) = "replay" /\ Replay(r)

\* judge_stored_claim after the insert: an expired lease goes on to the takeover.
JudgeStoredClaim(r) ==
    /\ pc[r] = "read"
    /\ \/ Judge(r)
       \/ /\ Decide(r) = "take_over"
          /\ pc' = [pc EXCEPT ![r] = "take"]
          /\ UNCHANGED <<startedAt, attempt, answer, replayOf>>
    /\ UNCHANGED <<now, row, nextGen, identity, claimVars, result, fate>>

\* Mutant: a takeover that took nothing is tried again for as long as the lease looks expired.
RejudgeUntilTaken(r) ==
    /\ pc[r] = "reread"
    /\ \/ Judge(r)
       \/ /\ Decide(r) = "take_over"
          /\ pc' = [pc EXCEPT ![r] = "take"]
          /\ UNCHANGED <<startedAt, attempt, answer, replayOf>>
    /\ UNCHANGED <<now, row, nextGen, identity, claimVars, result, fate>>

\* judge_stored_claim after a takeover that took nothing: expired again answers 409.
RejudgeStoredClaim(r) ==
    /\ pc[r] = "reread"
    /\ \/ Judge(r)
       \/ Decide(r) = "take_over" /\ Refuse(r, "in_progress")
    /\ UNCHANGED <<now, row, nextGen, identity, claimVars, result, fate>>

----------------------------------------------------------------------------
(* The handler runs under the claim. *)

\* The route's transaction commits (2xx), with a body that is stored or one that is not: streamed,
\* or past MAX_STORED_RESPONSE_BYTES.  The response has not left yet.
CommitHandler(r, kind) ==
    /\ pc[r] = "run"
    /\ kind \in {"ok", "unstorable"}
    /\ result' = [result EXCEPT ![r] = kind]
    /\ pc' = [pc EXCEPT ![r] = "sending"]
    /\ UNCHANGED <<now, row, nextGen, requestVars, claimVars, fate, answer, replayOf>>

\* The route answers a 4xx: its transaction rolled back, and the answer is stored all the same.
RefuseInHandler(r) ==
    /\ pc[r] = "run"
    /\ result' = [result EXCEPT ![r] = "refused"]
    /\ pc' = [pc EXCEPT ![r] = "sending"]
    /\ UNCHANGED <<now, row, nextGen, requestVars, claimVars, fate, answer, replayOf>>

\* The route raises or answers a 5xx: rolled back, and the claim is to be released.
FailHandler(r) ==
    /\ pc[r] = "run"
    /\ result' = [result EXCEPT ![r] = "failed"]
    /\ answer' = [answer EXCEPT ![r] = "error"]
    /\ Leave(r, "release")
    /\ UNCHANGED <<now, row, nextGen, identity, claimVars, fate, replayOf>>

\* The timeout cancels the app.  A handler still at work rolls back; one that has committed does
\* not, and its claim is released as a failing one's is (`except BaseException`).
CancelHandler(r) ==
    /\ pc[r] \in Running
    /\ now >= startedAt[r] + Timeout
    /\ result' = [result EXCEPT ![r] = IF pc[r] = "run" THEN "failed" ELSE @]
    /\ answer' = [answer EXCEPT ![r] = "error"]
    /\ Leave(r, "release")
    /\ UNCHANGED <<now, row, nextGen, identity, claimVars, fate, replayOf>>

\* The app has sent its response and returned; settle_claim stores what can be stored.
SendResponse(r) ==
    /\ pc[r] = "sending"
    /\ answer' = [answer EXCEPT ![r] = "handler"]
    /\ Leave(r, IF result[r] = "unstorable" THEN "release" ELSE "complete")
    /\ UNCHANGED <<now, row, nextGen, identity, claimVars, result, fate, replayOf>>

----------------------------------------------------------------------------
(* The claim is settled, shielded from the timeout. *)

CompleteIdempotencyKey(r) ==
    /\ pc[r] = "complete"
    /\ pc' = [pc EXCEPT ![r] = "done"]
    /\ \/ /\ HoldsClaim(r)
          /\ row' = [row EXCEPT !.state = "completed", !.response = r]
          /\ fate' = [fate EXCEPT ![r] = "stored"]
       \/ /\ ~HoldsClaim(r)
          /\ fate' = [fate EXCEPT ![r] = "superseded"]
          /\ UNCHANGED row
    /\ UNCHANGED <<now, nextGen, requestVars, claimVars, result, answer, replayOf>>

ReleaseIdempotencyKey(r) ==
    /\ pc[r] = "release"
    /\ pc' = [pc EXCEPT ![r] = "done"]
    /\ \/ /\ HoldsClaim(r)
          /\ row' = Absent
          /\ fate' = [fate EXCEPT ![r] = "released"]
       \/ /\ ~HoldsClaim(r)
          /\ fate' = [fate EXCEPT ![r] = "superseded"]
          /\ UNCHANGED row
    /\ UNCHANGED <<now, nextGen, requestVars, claimVars, result, answer, replayOf>>

\* Every completion attempt, or the one release, failed, or the process died first: the claim stays
\* and its lease is left to lapse.
LoseSettlement(r) ==
    /\ pc[r] \in Settling
    /\ pc' = [pc EXCEPT ![r] = "done"]
    /\ fate' = [fate EXCEPT ![r] = "lost"]
    /\ UNCHANGED <<now, row, nextGen, requestVars, claimVars, result, answer, replayOf>>

\* The process dies under a handler: a transaction still open rolls back.
CrashHandler(r) ==
    /\ pc[r] \in Running
    /\ result' = [result EXCEPT ![r] = IF pc[r] = "run" THEN "failed" ELSE @]
    /\ fate' = [fate EXCEPT ![r] = "lost"]
    /\ answer' = [answer EXCEPT ![r] = "error"]
    /\ Leave(r, "done")
    /\ UNCHANGED <<now, row, nextGen, identity, claimVars, replayOf>>

----------------------------------------------------------------------------
(* The hourly cleanup, and time. *)

\* delete_stale_idempotency_keys_batch, for this row: `created_at < now() - 24h`.
DeleteStaleKey ==
    /\ row.state # "absent"
    /\ row.createdAt + Window < now
    /\ row' = Absent
    /\ UNCHANGED <<now, nextGen, pc, requestVars, claimVars, outcomeVars>>

\* The clock moves, but never past the instant by which a live handler has been cancelled.
Tick ==
    /\ now < MaxTime
    /\ \A r \in Requests : IsAlive(r) => now < startedAt[r] + Timeout
    /\ now' = now + 1
    /\ UNCHANGED <<row, nextGen, pc, requestVars, claimVars, outcomeVars>>

----------------------------------------------------------------------------

Resolve(r) ==
    \/ ClaimIdempotencyKey(r) \/ TakeOverIdempotencyKey(r)
    \/ JudgeStoredClaim(r) \/ RejudgeStoredClaim(r)
    \/ LoseClaim(r) \/ FailResolving(r)

Handle(r) ==
    \/ \E kind \in {"ok", "unstorable"} : CommitHandler(r, kind)
    \/ RefuseInHandler(r) \/ FailHandler(r) \/ CancelHandler(r) \/ SendResponse(r)

Settle(r) ==
    CompleteIdempotencyKey(r) \/ ReleaseIdempotencyKey(r) \/ LoseSettlement(r)

Next ==
    \/ \E r \in Requests :
        \/ \E i \in Identities : Arrive(r, i)
        \/ Resolve(r) \/ Handle(r) \/ Settle(r) \/ CrashHandler(r)
    \/ DeleteStaleKey
    \/ Tick

Spec == Init /\ [][Next]_vars

----------------------------------------------------------------------------
(* Properties. *)

\* The requests whose handler's transaction committed: each one a side effect.
Committed == {r \in Requests : result[r] \in {"ok", "unstorable"}}

HasRow(g) == row.state # "absent" /\ row.generation = g

\* The replay window of the request's generation is over.
IsLapsed(r) == bornAt[r] + Window < now

\* A handler at work owns the claim it runs under: until the replay window is over nobody has
\* taken it over, released it or completed it, so no second handler runs beside it.  Lease and
\* timeout together promise this (constants/idempotency.py); no lock is held while a handler runs.
HandlerHoldsItsClaim ==
    \A r \in Requests : pc[r] \in Running =>
        IF HasRow(gen[r]) THEN row.state = "in_progress" /\ row.token = r ELSE IsLapsed(r)

\* Spec B-17: once a response is stored, no request claims the key afresh, and so runs a handler
\* again, before the replay window of that response is over.
StoredAnswerHoldsWindow ==
    \A r, s \in Requests :
        fate[s] = "stored" /\ gen[s] < gen[r] => bornAt[s] + Window < bornAt[r]

\* The generation, from which a route derives the key it sends a provider, is replaced inside its
\* window only after a holder released it: a takeover keeps it, whoever crashed or was superseded.
NewGenerationNeedsRelease ==
    \A r \in Requests : gen[r] > 0 /\ ~HasRow(gen[r]) =>
        IsLapsed(r) \/ \E t \in Requests : gen[t] = gen[r] /\ fate[t] = "released"

\* A replay sends what the handler of the same method, path and body sent its own client, and
\* that handler did not fail.
ReplayIsFaithful ==
    \A r \in Requests : answer[r] = "replay" =>
        \E s \in Requests :
            /\ replayOf[r] = s
            /\ identity[s] = identity[r]
            /\ fate[s] = "stored" /\ answer[s] = "handler"
            /\ result[s] \in {"ok", "refused"}

\* Spec B-53 and B-17 on the row: a completed claim inside its window is never touched again, not
\* by the late completion or release of a superseded holder, nor by a takeover or the cleanup.
CompletedClaimIsFinal ==
    [][row.state = "completed" /\ now <= row.createdAt + Window => row' = row]_vars

\* Every request that arrives is answered or dies with its process: neither the retried insert nor
\* a takeover that keeps losing goes on forever.
EveryRequestEnds ==
    \A r \in Requests : pc[r] = "claim" ~> pc[r] = "done"

\* What the module promises, in a model without rows, leases or time.
OncePerGeneration ==
    INSTANCE StoredOnce WITH
        generation <- gen,
        committed <- Committed,
        stored <- {r \in Requests : fate[r] = "stored"},
        replayOf <- replayOf

Refinement == OncePerGeneration!Spec

\* The user story's promise (docs/user-stories/infrastructure.md:206) and the reason given for the
\* shielded settlement (middleware/idempotency.py:229-231): when no process dies, no settlement is
\* lost and every answer can be stored, one operation retried with its key commits once a window.
NeverTwiceWithoutFault ==
    (\A t \in Requests : fate[t] \notin {"lost", "superseded"} /\ result[t] # "unstorable") =>
        \A r, s \in Committed :
            r # s /\ identity[r] = identity[s] /\ bornAt[r] <= bornAt[s] =>
                bornAt[r] + Window < bornAt[s]
============================================================================
