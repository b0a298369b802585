----------------------- MODULE IdempotencyKeys_proofs -----------------------
(***************************************************************************)
(* Machine-checked proofs about IdempotencyKeys: its safety invariants for *)
(* any number of requests, any timeout, lease and window, and that it      *)
(* implements StoredOnce.                                                  *)
(*                                                                         *)
(* The inductive invariant IInv adds to the properties what they rest on:  *)
(* how far a request can be at each program counter, that the row names    *)
(* its newest holder, and that the lease of a live handler outlasts it.    *)
(***************************************************************************)
EXTENDS IdempotencyKeys, TLAPS

\* Generations are handed out in order, and the row belongs to the newest one and to a holder of
\* it, whose birth and identity it carries.
RowIsNewest ==
    /\ \A r \in Requests : gen[r] < nextGen
    /\ row.state # "absent" =>
        /\ row.generation > 0 /\ nextGen = row.generation + 1
        /\ row.token \in Requests
        /\ gen[row.token] = row.generation
        /\ identity[row.token] = row.identity
        /\ \A r \in Requests : gen[r] = row.generation => bornAt[r] = row.createdAt

\* What a request has done is what its place in the protocol says.
PlaceTellsProgress ==
    \A r \in Requests :
        /\ pc[r] \in {"idle"} \cup Resolving =>
            gen[r] = 0 /\ fate[r] = "none" /\ result[r] = "none"
        /\ pc[r] \in Running \cup Settling => gen[r] > 0 /\ fate[r] = "none"
        /\ pc[r] = "run" => result[r] = "none"
        /\ pc[r] = "sending" => result[r] \in {"ok", "unstorable", "refused"}
        /\ pc[r] = "complete" => result[r] \in {"ok", "refused"} /\ answer[r] = "handler"
        /\ pc[r] # "done" => replayOf[r] = None /\ answer[r] # "replay"
        /\ gen[r] > 0 => replayOf[r] = None /\ answer[r] # "replay"
        /\ fate[r] = "stored" =>
            /\ pc[r] = "done" /\ gen[r] > 0
            /\ result[r] \in {"ok", "refused"} /\ answer[r] = "handler"

\* The timeout has not passed a request that still runs.
AliveInTime ==
    \A r \in Requests : IsAlive(r) => startedAt[r] <= now /\ now <= startedAt[r] + Timeout

\* HandlerHoldsItsClaim, with the reason: the lease outlasts the handler's deadline.
LeaseOutlastsHandler ==
    \A r \in Requests : pc[r] \in Running =>
        IF HasRow(gen[r])
        THEN /\ row.state = "in_progress" /\ row.token = r
             /\ startedAt[r] + Timeout <= row.lockedUntil
        ELSE IsLapsed(r)

\* A stored response is on the row until its window is over, and a completed row has one.
StoredIsOnRow ==
    /\ \A s \in Requests : fate[s] = "stored" =>
        IF HasRow(gen[s])
        THEN row.state = "completed" /\ row.token = s
        ELSE IsLapsed(s)
    /\ row.state = "completed" => row.response = row.token /\ fate[row.token] = "stored"

\* No handler runs in a generation that has its response.
NoHandlerInStored ==
    \A r, s \in Requests : pc[r] \in Running /\ fate[s] = "stored" => gen[r] # gen[s]

IInv ==
    /\ TypeOK /\ RowIsNewest /\ PlaceTellsProgress /\ AliveInTime
    /\ LeaseOutlastsHandler /\ StoredIsOnRow /\ NoHandlerInStored
    /\ StoredAnswerHoldsWindow /\ NewGenerationNeedsRelease /\ ReplayIsFaithful

----------------------------------------------------------------------------
(* Type correctness. *)

\* Initially no request has arrived and the row is absent.
LEMMA TypeInit == Init => TypeOK
  BY NoneAssumption DEF Init, TypeOK, Row, Absent, Results, Fates, Answers

\* No statement writes a value outside the types.
LEMMA TypeStep == TypeOK /\ [Next]_vars => TypeOK'
<1> SUFFICES ASSUME TypeOK, [Next]_vars PROVE TypeOK'
  OBVIOUS
<1> USE TimingAssumption DEF TypeOK, Resolving, Running, Settling, requestVars, claimVars, outcomeVars
<1>1. ASSUME NEW r \in Requests, NEW i \in Identities, Arrive(r, i) PROVE TypeOK'
  BY <1>1 DEF Arrive
<1>2. ASSUME NEW r \in Requests, InsertClaim(r)
      PROVE  row' \in Row /\ nextGen' \in Nat /\ gen' \in [Requests -> Nat] /\ bornAt' \in [Requests -> Nat]
  BY <1>2 DEF InsertClaim, Row
<1>3. ASSUME NEW r \in Requests, ExtendClaim(r)
      PROVE  row' \in Row /\ nextGen' \in Nat /\ gen' \in [Requests -> Nat] /\ bornAt' \in [Requests -> Nat]
  <2>1. row.generation \in Nat /\ row.createdAt \in Nat
    BY DEF Row
  <2> DEFINE held == [row EXCEPT !.token = r]
  <2>2. held \in Row
    BY DEF Row
  <2>3. [held EXCEPT !.lockedUntil = now + Lease] \in Row
    <3> HIDE DEF held
    <3> QED BY <2>2 DEF Row
  <2>4. row' = [held EXCEPT !.lockedUntil = now + Lease]
    BY <1>3 DEF ExtendClaim, Row
  <2> QED BY <1>3, <2>1, <2>3, <2>4 DEF ExtendClaim
<1>4. ASSUME NEW r \in Requests, ClaimIdempotencyKey(r) PROVE TypeOK'
  BY <1>2, <1>4 DEF ClaimIdempotencyKey
<1>5. ASSUME NEW r \in Requests, TakeOverIdempotencyKey(r) PROVE TypeOK'
  BY <1>3, <1>5 DEF TakeOverIdempotencyKey
<1>6. ASSUME NEW r \in Requests, LoseClaim(r) PROVE TypeOK'
  BY <1>2, <1>3, <1>6 DEF LoseClaim, Leave, Fates, Answers
<1>7. ASSUME NEW r \in Requests, Judge(r)
      PROVE  /\ pc' \in [Requests -> {"idle", "done"} \cup Resolving \cup Running \cup Settling]
             /\ startedAt' \in [Requests -> Nat] /\ attempt' \in [Requests -> Nat]
             /\ answer' \in [Requests -> Answers] /\ replayOf' \in [Requests -> Requests \cup {None}]
  <2>1. CASE RetryInsert(r)
    BY <2>1 DEF RetryInsert, Refuse, Leave, Answers
  <2>2. CASE Decide(r) \in {"reused", "in_progress"} /\ Refuse(r, Decide(r))
    BY <2>2 DEF Refuse, Leave, Answers
  <2>3. CASE Replay(r)
    BY <2>3 DEF Replay, Leave, Answers, Row
  <2> QED BY <1>7, <2>1, <2>2, <2>3 DEF Judge
<1>8. ASSUME NEW r \in Requests, JudgeStoredClaim(r) \/ RejudgeStoredClaim(r) PROVE TypeOK'
  BY <1>7, <1>8 DEF JudgeStoredClaim, RejudgeStoredClaim, Refuse, Leave, Answers
<1>9. ASSUME NEW r \in Requests, FailResolving(r) PROVE TypeOK'
  BY <1>9 DEF FailResolving, Leave, Answers
<1>10. ASSUME NEW r \in Requests, NEW kind \in {"ok", "unstorable"}, CommitHandler(r, kind) PROVE TypeOK'
  BY <1>10 DEF CommitHandler, Results
<1>11. ASSUME NEW r \in Requests, RefuseInHandler(r) \/ FailHandler(r) \/ CancelHandler(r) PROVE TypeOK'
  BY <1>11 DEF RefuseInHandler, FailHandler, CancelHandler, Leave, Results, Answers
<1>12. ASSUME NEW r \in Requests, SendResponse(r) PROVE TypeOK'
  BY <1>12 DEF SendResponse, Leave, Answers
<1>13. ASSUME NEW r \in Requests, CompleteIdempotencyKey(r) PROVE TypeOK'
  BY <1>13 DEF CompleteIdempotencyKey, Row, Fates
<1>14. ASSUME NEW r \in Requests, ReleaseIdempotencyKey(r) PROVE TypeOK'
  BY <1>14 DEF ReleaseIdempotencyKey, Row, Absent, Fates
<1>15. ASSUME NEW r \in Requests, LoseSettlement(r) \/ CrashHandler(r) PROVE TypeOK'
  BY <1>15 DEF LoseSettlement, CrashHandler, Leave, Results, Fates, Answers
<1>16. CASE DeleteStaleKey
  BY <1>16 DEF DeleteStaleKey, Row, Absent
<1>17. CASE Tick
  BY <1>17 DEF Tick
<1>18. CASE UNCHANGED vars
  BY <1>18 DEF vars
<1> QED
  BY <1>1, <1>4, <1>5, <1>6, <1>8, <1>9, <1>10, <1>11, <1>12, <1>13, <1>14, <1>15, <1>16, <1>17, <1>18
     DEF Next, Resolve, Handle, Settle

\* Every variable keeps its type in every state of the protocol.
THEOREM TypeCorrect == Spec => []TypeOK
  BY TypeInit, TypeStep, PTL DEF Spec

----------------------------------------------------------------------------
(* The row and the generations. *)

\* What a step can do to the row and to the claims, whoever takes it.
LEMMA RowSteps ==
  ASSUME TypeOK, [Next]_vars
  PROVE  \/ UNCHANGED <<row, nextGen, gen, bornAt, identity>>
         \/ /\ \E r \in Requests, i \in Identities : Arrive(r, i)
            /\ UNCHANGED <<row, nextGen, gen, bornAt>>
         \/ /\ \E r \in Requests : pc[r] = "claim" /\ InsertClaim(r)
            /\ UNCHANGED <<now, identity>>
         \/ /\ \E r \in Requests : pc[r] = "take" /\ ExtendClaim(r)
            /\ UNCHANGED <<now, identity>>
         \/ /\ \E r \in Requests : CompleteIdempotencyKey(r) /\ HoldsClaim(r)
            /\ row' = [row EXCEPT !.state = "completed", !.response = row.token]
            /\ UNCHANGED <<now, nextGen, gen, bornAt, identity>>
         \/ /\ \/ \E r \in Requests : ReleaseIdempotencyKey(r) /\ HoldsClaim(r)
               \/ DeleteStaleKey
            /\ row' = Absent
            /\ UNCHANGED <<now, nextGen, gen, bornAt, identity>>
<1> DEFINE Quiet == UNCHANGED <<row, nextGen, gen, bornAt, identity>>
<1> USE DEF requestVars, claimVars, outcomeVars
<1>1. ASSUME NEW r \in Requests, NEW i \in Identities, Arrive(r, i)
      PROVE  UNCHANGED <<row, nextGen, gen, bornAt>>
  BY <1>1 DEF Arrive
<1>2. ASSUME NEW r \in Requests, ClaimIdempotencyKey(r)
      PROVE  Quiet \/ (pc[r] = "claim" /\ InsertClaim(r) /\ UNCHANGED <<now, identity>>)
  BY <1>2 DEF ClaimIdempotencyKey
<1>3. ASSUME NEW r \in Requests, TakeOverIdempotencyKey(r)
      PROVE  Quiet \/ (pc[r] = "take" /\ ExtendClaim(r) /\ UNCHANGED <<now, identity>>)
  BY <1>3 DEF TakeOverIdempotencyKey
<1>4. ASSUME NEW r \in Requests, LoseClaim(r)
      PROVE  \/ pc[r] = "claim" /\ InsertClaim(r) /\ UNCHANGED <<now, identity>>
             \/ pc[r] = "take" /\ ExtendClaim(r) /\ UNCHANGED <<now, identity>>
  BY <1>4 DEF LoseClaim
<1>5. ASSUME NEW r \in Requests, JudgeStoredClaim(r) \/ RejudgeStoredClaim(r) \/ FailResolving(r)
      PROVE  Quiet
  BY <1>5 DEF JudgeStoredClaim, RejudgeStoredClaim, FailResolving
<1>6. ASSUME NEW r \in Requests, Handle(r) PROVE Quiet
  BY <1>6 DEF Handle, CommitHandler, RefuseInHandler, FailHandler, CancelHandler, SendResponse
<1>7. ASSUME NEW r \in Requests, CompleteIdempotencyKey(r)
      PROVE  \/ Quiet
             \/ /\ HoldsClaim(r)
                /\ row' = [row EXCEPT !.state = "completed", !.response = row.token]
                /\ UNCHANGED <<now, nextGen, gen, bornAt, identity>>
  BY <1>7 DEF CompleteIdempotencyKey, HoldsClaim
<1>8. ASSUME NEW r \in Requests, ReleaseIdempotencyKey(r)
      PROVE  \/ Quiet
             \/ HoldsClaim(r) /\ row' = Absent /\ UNCHANGED <<now, nextGen, gen, bornAt, identity>>
  BY <1>8 DEF ReleaseIdempotencyKey
<1>9. ASSUME NEW r \in Requests, LoseSettlement(r) \/ CrashHandler(r) PROVE Quiet
  BY <1>9 DEF LoseSettlement, CrashHandler
<1>10. CASE DeleteStaleKey
  BY <1>10 DEF DeleteStaleKey
<1>11. CASE Tick \/ UNCHANGED vars
  BY <1>11 DEF Tick, vars
<1> QED
  BY <1>1, <1>2, <1>3, <1>4, <1>5, <1>6, <1>7, <1>8, <1>9, <1>10, <1>11
     DEF Next, Resolve, Settle

\* Every step keeps the row the newest generation, bound to its holder's request.
LEMMA RowIsNewestStep == IInv /\ [Next]_vars => RowIsNewest'
<1> SUFFICES ASSUME IInv, [Next]_vars PROVE RowIsNewest'
  OBVIOUS
<1> USE DEF IInv, TypeOK, Row
<1>1. CASE UNCHANGED <<row, nextGen, gen, bornAt, identity>>
  BY <1>1 DEF RowIsNewest
<1>2. ASSUME NEW r \in Requests, NEW i \in Identities, Arrive(r, i),
             UNCHANGED <<row, nextGen, gen, bornAt>>
      PROVE  RowIsNewest'
  <2>1. gen[r] = 0
    BY <1>2 DEF Arrive, PlaceTellsProgress
  <2> QED BY <1>2, <2>1 DEF Arrive, RowIsNewest
<1>3. ASSUME NEW r \in Requests, InsertClaim(r), UNCHANGED identity PROVE RowIsNewest'
  <2>1. \A q \in Requests : gen[q] < nextGen
    BY DEF RowIsNewest
  <2> QED BY <1>3, <2>1 DEF InsertClaim, RowIsNewest
<1>4. ASSUME NEW r \in Requests, ExtendClaim(r), UNCHANGED identity PROVE RowIsNewest'
  <2>1. row.state # "absent" /\ row.identity = identity[r]
    BY <1>4 DEF ExtendClaim, CanTakeOver
  <2>2. /\ row'.state = row.state /\ row'.token = r /\ row'.identity = row.identity
        /\ row'.generation = row.generation /\ row'.createdAt = row.createdAt
    BY <1>4 DEF ExtendClaim
  <2>3. /\ gen' = [gen EXCEPT ![r] = row.generation]
        /\ bornAt' = [bornAt EXCEPT ![r] = row.createdAt]
        /\ nextGen' = nextGen
    BY <1>4 DEF ExtendClaim
  <2> QED BY <1>4, <2>1, <2>2, <2>3 DEF RowIsNewest
<1>5. ASSUME NEW r \in Requests, HoldsClaim(r),
             row' = [row EXCEPT !.state = "completed", !.response = row.token],
             UNCHANGED <<nextGen, gen, bornAt, identity>>
      PROVE  RowIsNewest'
  BY <1>5 DEF HoldsClaim, RowIsNewest
<1>6. CASE row' = Absent /\ UNCHANGED <<nextGen, gen>>
  BY <1>6 DEF Absent, RowIsNewest
<1> QED BY <1>1, <1>2, <1>3, <1>4, <1>5, <1>6, RowSteps

----------------------------------------------------------------------------
(* Where each request is, and its time. *)

\* Every step keeps a request's record in line with its place in the protocol.
LEMMA PlaceStep == IInv /\ [Next]_vars => PlaceTellsProgress'
<1> SUFFICES ASSUME IInv, [Next]_vars PROVE PlaceTellsProgress'
  OBVIOUS
<1> USE DEF PlaceTellsProgress, Resolving, Running, Settling, requestVars, claimVars, outcomeVars
<1>0. TypeOK /\ PlaceTellsProgress /\ RowIsNewest
  BY DEF IInv
<1> USE <1>0 DEF TypeOK
<1>1. ASSUME NEW r \in Requests, NEW i \in Identities, Arrive(r, i) PROVE PlaceTellsProgress'
  BY <1>1 DEF Arrive
<1>2. ASSUME NEW r \in Requests, InsertClaim(r) \/ ExtendClaim(r)
      PROVE  \E g \in Nat \ {0} : gen' = [gen EXCEPT ![r] = g]
  BY <1>2 DEF InsertClaim, ExtendClaim, CanTakeOver, RowIsNewest, Row
<1>3. ASSUME NEW r \in Requests, ClaimIdempotencyKey(r) PROVE PlaceTellsProgress'
  BY <1>2, <1>3 DEF ClaimIdempotencyKey
<1>4. ASSUME NEW r \in Requests, TakeOverIdempotencyKey(r) PROVE PlaceTellsProgress'
  BY <1>2, <1>4 DEF TakeOverIdempotencyKey
<1>5. ASSUME NEW r \in Requests, LoseClaim(r) PROVE PlaceTellsProgress'
  BY <1>2, <1>5 DEF LoseClaim, Leave
<1>6. ASSUME NEW r \in Requests, JudgeStoredClaim(r) \/ RejudgeStoredClaim(r)
      PROVE  PlaceTellsProgress'
  BY <1>6 DEF JudgeStoredClaim, RejudgeStoredClaim, Judge, RetryInsert, Refuse, Replay, Leave
<1>7. ASSUME NEW r \in Requests, FailResolving(r) PROVE PlaceTellsProgress'
  BY <1>7 DEF FailResolving, Leave
<1>8. ASSUME NEW r \in Requests, NEW kind \in {"ok", "unstorable"}, CommitHandler(r, kind)
      PROVE  PlaceTellsProgress'
  BY <1>8 DEF CommitHandler
<1>9. ASSUME NEW r \in Requests, RefuseInHandler(r) \/ FailHandler(r) \/ CancelHandler(r)
      PROVE  PlaceTellsProgress'
  BY <1>9 DEF RefuseInHandler, FailHandler, CancelHandler, Leave
<1>10. ASSUME NEW r \in Requests, SendResponse(r) PROVE PlaceTellsProgress'
  BY <1>10 DEF SendResponse, Leave
<1>11. ASSUME NEW r \in Requests, CompleteIdempotencyKey(r) PROVE PlaceTellsProgress'
  BY <1>11 DEF CompleteIdempotencyKey
<1>12. ASSUME NEW r \in Requests, ReleaseIdempotencyKey(r) \/ LoseSettlement(r)
       PROVE  PlaceTellsProgress'
  BY <1>12 DEF ReleaseIdempotencyKey, LoseSettlement
<1>13. ASSUME NEW r \in Requests, CrashHandler(r) PROVE PlaceTellsProgress'
  BY <1>13 DEF CrashHandler, Leave
<1>14. CASE DeleteStaleKey \/ Tick \/ UNCHANGED vars
  BY <1>14 DEF DeleteStaleKey, Tick, vars
<1> QED
  BY <1>1, <1>3, <1>4, <1>5, <1>6, <1>7, <1>8, <1>9, <1>10, <1>11, <1>12, <1>13, <1>14
     DEF Next, Resolve, Handle, Settle

\* Every step, and above all a tick, leaves the live requests within their timeout.
LEMMA AliveStep == IInv /\ [Next]_vars => AliveInTime'
<1> SUFFICES ASSUME IInv, [Next]_vars PROVE AliveInTime'
  OBVIOUS
<1> USE TimingAssumption DEF AliveInTime, IsAlive, Resolving, Running, Settling, requestVars, claimVars, outcomeVars
<1>0. TypeOK /\ AliveInTime
  BY DEF IInv
<1> USE <1>0 DEF TypeOK
<1>1. ASSUME NEW r \in Requests, NEW i \in Identities, Arrive(r, i) PROVE AliveInTime'
  BY <1>1 DEF Arrive
<1>2. ASSUME NEW r \in Requests, NEW place \in {"done", "complete", "release"}, Leave(r, place), now' = now
      PROVE  AliveInTime'
  BY <1>2 DEF Leave
<1>3. ASSUME NEW r \in Requests, pc[r] \in Resolving \cup Running,
             NEW place \in STRING, pc' = [pc EXCEPT ![r] = place], UNCHANGED <<now, startedAt>>
      PROVE  AliveInTime'
  BY <1>3
<1>4. ASSUME NEW r \in Requests, NEW place \in {"done"},
             pc' = [pc EXCEPT ![r] = place], UNCHANGED <<now, startedAt>>
      PROVE  AliveInTime'
  BY <1>4
<1>5. ASSUME NEW r \in Requests, Resolve(r) PROVE AliveInTime'
  BY <1>2, <1>3, <1>5 DEF Resolve, ClaimIdempotencyKey, TakeOverIdempotencyKey, LoseClaim, FailResolving,
     JudgeStoredClaim, RejudgeStoredClaim, Judge, RetryInsert, Refuse, Replay
<1>6. ASSUME NEW r \in Requests, Handle(r) PROVE AliveInTime'
  BY <1>2, <1>3, <1>6 DEF Handle, CommitHandler, RefuseInHandler, FailHandler, CancelHandler, SendResponse
<1>7. ASSUME NEW r \in Requests, Settle(r) \/ CrashHandler(r) PROVE AliveInTime'
  BY <1>2, <1>4, <1>7 DEF Settle, CompleteIdempotencyKey, ReleaseIdempotencyKey, LoseSettlement, CrashHandler
<1>8. CASE Tick
  BY <1>8 DEF Tick
<1>9. CASE DeleteStaleKey \/ UNCHANGED vars
  BY <1>9 DEF DeleteStaleKey, vars
<1> QED BY <1>1, <1>5, <1>6, <1>7, <1>8, <1>9 DEF Next

----------------------------------------------------------------------------
(* What one step does to any one request. *)

\* A claim once taken keeps its generation and its birth; time does not go back.
LEMMA ClaimsAreKept ==
  ASSUME IInv, [Next]_vars
  PROVE  /\ now <= now'
         /\ \A q \in Requests : gen[q] > 0 => gen'[q] = gen[q] /\ bornAt'[q] = bornAt[q]
<1> USE DEF requestVars, claimVars, outcomeVars
<1>0. TypeOK /\ PlaceTellsProgress
  BY DEF IInv
<1>1. now <= now'
  <2>1. ASSUME NEW r \in Requests, Resolve(r) PROVE now' = now
    BY <2>1 DEF Resolve, ClaimIdempotencyKey, TakeOverIdempotencyKey, LoseClaim, FailResolving,
       JudgeStoredClaim, RejudgeStoredClaim
  <2>2. ASSUME NEW r \in Requests, Handle(r) PROVE now' = now
    BY <2>2 DEF Handle, CommitHandler, RefuseInHandler, FailHandler, CancelHandler, SendResponse
  <2>3. ASSUME NEW r \in Requests, Settle(r) \/ CrashHandler(r) PROVE now' = now
    BY <2>3 DEF Settle, CompleteIdempotencyKey, ReleaseIdempotencyKey, LoseSettlement, CrashHandler
  <2>4. ASSUME NEW r \in Requests, NEW i \in Identities, Arrive(r, i) PROVE now' = now
    BY <2>4 DEF Arrive
  <2>5. CASE DeleteStaleKey \/ Tick \/ UNCHANGED vars
    BY <2>5, <1>0 DEF DeleteStaleKey, Tick, vars, TypeOK
  <2> QED BY <1>0, <2>1, <2>2, <2>3, <2>4, <2>5 DEF Next, TypeOK
<1>2. ASSUME NEW r \in Requests, pc[r] \in Resolving, InsertClaim(r) \/ ExtendClaim(r),
             NEW q \in Requests, gen[q] > 0
      PROVE  gen'[q] = gen[q] /\ bornAt'[q] = bornAt[q]
  <2>1. r # q
    BY <1>0, <1>2 DEF PlaceTellsProgress
  <2> QED BY <1>0, <1>2, <2>1 DEF InsertClaim, ExtendClaim, TypeOK
<1> QED BY <1>0, <1>1, <1>2, RowSteps DEF Resolving

\* A request starts its handler only by taking the claim, and keeps its deadline.
LEMMA RunningSteps ==
  ASSUME IInv, [Next]_vars, NEW q \in Requests, pc'[q] \in Running
  PROVE  /\ startedAt'[q] = startedAt[q]
         /\ \/ pc[q] \in Running
            \/ now' = now /\ pc[q] = "claim" /\ InsertClaim(q)
            \/ now' = now /\ pc[q] = "take" /\ ExtendClaim(q)
<1> USE DEF Running, requestVars, claimVars, outcomeVars
<1>0. TypeOK
  BY DEF IInv
<1> USE <1>0 DEF TypeOK
<1>1. ASSUME NEW r \in Requests, NEW i \in Identities, Arrive(r, i)
      PROVE  pc[q] \in Running /\ startedAt'[q] = startedAt[q]
  BY <1>1 DEF Arrive
<1>2. ASSUME NEW r \in Requests, NEW place \in {"done", "complete", "release"}, Leave(r, place)
      PROVE  pc[q] \in Running /\ startedAt'[q] = startedAt[q]
  BY <1>2 DEF Leave
<1>3. ASSUME NEW r \in Requests, ClaimIdempotencyKey(r) \/ TakeOverIdempotencyKey(r)
      PROVE  /\ startedAt'[q] = startedAt[q]
             /\ \/ pc[q] \in Running
                \/ now' = now /\ pc[q] = "claim" /\ InsertClaim(q)
                \/ now' = now /\ pc[q] = "take" /\ ExtendClaim(q)
  BY <1>3 DEF ClaimIdempotencyKey, TakeOverIdempotencyKey
<1>4. ASSUME NEW r \in Requests,
             \/ LoseClaim(r) \/ FailResolving(r) \/ JudgeStoredClaim(r) \/ RejudgeStoredClaim(r)
      PROVE  pc[q] \in Running /\ startedAt'[q] = startedAt[q]
  BY <1>2, <1>4 DEF LoseClaim, FailResolving, JudgeStoredClaim, RejudgeStoredClaim, Judge,
     RetryInsert, Refuse, Replay
<1>5. ASSUME NEW r \in Requests, Handle(r) PROVE pc[q] \in Running /\ startedAt'[q] = startedAt[q]
  BY <1>2, <1>5 DEF Handle, CommitHandler, RefuseInHandler, FailHandler, CancelHandler, SendResponse
<1>6. ASSUME NEW r \in Requests, Settle(r) \/ CrashHandler(r)
      PROVE  pc[q] \in Running /\ startedAt'[q] = startedAt[q]
  BY <1>2, <1>6 DEF Settle, CompleteIdempotencyKey, ReleaseIdempotencyKey, LoseSettlement, CrashHandler
<1>7. CASE DeleteStaleKey \/ Tick \/ UNCHANGED vars
  BY <1>7 DEF DeleteStaleKey, Tick, vars
<1> QED BY <1>1, <1>3, <1>4, <1>5, <1>6, <1>7 DEF Next, Resolve

\* A fate is decided once, and only a completion that holds the claim decides "stored".
LEMMA FateSteps ==
  ASSUME IInv, [Next]_vars, NEW q \in Requests
  PROVE  /\ fate[q] \in {"stored", "released"} => fate'[q] = fate[q]
         /\ fate'[q] = "stored" /\ fate[q] # "stored" => CompleteIdempotencyKey(q) /\ HoldsClaim(q)
<1> USE DEF requestVars, claimVars, outcomeVars
<1>0. TypeOK /\ PlaceTellsProgress
  BY DEF IInv
<1>1. ASSUME NEW r \in Requests, pc[r] \notin {"idle", "done"} PROVE fate[r] = "none"
  BY <1>0, <1>1 DEF PlaceTellsProgress, TypeOK
<1>2. ASSUME NEW r \in Requests, NEW f \in {"superseded", "released", "lost"},
             pc[r] \notin {"idle", "done"}, fate' = [fate EXCEPT ![r] = f]
      PROVE  /\ fate[q] \in {"stored", "released"} => fate'[q] = fate[q]
             /\ fate'[q] = "stored" => fate[q] = "stored"
  BY <1>0, <1>1, <1>2 DEF TypeOK
<1>3. ASSUME NEW r \in Requests, CompleteIdempotencyKey(r)
      PROVE  /\ fate[q] \in {"stored", "released"} => fate'[q] = fate[q]
             /\ fate'[q] = "stored" /\ fate[q] # "stored" => CompleteIdempotencyKey(q) /\ HoldsClaim(q)
  BY <1>0, <1>1, <1>3 DEF CompleteIdempotencyKey, TypeOK
<1>4. ASSUME NEW r \in Requests, LoseClaim(r) \/ ReleaseIdempotencyKey(r) \/ LoseSettlement(r) \/ CrashHandler(r)
      PROVE  /\ fate[q] \in {"stored", "released"} => fate'[q] = fate[q]
             /\ fate'[q] = "stored" => fate[q] = "stored"
  BY <1>2, <1>4 DEF LoseClaim, ReleaseIdempotencyKey, LoseSettlement, CrashHandler, Settling, Running
<1>5. ASSUME NEW r \in Requests,
             \/ ClaimIdempotencyKey(r) \/ TakeOverIdempotencyKey(r)
             \/ FailResolving(r) \/ JudgeStoredClaim(r) \/ RejudgeStoredClaim(r) \/ Handle(r)
             \/ \E i \in Identities : Arrive(r, i)
      PROVE  fate' = fate
  BY <1>5 DEF ClaimIdempotencyKey, TakeOverIdempotencyKey, FailResolving, JudgeStoredClaim,
     RejudgeStoredClaim, Handle, CommitHandler, RefuseInHandler, FailHandler, CancelHandler,
     SendResponse, Arrive
<1>6. CASE DeleteStaleKey \/ Tick \/ UNCHANGED vars
  BY <1>6 DEF DeleteStaleKey, Tick, vars
<1> QED BY <1>3, <1>4, <1>5, <1>6 DEF Next, Resolve, Settle

----------------------------------------------------------------------------
(* The safety invariants. *)

\* How a step can move the row under a request that took a generation: off that generation, which
\* is over unless its holder settles it, or on within it, if the lease is over or the holder settles.
LEMMA RowMoves ==
  ASSUME IInv, [Next]_vars, NEW q \in Requests, gen[q] > 0
  PROVE  \/ row' = row
         \/ ~HasRow(gen[q])' /\ (HasRow(gen[q]) => IsLapsed(q))
         \/ /\ HasRow(gen[q])' => HasRow(gen[q])
            /\ row.state = "in_progress" /\ row.lockedUntil < now
         \/ /\ HasRow(gen[q])' => HasRow(gen[q])
            /\ row.state # "absent" /\ row.token \in Requests /\ pc[row.token] \in Settling
<1>a. TypeOK /\ RowIsNewest
  BY DEF IInv
<1>b. gen'[q] = gen[q]
  BY ClaimsAreKept
<1> USE <1>a DEF HasRow, IsLapsed
<1>1. ASSUME NEW r \in Requests, InsertClaim(r)
      PROVE  ~HasRow(gen[q])' /\ (HasRow(gen[q]) => IsLapsed(q))
  <2>1. row'.generation = nextGen /\ gen[q] < nextGen
    BY <1>1 DEF InsertClaim, RowIsNewest
  <2>2. HasRow(gen[q]) => bornAt[q] = row.createdAt
    BY DEF RowIsNewest
  <2> QED BY <1>1, <1>b, <2>1, <2>2 DEF InsertClaim, IsClaimable, TypeOK
<1>2. ASSUME NEW r \in Requests, ExtendClaim(r)
      PROVE  /\ HasRow(gen[q])' => HasRow(gen[q])
             /\ row.state = "in_progress" /\ row.lockedUntil < now
  <2>1. row' = [row EXCEPT !.token = r, !.lockedUntil = now + Lease]
    BY <1>2 DEF ExtendClaim
  <2>2. row'.state = row.state /\ row'.generation = row.generation
    BY <2>1 DEF TypeOK, Row
  <2> QED BY <1>2, <1>b, <2>2 DEF ExtendClaim, CanTakeOver
<1>3. ASSUME NEW r \in Requests, pc[r] \in Settling, HoldsClaim(r),
             row'.state = "absent" \/ row'.generation = row.generation
      PROVE  /\ HasRow(gen[q])' => HasRow(gen[q])
             /\ row.state # "absent" /\ row.token \in Requests /\ pc[row.token] \in Settling
  BY <1>3, <1>b DEF HoldsClaim
<1>4. ASSUME NEW r \in Requests, CompleteIdempotencyKey(r), HoldsClaim(r),
             row' = [row EXCEPT !.state = "completed", !.response = row.token]
      PROVE  pc[r] \in Settling /\ row'.generation = row.generation
  BY <1>4 DEF CompleteIdempotencyKey, Settling, TypeOK, Row
<1>5. ASSUME NEW r \in Requests, ReleaseIdempotencyKey(r), row' = Absent
      PROVE  pc[r] \in Settling /\ row'.state = "absent"
  BY <1>5 DEF ReleaseIdempotencyKey, Settling, Absent
<1>6. CASE DeleteStaleKey
  BY <1>6, <1>b DEF DeleteStaleKey, Absent, RowIsNewest, TypeOK, Row
<1> QED BY <1>1, <1>2, <1>3, <1>4, <1>5, <1>6, RowSteps

\* No step takes the row from a running handler inside its window: its lease has not expired.
LEMMA LeaseStep == IInv /\ [Next]_vars => LeaseOutlastsHandler'
<1> SUFFICES ASSUME IInv, [Next]_vars, NEW q \in Requests, pc'[q] \in Running
             PROVE  IF HasRow(gen[q])'
                    THEN /\ row'.state = "in_progress" /\ row'.token = q
                         /\ startedAt'[q] + Timeout <= row'.lockedUntil
                    ELSE IsLapsed(q)'
  BY DEF LeaseOutlastsHandler
<1>a. TypeOK /\ RowIsNewest /\ PlaceTellsProgress /\ AliveInTime /\ LeaseOutlastsHandler
  BY DEF IInv
<1>b. /\ now <= now'
      /\ gen[q] > 0 => gen'[q] = gen[q] /\ bornAt'[q] = bornAt[q]
  BY ClaimsAreKept
<1>c. /\ startedAt'[q] = startedAt[q]
      /\ \/ pc[q] \in Running
         \/ now' = now /\ pc[q] = "claim" /\ InsertClaim(q)
         \/ now' = now /\ pc[q] = "take" /\ ExtendClaim(q)
  BY RunningSteps
<1> USE TimingAssumption, <1>a DEF TypeOK, Row, HasRow, IsLapsed
<1>1. CASE pc[q] \in Running
  <2>1. gen[q] > 0 /\ gen'[q] = gen[q] /\ bornAt'[q] = bornAt[q]
    BY <1>1, <1>b DEF PlaceTellsProgress
  <2>2. IF HasRow(gen[q])
        THEN row.state = "in_progress" /\ row.token = q /\ startedAt[q] + Timeout <= row.lockedUntil
        ELSE IsLapsed(q)
    BY <1>1 DEF LeaseOutlastsHandler
  <2>3. IsLapsed(q) => IsLapsed(q)'
    BY <1>b, <2>1, TypeStep
  <2>4. HasRow(gen[q]) => ~(row.lockedUntil < now)
    BY <1>1, <2>2 DEF AliveInTime, IsAlive
  <2>5. HasRow(gen[q]) => pc[row.token] \notin Settling
    BY <1>1, <2>2 DEF Running, Settling
  <2>6. CASE row' = row
    BY <1>c, <2>1, <2>2, <2>3, <2>6
  <2>7. CASE row' # row
    BY <2>1, <2>2, <2>3, <2>4, <2>5, <2>7, RowMoves
  <2> QED BY <2>6, <2>7
<1>2. CASE now' = now /\ pc[q] = "claim" /\ InsertClaim(q)
  BY <1>2, <1>c DEF InsertClaim, AliveInTime, IsAlive, Resolving
<1>3. CASE now' = now /\ pc[q] = "take" /\ ExtendClaim(q)
  <2>1. row' = [row EXCEPT !.token = q, !.lockedUntil = now + Lease] /\ gen'[q] = row.generation
    BY <1>3 DEF ExtendClaim
  <2>2. /\ row'.state = "in_progress" /\ row'.token = q /\ row'.generation = row.generation
        /\ row'.lockedUntil = now + Lease
    BY <1>3, <2>1 DEF ExtendClaim, CanTakeOver
  <2> QED BY <1>3, <1>c, <2>1, <2>2 DEF AliveInTime, IsAlive, Resolving
<1> QED BY <1>1, <1>2, <1>3, <1>c

\* No step takes a stored response off the row inside its window.
LEMMA StoredStep == IInv /\ [Next]_vars => StoredIsOnRow'
<1> SUFFICES ASSUME IInv, [Next]_vars PROVE StoredIsOnRow'
  OBVIOUS
<1>a. TypeOK /\ RowIsNewest /\ PlaceTellsProgress /\ StoredIsOnRow
  BY DEF IInv
<1>b. /\ now <= now'
      /\ \A q \in Requests : gen[q] > 0 => gen'[q] = gen[q] /\ bornAt'[q] = bornAt[q]
  BY ClaimsAreKept
<1>c. \A q \in Requests :
        /\ fate[q] \in {"stored", "released"} => fate'[q] = fate[q]
        /\ fate'[q] = "stored" /\ fate[q] # "stored" => CompleteIdempotencyKey(q) /\ HoldsClaim(q)
  BY FateSteps
<1> USE TimingAssumption, <1>a DEF TypeOK, Row, HasRow, IsLapsed
<1>1. ASSUME NEW s \in Requests, fate'[s] = "stored"
      PROVE  IF HasRow(gen[s])' THEN row'.state = "completed" /\ row'.token = s ELSE IsLapsed(s)'
  <2>1. CASE fate[s] = "stored"
    <3>1. gen[s] > 0 /\ gen'[s] = gen[s] /\ bornAt'[s] = bornAt[s] /\ now <= now'
      BY <1>b, <2>1 DEF PlaceTellsProgress
    <3>2. IF HasRow(gen[s]) THEN row.state = "completed" /\ row.token = s ELSE IsLapsed(s)
      BY <2>1 DEF StoredIsOnRow
    <3>3. IsLapsed(s) => IsLapsed(s)'
      BY <3>1, TypeStep
    <3>4. HasRow(gen[s]) => pc[row.token] \notin Settling
      BY <2>1, <3>2 DEF Settling, PlaceTellsProgress
    <3>5. CASE row' = row
      BY <3>1, <3>2, <3>3, <3>5
    <3>6. CASE row' # row
      BY <3>1, <3>2, <3>3, <3>4, <3>6, RowMoves
    <3> QED BY <3>5, <3>6
  <2>2. CASE fate[s] # "stored"
    <3>1. CompleteIdempotencyKey(s) /\ HoldsClaim(s)
      BY <1>1, <1>c, <2>2
    <3>2. row' = [row EXCEPT !.state = "completed", !.response = s]
      BY <3>1 DEF CompleteIdempotencyKey
    <3>3. row'.state = "completed" /\ row'.token = row.token /\ row'.generation = row.generation
      BY <3>2
    <3>4. gen'[s] = gen[s] /\ gen[s] = row.generation /\ row.token = s
      BY <3>1 DEF CompleteIdempotencyKey, HoldsClaim, RowIsNewest, claimVars
    <3> QED BY <3>3, <3>4
  <2> QED BY <2>1, <2>2
<1>2. ASSUME row'.state = "completed" PROVE row'.response = row'.token /\ fate'[row'.token] = "stored"
  <2>1. CASE row' = row
    BY <1>2, <1>c, <2>1 DEF StoredIsOnRow, RowIsNewest
  <2>2. ASSUME NEW r \in Requests, InsertClaim(r) \/ ExtendClaim(r) PROVE FALSE
    <3>1. CASE InsertClaim(r)
      BY <1>2, <3>1 DEF InsertClaim
    <3>2. CASE ExtendClaim(r)
      <4>1. row' = [row EXCEPT !.token = r, !.lockedUntil = now + Lease]
        BY <3>2 DEF ExtendClaim
      <4>2. row'.state = row.state
        BY <4>1
      <4> QED BY <1>2, <3>2, <4>2 DEF ExtendClaim, CanTakeOver
    <3> QED BY <2>2, <3>1, <3>2
  <2>3. ASSUME NEW r \in Requests, CompleteIdempotencyKey(r), HoldsClaim(r),
               row' = [row EXCEPT !.state = "completed", !.response = row.token]
        PROVE  row'.response = row'.token /\ fate'[row'.token] = "stored"
    <3>1. row.token = r /\ fate' = [fate EXCEPT ![r] = "stored"]
      BY <2>3 DEF CompleteIdempotencyKey, HoldsClaim
    <3>2. row'.response = row.token /\ row'.token = row.token
      BY <2>3
    <3> QED BY <3>1, <3>2
  <2> QED BY <1>2, <2>1, <2>2, <2>3, RowSteps DEF Absent
<1> QED BY <1>1, <1>2 DEF StoredIsOnRow

\* No step starts a handler in a generation that has its response.
LEMMA NoHandlerStep == IInv /\ [Next]_vars => NoHandlerInStored'
<1> SUFFICES ASSUME IInv, [Next]_vars,
                    NEW r \in Requests, NEW s \in Requests, pc'[r] \in Running, fate'[s] = "stored"
             PROVE  gen'[r] # gen'[s]
  BY DEF NoHandlerInStored
<1>a. TypeOK /\ RowIsNewest /\ PlaceTellsProgress /\ LeaseOutlastsHandler /\ StoredIsOnRow /\ NoHandlerInStored
  BY DEF IInv
<1>b. \A q \in Requests : gen[q] > 0 => gen'[q] = gen[q]
  BY ClaimsAreKept
<1>1. fate[s] = "stored" \/ (CompleteIdempotencyKey(s) /\ HoldsClaim(s))
  BY FateSteps
<1> USE <1>a DEF TypeOK, Row, HasRow
<1>2. gen[s] > 0 /\ gen'[s] = gen[s]
  BY <1>1, <1>b DEF CompleteIdempotencyKey, PlaceTellsProgress, Settling
<1>3. CASE pc[r] \in Running /\ fate[s] = "stored"
  BY <1>2, <1>3, <1>b DEF NoHandlerInStored, PlaceTellsProgress
<1>4. CASE pc[r] \in Running /\ CompleteIdempotencyKey(s) /\ HoldsClaim(s)
  <2>1. r # s
    BY <1>4 DEF CompleteIdempotencyKey, Running
  <2>2. gen'[r] = gen[r] /\ gen[s] = row.generation
    BY <1>4, <1>b DEF PlaceTellsProgress, HoldsClaim, RowIsNewest
  <2> QED BY <1>2, <1>4, <2>1, <2>2 DEF HoldsClaim, LeaseOutlastsHandler
<1>5. CASE InsertClaim(r)
  BY <1>2, <1>5 DEF InsertClaim, RowIsNewest
<1>6. CASE pc[r] = "take" /\ ExtendClaim(r)
  <2>1. gen'[r] = row.generation /\ row.state = "in_progress"
    BY <1>6 DEF ExtendClaim, CanTakeOver
  <2>2. fate[s] = "stored"
    BY <1>1, <1>6, <2>1 DEF CompleteIdempotencyKey, ExtendClaim, HoldsClaim
  <2> QED BY <1>2, <2>1, <2>2 DEF StoredIsOnRow
<1> QED BY <1>1, <1>3, <1>4, <1>5, <1>6, RunningSteps

\* No step runs a handler beside a response stored less than a window ago.
LEMMA StoredWindowStep == IInv /\ [Next]_vars => StoredAnswerHoldsWindow'
<1> SUFFICES ASSUME IInv, [Next]_vars, NEW r \in Requests, NEW s \in Requests,
                    fate'[s] = "stored", gen'[s] < gen'[r]
             PROVE  bornAt'[s] + Window < bornAt'[r]
  BY DEF StoredAnswerHoldsWindow
<1>a. TypeOK /\ RowIsNewest /\ PlaceTellsProgress /\ StoredIsOnRow /\ StoredAnswerHoldsWindow
  BY DEF IInv
<1>b. \A q \in Requests : gen[q] > 0 => gen'[q] = gen[q] /\ bornAt'[q] = bornAt[q]
  BY ClaimsAreKept
<1>1. \/ fate[s] = "stored"
      \/ CompleteIdempotencyKey(s) /\ HoldsClaim(s)
  BY FateSteps
<1>2. gen[s] > 0 /\ gen'[s] = gen[s] /\ bornAt'[s] = bornAt[s]
  BY <1>a, <1>b, <1>1 DEF CompleteIdempotencyKey, PlaceTellsProgress, Settling
<1> USE TimingAssumption, <1>a DEF TypeOK
<1>3. CASE fate[s] = "stored" /\ gen[r] > 0
  BY <1>2, <1>3, <1>b DEF StoredAnswerHoldsWindow
<1>4. CASE fate[s] = "stored" /\ gen'[r] # gen[r]
  <2>1. ASSUME InsertClaim(r) PROVE bornAt'[s] + Window < bornAt'[r]
    <3>1. bornAt'[r] = now /\ (row.state = "absent" \/ row.createdAt + Window < now)
      BY <2>1 DEF InsertClaim, IsClaimable
    <3>2. HasRow(gen[s]) => bornAt[s] = row.createdAt
      BY DEF RowIsNewest, HasRow
    <3>3. HasRow(gen[s]) \/ IsLapsed(s)
      BY <1>4 DEF StoredIsOnRow
    <3> QED BY <1>2, <3>1, <3>2, <3>3 DEF HasRow, IsLapsed, Row
  <2>2. ASSUME ExtendClaim(r) PROVE bornAt'[s] + Window < bornAt'[r]
    <3>1. gen'[r] = row.generation /\ bornAt'[r] = row.createdAt /\ row.state # "absent"
      BY <2>2 DEF ExtendClaim, CanTakeOver
    <3>2. gen[row.token] = row.generation /\ bornAt[row.token] = row.createdAt /\ row.token \in Requests
      BY <3>1 DEF RowIsNewest
    <3> QED BY <1>2, <1>4, <3>1, <3>2 DEF StoredAnswerHoldsWindow
  <2>3. InsertClaim(r) \/ ExtendClaim(r)
    BY <1>4, RowSteps DEF InsertClaim, ExtendClaim
  <2> QED BY <2>1, <2>2, <2>3
<1>5. CASE CompleteIdempotencyKey(s) /\ HoldsClaim(s)
  BY <1>2, <1>5 DEF CompleteIdempotencyKey, HoldsClaim, RowIsNewest, claimVars
<1> QED
  <2>1. CASE gen'[r] = gen[r]
    BY <1>1, <1>2, <1>3, <1>5, <2>1
  <2> QED BY <1>1, <1>4, <1>5, <2>1

\* No step starts a generation inside another one's window without a release.
LEMMA GenerationStep == IInv /\ [Next]_vars => NewGenerationNeedsRelease'
<1> SUFFICES ASSUME IInv, [Next]_vars, NEW q \in Requests, gen'[q] > 0, ~HasRow(gen[q])'
             PROVE  IsLapsed(q)' \/ \E t \in Requests : gen'[t] = gen'[q] /\ fate'[t] = "released"
  BY DEF NewGenerationNeedsRelease
<1>a. TypeOK /\ RowIsNewest /\ PlaceTellsProgress /\ NewGenerationNeedsRelease
  BY DEF IInv
<1>b. /\ now <= now'
      /\ \A r \in Requests : gen[r] > 0 => gen'[r] = gen[r] /\ bornAt'[r] = bornAt[r]
  BY ClaimsAreKept
<1>c. TypeOK'
  BY <1>a, TypeStep
<1> USE TimingAssumption, <1>a DEF TypeOK, HasRow, IsLapsed
<1>1. CASE gen[q] = 0
  <2>1. ASSUME InsertClaim(q) PROVE FALSE
    BY <2>1 DEF InsertClaim
  <2>2. ASSUME ExtendClaim(q) PROVE FALSE
    <3>1. row' = [row EXCEPT !.token = q, !.lockedUntil = now + Lease] /\ gen'[q] = row.generation
      BY <2>2 DEF ExtendClaim
    <3>2. row'.state = row.state /\ row'.generation = row.generation
      BY <3>1 DEF Row
    <3> QED BY <2>2, <3>1, <3>2 DEF ExtendClaim, CanTakeOver
  <2>3. ASSUME NEW r \in Requests, r # q, InsertClaim(r) \/ ExtendClaim(r) PROVE gen'[q] = gen[q]
    BY <2>3 DEF InsertClaim, ExtendClaim
  <2> QED BY <1>1, <2>1, <2>2, <2>3, RowSteps
<1>2. CASE gen[q] > 0 /\ ~HasRow(gen[q])
  <2>1. CASE IsLapsed(q)
    BY <1>2, <1>b, <1>c, <2>1
  <2>2. ASSUME NEW t \in Requests, gen[t] = gen[q], fate[t] = "released"
        PROVE  gen'[t] = gen'[q] /\ fate'[t] = "released"
    BY <1>2, <1>b, <2>2, FateSteps
  <2> QED BY <1>2, <2>1, <2>2 DEF NewGenerationNeedsRelease
<1>3. CASE gen[q] > 0 /\ HasRow(gen[q])
  <2>1. CASE IsLapsed(q)
    BY <1>3, <1>b, <1>c, <2>1
  <2>2. ASSUME NEW r \in Requests, ReleaseIdempotencyKey(r), HoldsClaim(r)
        PROVE  gen'[r] = gen'[q] /\ fate'[r] = "released"
    BY <1>3, <1>b, <2>2 DEF ReleaseIdempotencyKey, HoldsClaim, RowIsNewest
  <2>3. CASE ~IsLapsed(q)
    <3>1. gen'[q] = gen[q] /\ bornAt[q] = row.createdAt
      BY <1>3, <1>b DEF RowIsNewest
    <3>2. ASSUME NEW r \in Requests, InsertClaim(r) PROVE FALSE
      BY <1>3, <2>3, <3>1, <3>2 DEF InsertClaim, IsClaimable
    <3>3. ASSUME NEW r \in Requests, ExtendClaim(r) PROVE FALSE
      <4>1. row' = [row EXCEPT !.token = r, !.lockedUntil = now + Lease]
        BY <3>3 DEF ExtendClaim
      <4>2. row'.state = row.state /\ row'.generation = row.generation
        BY <4>1 DEF Row
      <4> QED BY <1>3, <3>1, <4>2
    <3>4. ASSUME row' = [row EXCEPT !.state = "completed", !.response = row.token] PROVE FALSE
      <4>1. row'.state = "completed" /\ row'.generation = row.generation
        BY <3>4 DEF Row
      <4> QED BY <1>3, <3>1, <4>1
    <3>5. row' # row
      BY <1>3, <3>1
    <3>6. ~DeleteStaleKey
      BY <2>3, <3>1 DEF DeleteStaleKey
    <3> QED BY <2>2, <3>2, <3>3, <3>4, <3>5, <3>6, RowSteps
  <2> QED BY <2>1, <2>3
<1> QED BY <1>1, <1>2, <1>3

\* What a replay saw: the row it read was completed, and in its own name.
LEMMA ReplaySteps ==
  ASSUME IInv, [Next]_vars, NEW q \in Requests, answer'[q] = "replay"
  PROVE  /\ identity'[q] = identity[q]
         /\ \/ answer[q] = "replay" /\ replayOf'[q] = replayOf[q]
            \/ /\ row.state = "completed" /\ row.identity = identity[q]
               /\ replayOf'[q] = row.response
<1>a. TypeOK /\ PlaceTellsProgress
  BY DEF IInv
<1> DEFINE Kept == identity'[q] = identity[q] /\ answer[q] = "replay" /\ replayOf'[q] = replayOf[q]
           Read == /\ identity'[q] = identity[q]
                   /\ row.state = "completed" /\ row.identity = identity[q]
                   /\ replayOf'[q] = row.response
<1> USE <1>a DEF TypeOK, requestVars, claimVars, outcomeVars
<1>1. ASSUME NEW r \in Requests, NEW i \in Identities, Arrive(r, i) PROVE Kept
  BY <1>1 DEF Arrive, PlaceTellsProgress
<1>2. ASSUME NEW r \in Requests, JudgeStoredClaim(r) \/ RejudgeStoredClaim(r) PROVE Kept \/ Read
  <2>1. identity' = identity
    BY <1>2 DEF JudgeStoredClaim, RejudgeStoredClaim
  <2>2. CASE Decide(r) = "replay" /\ Replay(r)
    <3>1. row.state = "completed" /\ row.identity = identity[r]
      BY <2>2 DEF Decide
    <3> QED BY <2>1, <2>2, <3>1 DEF Replay
  <2>3. ASSUME NEW code \in {"reused", "in_progress"}, Refuse(r, code) PROVE Kept
    BY <2>1, <2>3 DEF Refuse
  <2>4. CASE UNCHANGED <<answer, replayOf>>
    BY <2>1, <2>4
  <2> QED BY <1>2, <2>2, <2>3, <2>4 DEF JudgeStoredClaim, RejudgeStoredClaim, Judge, RetryInsert
<1>3. ASSUME NEW r \in Requests,
             \/ ClaimIdempotencyKey(r) \/ TakeOverIdempotencyKey(r)
             \/ LoseClaim(r) \/ FailResolving(r)
      PROVE  Kept
  BY <1>3 DEF ClaimIdempotencyKey, TakeOverIdempotencyKey, LoseClaim, FailResolving
<1>4. ASSUME NEW r \in Requests, Handle(r) PROVE Kept
  BY <1>4 DEF Handle, CommitHandler, RefuseInHandler, FailHandler, CancelHandler, SendResponse
<1>5. ASSUME NEW r \in Requests, Settle(r) \/ CrashHandler(r) PROVE Kept
  BY <1>5 DEF Settle, CompleteIdempotencyKey, ReleaseIdempotencyKey, LoseSettlement, CrashHandler
<1>6. CASE DeleteStaleKey \/ Tick \/ UNCHANGED vars
  BY <1>6 DEF DeleteStaleKey, Tick, vars
<1> QED BY <1>1, <1>2, <1>3, <1>4, <1>5, <1>6 DEF Next, Resolve

\* A stored request is at its end: nothing about it changes any more.
LEMMA StoredIsFrozen ==
  ASSUME IInv, [Next]_vars, NEW s \in Requests, fate[s] = "stored"
  PROVE  /\ identity'[s] = identity[s] /\ answer'[s] = answer[s]
         /\ result'[s] = result[s] /\ fate'[s] = fate[s]
<1>a. TypeOK /\ pc[s] = "done"
  BY DEF IInv, PlaceTellsProgress
<1> USE <1>a DEF TypeOK, requestVars, claimVars, outcomeVars
<1>1. ASSUME NEW r \in Requests, NEW i \in Identities, Arrive(r, i)
      PROVE  identity'[s] = identity[s] /\ answer'[s] = answer[s] /\ result'[s] = result[s]
  BY <1>1 DEF Arrive
<1>2. ASSUME NEW r \in Requests, ClaimIdempotencyKey(r) \/ TakeOverIdempotencyKey(r) \/ LoseClaim(r) \/ FailResolving(r)
      PROVE  identity'[s] = identity[s] /\ answer'[s] = answer[s] /\ result'[s] = result[s]
  BY <1>2 DEF ClaimIdempotencyKey, TakeOverIdempotencyKey, LoseClaim, FailResolving, Resolving
<1>3. ASSUME NEW r \in Requests, JudgeStoredClaim(r) \/ RejudgeStoredClaim(r)
      PROVE  identity'[s] = identity[s] /\ answer'[s] = answer[s] /\ result'[s] = result[s]
  BY <1>3 DEF JudgeStoredClaim, RejudgeStoredClaim, Judge, RetryInsert, Refuse, Replay
<1>4. ASSUME NEW r \in Requests, Handle(r)
      PROVE  identity'[s] = identity[s] /\ answer'[s] = answer[s] /\ result'[s] = result[s]
  BY <1>4 DEF Handle, CommitHandler, RefuseInHandler, FailHandler, CancelHandler, SendResponse, Running
<1>5. ASSUME NEW r \in Requests, Settle(r) \/ CrashHandler(r)
      PROVE  identity'[s] = identity[s] /\ answer'[s] = answer[s] /\ result'[s] = result[s]
  BY <1>5 DEF Settle, CompleteIdempotencyKey, ReleaseIdempotencyKey, LoseSettlement, CrashHandler, Running
<1>6. CASE DeleteStaleKey \/ Tick \/ UNCHANGED vars
  BY <1>6 DEF DeleteStaleKey, Tick, vars
<1> QED BY <1>1, <1>2, <1>3, <1>4, <1>5, <1>6, FateSteps DEF Next, Resolve

\* No step replays a response to a request that asks for something else.
LEMMA ReplayStep == IInv /\ [Next]_vars => ReplayIsFaithful'
<1> SUFFICES ASSUME IInv, [Next]_vars, NEW q \in Requests, answer'[q] = "replay"
             PROVE  \E s \in Requests :
                      /\ replayOf'[q] = s
                      /\ identity'[s] = identity'[q]
                      /\ fate'[s] = "stored" /\ answer'[s] = "handler"
                      /\ result'[s] \in {"ok", "refused"}
  BY DEF ReplayIsFaithful
<1>1. CASE answer[q] = "replay" /\ replayOf'[q] = replayOf[q]
  <2>1. PICK s \in Requests :
          /\ replayOf[q] = s
          /\ identity[s] = identity[q]
          /\ fate[s] = "stored" /\ answer[s] = "handler"
          /\ result[s] \in {"ok", "refused"}
    BY <1>1 DEF IInv, ReplayIsFaithful
  <2>2. identity'[s] = identity[s] /\ answer'[s] = answer[s] /\ result'[s] = result[s] /\ fate'[s] = fate[s]
    BY <2>1, StoredIsFrozen
  <2> QED BY <1>1, <2>1, <2>2, ReplaySteps
<1>2. CASE row.state = "completed" /\ row.identity = identity[q] /\ replayOf'[q] = row.response
  <2>1. /\ row.token \in Requests /\ row.response = row.token
        /\ fate[row.token] = "stored" /\ identity[row.token] = row.identity
    BY <1>2 DEF IInv, StoredIsOnRow, RowIsNewest
  <2>2. answer[row.token] = "handler" /\ result[row.token] \in {"ok", "refused"}
    BY <2>1 DEF IInv, PlaceTellsProgress
  <2>3. /\ identity'[row.token] = identity[row.token] /\ answer'[row.token] = answer[row.token]
        /\ result'[row.token] = result[row.token] /\ fate'[row.token] = fate[row.token]
    BY <2>1, StoredIsFrozen
  <2>4. identity'[q] = identity[q]
    BY ReplaySteps
  <2> QED BY <1>2, <2>1, <2>2, <2>3, <2>4
<1> QED BY <1>1, <1>2, ReplaySteps

----------------------------------------------------------------------------
(* The theorems. *)

\* The invariant holds before any request.
LEMMA InvariantInit == Init => IInv
<1> SUFFICES ASSUME Init PROVE IInv
  OBVIOUS
<1>1. TypeOK
  BY TypeInit
<1>2. RowIsNewest /\ AliveInTime /\ LeaseOutlastsHandler
  BY DEF Init, RowIsNewest, AliveInTime, LeaseOutlastsHandler, Absent, IsAlive, Resolving, Running
<1>3. PlaceTellsProgress
  BY DEF Init, PlaceTellsProgress, Resolving, Running, Settling
<1>4. StoredIsOnRow /\ NoHandlerInStored /\ StoredAnswerHoldsWindow
  BY DEF Init, StoredIsOnRow, NoHandlerInStored, StoredAnswerHoldsWindow, Absent
<1>5. NewGenerationNeedsRelease /\ ReplayIsFaithful
  BY DEF Init, NewGenerationNeedsRelease, ReplayIsFaithful
<1> QED BY <1>1, <1>2, <1>3, <1>4, <1>5 DEF IInv

\* Every step keeps the invariant: the lemmas above, together.
LEMMA InvariantStep == IInv /\ [Next]_vars => IInv'
<1> SUFFICES ASSUME IInv, [Next]_vars PROVE IInv'
  OBVIOUS
<1>1. TypeOK'
  BY TypeStep DEF IInv
<1> QED
  BY <1>1, RowIsNewestStep, PlaceStep, AliveStep, LeaseStep, StoredStep, NoHandlerStep,
     StoredWindowStep, GenerationStep, ReplayStep DEF IInv

\* The invariant holds in every reachable state, for any requests, identities and times.
THEOREM Invariance == Spec => []IInv
  BY InvariantInit, InvariantStep, PTL DEF Spec

\* A handler at work owns the claim it runs under for as long as its replay window lasts.
THEOREM HandlerOwnsItsClaim == Spec => []HandlerHoldsItsClaim
<1>1. IInv => HandlerHoldsItsClaim
  BY DEF IInv, LeaseOutlastsHandler, HandlerHoldsItsClaim
<1> QED BY <1>1, Invariance, PTL

\* Once a response is stored, the key is not claimed afresh before the response's window is over.
THEOREM StoredAnswerKeepsItsWindow == Spec => []StoredAnswerHoldsWindow
<1>1. IInv => StoredAnswerHoldsWindow
  BY DEF IInv
<1> QED BY <1>1, Invariance, PTL

\* A generation is replaced inside its window only after a holder released it.
THEOREM GenerationsEndByRelease == Spec => []NewGenerationNeedsRelease
<1>1. IInv => NewGenerationNeedsRelease
  BY DEF IInv
<1> QED BY <1>1, Invariance, PTL

\* A replay sends what the handler of the same method, path and body answered its own client.
THEOREM ReplaysAreFaithful == Spec => []ReplayIsFaithful
<1>1. IInv => ReplayIsFaithful
  BY DEF IInv
<1> QED BY <1>1, Invariance, PTL

\* A completed claim inside its window is never written, taken over or deleted.
THEOREM CompletedClaimsAreFinal == Spec => CompletedClaimIsFinal
<1>1. ASSUME IInv, [Next]_vars, row.state = "completed", now <= row.createdAt + Window
      PROVE  row' = row
  <2>a. TypeOK /\ RowIsNewest /\ PlaceTellsProgress /\ StoredIsOnRow
    BY <1>1 DEF IInv
  <2>1. ASSUME NEW r \in Requests, InsertClaim(r) \/ ExtendClaim(r) PROVE FALSE
    BY <1>1, <2>1, <2>a, TimingAssumption
       DEF InsertClaim, IsClaimable, ExtendClaim, CanTakeOver, TypeOK, Row
  <2>2. ASSUME NEW r \in Requests, HoldsClaim(r), pc[r] \in Settling PROVE FALSE
    BY <1>1, <2>2, <2>a DEF HoldsClaim, PlaceTellsProgress, StoredIsOnRow
  <2>3. ~DeleteStaleKey
    BY <1>1, <2>a, TimingAssumption DEF DeleteStaleKey, TypeOK, Row
  <2> QED
    BY <1>1, <2>a, <2>1, <2>2, <2>3, RowSteps DEF CompleteIdempotencyKey, ReleaseIdempotencyKey, Settling
<1>2. IInv /\ [Next]_vars
      => [row.state = "completed" /\ now <= row.createdAt + Window => row' = row]_vars
  BY <1>1
<1> QED BY <1>2, Invariance, PTL DEF Spec, CompletedClaimIsFinal

----------------------------------------------------------------------------
(* IdempotencyKeys implements StoredOnce. *)

StoredRequests == {r \in Requests : fate[r] = "stored"}

\* The state StoredOnce sees.
abstractVars == <<gen, Committed, StoredRequests, replayOf>>

\* The generations that committed depend on the results alone.
LEMMA CommittedKept ==
  ASSUME result' = result PROVE Committed' = Committed
  BY DEF Committed

\* A step of the middleware is a step of StoredOnce, or changes nothing it sees.
LEMMA RefinementStep == IInv /\ [Next]_vars => OncePerGeneration!Next \/ UNCHANGED abstractVars
<1> SUFFICES ASSUME IInv, [Next]_vars PROVE OncePerGeneration!Next \/ UNCHANGED abstractVars
  OBVIOUS
<1>a. TypeOK /\ RowIsNewest /\ PlaceTellsProgress /\ LeaseOutlastsHandler /\ StoredIsOnRow /\ NoHandlerInStored
  BY DEF IInv
<1> USE <1>a DEF TypeOK, requestVars, claimVars, outcomeVars
<1>1. ASSUME NEW r \in Requests, pc[r] \in {"claim", "take"}, InsertClaim(r) \/ ExtendClaim(r),
             StoredRequests' = StoredRequests, UNCHANGED <<result, replayOf>>
      PROVE  OncePerGeneration!Begin(r)
  <2>1. gen[r] = 0 /\ replayOf[r] = None
    BY <1>1 DEF PlaceTellsProgress, Resolving
  <2>2. PICK g \in Nat \ {0} : gen' = [gen EXCEPT ![r] = g] /\ \A s \in StoredRequests : gen[s] # g
    <3>1. CASE InsertClaim(r)
      <4>1. nextGen \in Nat \ {0} /\ \A s \in StoredRequests : gen[s] # nextGen
        BY DEF RowIsNewest, StoredRequests
      <4>2. gen' = [gen EXCEPT ![r] = nextGen]
        BY <3>1 DEF InsertClaim
      <4> QED BY <4>1, <4>2
    <3>2. CASE ExtendClaim(r)
      <4>1. row.state = "in_progress" /\ gen' = [gen EXCEPT ![r] = row.generation]
        BY <3>2 DEF ExtendClaim, CanTakeOver
      <4>2. row.generation \in Nat \ {0}
        BY <4>1 DEF RowIsNewest, Row
      <4>3. \A s \in StoredRequests : gen[s] # row.generation
        BY <4>1 DEF StoredIsOnRow, StoredRequests, HasRow
      <4> QED BY <4>1, <4>2, <4>3
    <3> QED BY <1>1, <3>1, <3>2
  <2>3. gen'[r] = g
    BY <2>2
  <2>4. Committed' = Committed
    BY <1>1, CommittedKept
  <2> QED BY <1>1, <2>1, <2>2, <2>3, <2>4 DEF OncePerGeneration!Begin, OncePerGeneration!IsOpen, StoredRequests
<1>2. ASSUME NEW r \in Requests, NEW kind \in {"ok", "unstorable"}, CommitHandler(r, kind)
      PROVE  OncePerGeneration!Commit(r)
  <2>1. gen[r] # 0 /\ r \notin Committed
    BY <1>2 DEF CommitHandler, PlaceTellsProgress, Running, Committed
  <2>2. Committed' = Committed \cup {r}
    BY <1>2 DEF CommitHandler, Committed
  <2>3. UNCHANGED <<gen, fate, replayOf>>
    BY <1>2 DEF CommitHandler
  <2>4. \A s \in StoredRequests : gen[s] # gen[r]
    BY <1>2 DEF CommitHandler, NoHandlerInStored, Running, StoredRequests
  <2> QED BY <2>1, <2>2, <2>3, <2>4 DEF OncePerGeneration!Commit, OncePerGeneration!IsOpen, StoredRequests
<1>3. ASSUME NEW r \in Requests, CompleteIdempotencyKey(r), HoldsClaim(r)
      PROVE  OncePerGeneration!Store(r)
  <2>1. gen[r] # 0 /\ gen[r] = row.generation /\ row.token = r /\ row.state # "absent" /\ fate[r] # "stored"
    BY <1>3 DEF CompleteIdempotencyKey, HoldsClaim, PlaceTellsProgress, RowIsNewest, Settling
  <2>2. \A s \in StoredRequests : gen[s] # gen[r]
    BY <2>1 DEF StoredIsOnRow, StoredRequests, HasRow
  <2>3. StoredRequests' = StoredRequests \cup {r}
    BY <1>3 DEF CompleteIdempotencyKey, StoredRequests
  <2>4. UNCHANGED <<gen, replayOf>> /\ Committed' = Committed
    BY <1>3, CommittedKept DEF CompleteIdempotencyKey
  <2> QED BY <2>1, <2>2, <2>3, <2>4 DEF OncePerGeneration!Store, OncePerGeneration!IsOpen, StoredRequests
<1>4. ASSUME NEW r \in Requests, pc[r] \in {"read", "reread"}, Decide(r) = "replay", Replay(r),
             UNCHANGED <<gen, result, fate>>
      PROVE  \E s \in Requests : OncePerGeneration!Replay(r, s)
  <2>1. row.state = "completed"
    BY <1>4 DEF Decide
  <2>2. row.response \in StoredRequests /\ row.response \in Requests
    BY <2>1 DEF StoredIsOnRow, RowIsNewest, StoredRequests
  <2>3. gen[r] = 0 /\ replayOf[r] = None
    BY <1>4 DEF PlaceTellsProgress, Resolving
  <2>4. replayOf' = [replayOf EXCEPT ![r] = row.response] /\ StoredRequests' = StoredRequests
    BY <1>4 DEF Replay, StoredRequests
  <2>5. Committed' = Committed
    BY <1>4, CommittedKept
  <2>6. OncePerGeneration!Replay(r, row.response)
    BY <1>4, <2>2, <2>3, <2>4, <2>5 DEF OncePerGeneration!Replay, StoredRequests
  <2> QED BY <2>2, <2>6
<1>5. ASSUME UNCHANGED <<gen, fate, replayOf>>, Committed' = Committed PROVE UNCHANGED abstractVars
  BY <1>5 DEF abstractVars, StoredRequests
<1>6. ASSUME NEW r \in Requests, NEW i \in Identities, Arrive(r, i) PROVE UNCHANGED abstractVars
  BY <1>5, <1>6, CommittedKept DEF Arrive
<1>7. ASSUME NEW r \in Requests, ClaimIdempotencyKey(r) \/ TakeOverIdempotencyKey(r)
      PROVE  OncePerGeneration!Begin(r) \/ UNCHANGED abstractVars
  BY <1>1, <1>5, <1>7, CommittedKept DEF ClaimIdempotencyKey, TakeOverIdempotencyKey, StoredRequests
<1>8. ASSUME NEW r \in Requests, LoseClaim(r) PROVE OncePerGeneration!Begin(r)
  <2>1. pc[r] \in {"claim", "take"} /\ (InsertClaim(r) \/ ExtendClaim(r)) /\ UNCHANGED <<result, replayOf>>
    BY <1>8 DEF LoseClaim
  <2>2. fate' = [fate EXCEPT ![r] = "lost"] /\ fate[r] # "stored"
    BY <1>8, <2>1 DEF LoseClaim, PlaceTellsProgress, Resolving
  <2>3. StoredRequests' = StoredRequests
    BY <2>2 DEF StoredRequests
  <2> QED BY <1>1, <2>1, <2>3
<1>9. ASSUME NEW r \in Requests, JudgeStoredClaim(r) \/ RejudgeStoredClaim(r)
      PROVE  (\E s \in Requests : OncePerGeneration!Replay(r, s)) \/ UNCHANGED abstractVars
  <2>1. UNCHANGED <<gen, result, fate>> /\ pc[r] \in {"read", "reread"}
    BY <1>9 DEF JudgeStoredClaim, RejudgeStoredClaim
  <2>2. (Decide(r) = "replay" /\ Replay(r)) \/ UNCHANGED replayOf
    BY <1>9 DEF JudgeStoredClaim, RejudgeStoredClaim, Judge, RetryInsert, Refuse
  <2> QED BY <1>4, <1>5, <2>1, <2>2, CommittedKept
<1>10. ASSUME NEW r \in Requests, FailResolving(r) PROVE UNCHANGED abstractVars
  BY <1>5, <1>10, CommittedKept DEF FailResolving
<1>11. ASSUME NEW r \in Requests,
              RefuseInHandler(r) \/ FailHandler(r) \/ CancelHandler(r) \/ CrashHandler(r)
       PROVE  Committed' = Committed
  <2>1. PICK kind \in {"refused", "failed", result[r]} :
          result' = [result EXCEPT ![r] = kind] /\ (pc[r] = "run" \/ kind = result[r])
    BY <1>11 DEF RefuseInHandler, FailHandler, CancelHandler, CrashHandler
  <2>2. pc[r] = "run" => result[r] = "none"
    BY DEF PlaceTellsProgress
  <2> QED BY <2>1, <2>2 DEF Committed
<1>12. ASSUME NEW r \in Requests, RefuseInHandler(r) \/ FailHandler(r) \/ CancelHandler(r)
       PROVE  UNCHANGED abstractVars
  BY <1>5, <1>11, <1>12 DEF RefuseInHandler, FailHandler, CancelHandler
<1>13. ASSUME NEW r \in Requests, SendResponse(r) PROVE UNCHANGED abstractVars
  BY <1>5, <1>13, CommittedKept DEF SendResponse
<1>14. ASSUME NEW r \in Requests, NEW f \in {"superseded", "released", "lost"}, fate[r] # "stored",
              fate' = [fate EXCEPT ![r] = f], UNCHANGED <<gen, replayOf>>, Committed' = Committed
       PROVE  UNCHANGED abstractVars
  BY <1>14 DEF abstractVars, StoredRequests
<1>15. ASSUME NEW r \in Requests, CompleteIdempotencyKey(r) \/ ReleaseIdempotencyKey(r) \/ LoseSettlement(r)
       PROVE  OncePerGeneration!Store(r) \/ UNCHANGED abstractVars
  <2>1. fate[r] # "stored" /\ UNCHANGED <<gen, result, replayOf>>
    BY <1>15 DEF CompleteIdempotencyKey, ReleaseIdempotencyKey, LoseSettlement, PlaceTellsProgress, Settling
  <2>2. \/ CompleteIdempotencyKey(r) /\ HoldsClaim(r)
        \/ \E f \in {"superseded", "released", "lost"} : fate' = [fate EXCEPT ![r] = f]
    BY <1>15 DEF CompleteIdempotencyKey, ReleaseIdempotencyKey, LoseSettlement
  <2> QED BY <1>3, <1>14, <2>1, <2>2, CommittedKept
<1>16. ASSUME NEW r \in Requests, CrashHandler(r) PROVE UNCHANGED abstractVars
  <2>1. fate[r] # "stored" /\ UNCHANGED <<gen, replayOf>> /\ fate' = [fate EXCEPT ![r] = "lost"]
    BY <1>16 DEF CrashHandler, PlaceTellsProgress, Running
  <2> QED BY <1>11, <1>14, <1>16, <2>1
<1>17. CASE DeleteStaleKey \/ Tick \/ UNCHANGED vars
  BY <1>5, <1>17, CommittedKept DEF DeleteStaleKey, Tick, vars
<1>18. ASSUME NEW r \in Requests, Resolve(r) PROVE OncePerGeneration!Next \/ UNCHANGED abstractVars
  BY <1>7, <1>8, <1>9, <1>10, <1>18 DEF Resolve, OncePerGeneration!Next
<1>19. ASSUME NEW r \in Requests, Handle(r) PROVE OncePerGeneration!Next \/ UNCHANGED abstractVars
  BY <1>2, <1>12, <1>13, <1>19 DEF Handle, OncePerGeneration!Next
<1>20. ASSUME NEW r \in Requests, Settle(r) PROVE OncePerGeneration!Next \/ UNCHANGED abstractVars
  BY <1>15, <1>20 DEF Settle, OncePerGeneration!Next
<1> QED BY <1>6, <1>16, <1>17, <1>18, <1>19, <1>20 DEF Next

\* The claim protocol keeps the promise of StoredOnce: per generation, no attempt joins or commits
\* once a response is stored, and only stored responses are replayed.
THEOREM ImplementsStoredOnce == Spec => Refinement
<1>1. Init => OncePerGeneration!Init
  BY DEF Init, OncePerGeneration!Init, Committed
<1>2. IInv /\ [Next]_vars => [OncePerGeneration!Next]_OncePerGeneration!vars
  BY RefinementStep DEF abstractVars, StoredRequests, OncePerGeneration!vars
<1> QED BY <1>1, <1>2, Invariance, PTL DEF Spec, Refinement, OncePerGeneration!Spec

----------------------------------------------------------------------------
(* Why every request ends: the safety half of EveryRequestEnds. *)

\* The most steps a request can take from each place without trying the insert again.
StepsToGo(place) ==
    CASE place = "idle" -> 12
      [] place = "claim" -> 7 [] place = "read" -> 6 [] place = "take" -> 5 [] place = "reread" -> 4
      [] place = "run" -> 3 [] place = "sending" -> 2 [] place \in Settling -> 1
      [] OTHER -> 0

\* The same, with the insert's remaining attempts.
LeftToDo(r) ==
    StepsToGo(pc[r])
        + (IF pc[r] \in Resolving THEN 4 * (ClaimInsertAttempts - attempt[r]) ELSE 0)

AttemptsAreCounted == \A r \in Requests : pc[r] \in Resolving => attempt[r] \in 1..ClaimInsertAttempts

\* Whatever a request does, and whatever others do to the row meanwhile, it comes nearer its end:
\* no loop of inserts, reads and takeovers is ever closed.
EveryStepAdvances ==
    [][\A r \in Requests :
         (pc'[r] = pc[r] /\ attempt'[r] = attempt[r]) \/ LeftToDo(r)' < LeftToDo(r)]_vars

\* What is left to do is a number, at most the twelve steps of a request that has not arrived.
LEMMA LeftIsBounded ==
  ASSUME AttemptsAreCounted, NEW r \in Requests
  PROVE  LeftToDo(r) \in 0..12
  BY DEF AttemptsAreCounted, LeftToDo, StepsToGo, Resolving, Settling, ClaimInsertAttempts

\* A request that leaves the protocol, or turns to another place, comes nearer its end.
LEMMA MoveAdvances ==
  ASSUME TypeOK, AttemptsAreCounted, [Next]_vars, NEW r \in Requests
  PROVE  /\ (pc'[r] = pc[r] /\ attempt'[r] = attempt[r]) \/ LeftToDo(r)' < LeftToDo(r)
         /\ pc'[r] \in Resolving => attempt'[r] \in 1..ClaimInsertAttempts
<1> DEFINE Moves ==
             /\ (pc'[r] = pc[r] /\ attempt'[r] = attempt[r]) \/ LeftToDo(r)' < LeftToDo(r)
             /\ pc'[r] \in Resolving => attempt'[r] \in 1..ClaimInsertAttempts
<1>a. pc[r] \in Resolving => attempt[r] \in 1..2
  BY DEF AttemptsAreCounted, ClaimInsertAttempts
<1> USE DEF LeftToDo, StepsToGo, Resolving, Running, Settling, ClaimInsertAttempts, TypeOK
<1>1. ASSUME pc'[r] = pc[r], attempt'[r] = attempt[r] PROVE Moves
  BY <1>a, <1>1
<1>2. ASSUME NEW q \in Requests, NEW place \in {"done", "complete", "release"}, Leave(q, place),
             pc[q] \in {"sending", "run"} \cup Resolving, place = "complete" => pc[q] = "sending"
      PROVE  Moves
  <2>1. CASE q = r
    BY <1>a, <1>2, <2>1 DEF Leave
  <2> QED BY <1>1, <1>2, <2>1 DEF Leave
<1>3. ASSUME NEW q \in Requests, NEW i \in Identities, Arrive(q, i) PROVE Moves
  <2>1. CASE q = r
    BY <1>3, <2>1 DEF Arrive
  <2> QED BY <1>1, <1>3, <2>1 DEF Arrive
<1>4. ASSUME NEW q \in Requests, ClaimIdempotencyKey(q) \/ TakeOverIdempotencyKey(q) PROVE Moves
  <2>1. CASE q = r
    BY <1>a, <1>4, <2>1 DEF ClaimIdempotencyKey, TakeOverIdempotencyKey, requestVars
  <2> QED BY <1>1, <1>4, <2>1 DEF ClaimIdempotencyKey, TakeOverIdempotencyKey, requestVars
<1>5. ASSUME NEW q \in Requests, LoseClaim(q) \/ FailResolving(q) PROVE Moves
  BY <1>2, <1>5 DEF LoseClaim, FailResolving
<1>6. ASSUME NEW q \in Requests, pc[q] \in {"read", "reread"}, Judge(q) PROVE Moves
  <2>1. CASE RetryInsert(q) /\ attempt[q] < ClaimInsertAttempts /\ pc' = [pc EXCEPT ![q] = "claim"]
                /\ attempt' = [attempt EXCEPT ![q] = @ + 1]
    <3>1. CASE q = r
      BY <1>a, <1>6, <2>1, <3>1
    <3> QED BY <1>1, <2>1, <3>1
  <2> QED BY <1>2, <1>6, <2>1 DEF Judge, RetryInsert, Refuse, Replay
<1>7. ASSUME NEW q \in Requests, JudgeStoredClaim(q) PROVE Moves
  <2>1. CASE pc' = [pc EXCEPT ![q] = "take"] /\ attempt' = attempt
    <3>1. CASE q = r
      BY <1>a, <1>7, <2>1, <3>1 DEF JudgeStoredClaim
    <3> QED BY <1>1, <2>1, <3>1
  <2> QED BY <1>6, <1>7, <2>1 DEF JudgeStoredClaim
<1>8. ASSUME NEW q \in Requests, RejudgeStoredClaim(q) PROVE Moves
  BY <1>2, <1>6, <1>8 DEF RejudgeStoredClaim, Refuse
<1>9. ASSUME NEW q \in Requests,
             RefuseInHandler(q) \/ \E kind \in {"ok", "unstorable"} : CommitHandler(q, kind)
      PROVE  Moves
  <2>1. CASE q = r
    BY <1>9, <2>1 DEF RefuseInHandler, CommitHandler, requestVars
  <2> QED BY <1>1, <1>9, <2>1 DEF RefuseInHandler, CommitHandler, requestVars
<1>10. ASSUME NEW q \in Requests,
              FailHandler(q) \/ CancelHandler(q) \/ SendResponse(q) \/ CrashHandler(q)
       PROVE  Moves
  BY <1>2, <1>10 DEF FailHandler, CancelHandler, SendResponse, CrashHandler
<1>11. ASSUME NEW q \in Requests, Settle(q) PROVE Moves
  <2>1. pc[q] \in Settling /\ pc' = [pc EXCEPT ![q] = "done"] /\ attempt' = attempt
    BY <1>11 DEF Settle, CompleteIdempotencyKey, ReleaseIdempotencyKey, LoseSettlement, requestVars
  <2>2. CASE q = r
    BY <2>1, <2>2
  <2> QED BY <1>1, <2>1, <2>2
<1>12. CASE DeleteStaleKey \/ Tick \/ UNCHANGED vars
  BY <1>1, <1>12 DEF DeleteStaleKey, Tick, vars, requestVars
<1> QED BY <1>3, <1>4, <1>5, <1>7, <1>8, <1>9, <1>10, <1>11, <1>12 DEF Next, Resolve, Handle

\* From its arrival a request takes at most eleven steps of its own.
THEOREM RequestsAdvance ==
    Spec => EveryStepAdvances /\ [](\A r \in Requests : LeftToDo(r) \in 0..12)
<1>1. Init => AttemptsAreCounted
  BY DEF Init, AttemptsAreCounted, Resolving
<1>2. TypeOK /\ AttemptsAreCounted /\ [Next]_vars => AttemptsAreCounted'
  BY MoveAdvances DEF AttemptsAreCounted
<1>3. AttemptsAreCounted => \A r \in Requests : LeftToDo(r) \in 0..12
  BY LeftIsBounded
<1>4. TypeOK /\ AttemptsAreCounted /\ [Next]_vars =>
        [\A r \in Requests :
           (pc'[r] = pc[r] /\ attempt'[r] = attempt[r]) \/ LeftToDo(r)' < LeftToDo(r)]_vars
  BY MoveAdvances
<1> QED BY <1>1, <1>2, <1>3, <1>4, TypeCorrect, PTL DEF Spec, EveryStepAdvances
=============================================================================
