----------------------- MODULE CheckoutSessions_proofs -----------------------
(***************************************************************************)
(* Machine-checked proofs about CheckoutSessions, for any number of        *)
(* requests and any times.  The checkout route keeps to the claim          *)
(* protocol, so everything proved of IdempotencyKeys holds of it; what is  *)
(* added is what a generation's key means to Stripe.                       *)
(***************************************************************************)
EXTENDS CheckoutSessions, IdempotencyKeys_proofs

\* No claim and no row is born later than now, and one generation has one birth.
BirthsAreKnown ==
    /\ row.createdAt <= now
    /\ \A r \in Requests : bornAt[r] <= now
    /\ \A r, s \in Requests : gen[r] > 0 /\ gen[r] = gen[s] => bornAt[r] = bornAt[s]

\* A generation has a successor only because a holder released it or its window was over.
GenerationsEnd ==
    \A r, s \in Requests :
        gen[r] > 0 /\ gen[r] < gen[s] => IsReleased(gen[r]) \/ bornAt[r] + Window < bornAt[s]

\* A released generation has no row any more, and no handler.
ReleasedIsOver ==
    \A s \in Requests : fate[s] = "released" =>
        /\ gen[s] > 0 /\ ~HasRow(gen[s])
        /\ \A r \in Requests : gen[r] = gen[s] => pc[r] \notin Running

ClaimInv == IInv /\ BirthsAreKnown /\ GenerationsEnd /\ ReleasedIsOver

\* A call is made under a claim, and Stripe's answer is of an earlier call of the same generation.
CallsAreOrdered ==
    \A r \in Requests :
        /\ call[r] # "none" => gen[r] > 0
        /\ call[r] = "answered" => source[r] # None
        /\ calledAt[r] <= now
        /\ source[r] # None =>
            /\ call[r] # "none"
            /\ gen[source[r]] = gen[r] /\ source[source[r]] = source[r]
            /\ bornAt[r] <= calledAt[r]

\* Stripe works for a key again only after it may have forgotten the key.
KeysAreRemembered ==
    \A r, s \in Requests :
        r # s /\ source[r] = r /\ source[s] = s /\ gen[r] = gen[s] =>
            calledAt[r] + KeyRetention <= calledAt[s] \/ calledAt[s] + KeyRetention <= calledAt[r]

\* Whose call another handler was answered from holds the claim no longer, and never will again.
SourceIsSuperseded ==
    \A r, s \in Requests :
        call[r] = "answered" /\ source[r] = s /\ r # s => ~HoldsClaim(s)

CheckoutInv ==
    /\ CheckoutTypeOK /\ ClaimInv
    /\ CallsAreOrdered /\ KeysAreRemembered /\ SourceIsSuperseded /\ ReleasedCallIsNotReplayed

----------------------------------------------------------------------------
(* The checkout as a handler of the claim protocol. *)

\* A step of the checkout is a step of the claim protocol, or only between the handler and Stripe.
LEMMA CheckoutStepsAreClaimSteps ==
  ASSUME [CheckoutNext]_allVars
  PROVE  [Next]_vars
<1>1. ASSUME NEW r \in Requests, CallStripe(r) \/ StripeActs(r) PROVE UNCHANGED vars
  BY <1>1 DEF CallStripe, StripeActs
<1>2. ASSUME NEW r \in Requests, HandleCheckout(r) PROVE Handle(r)
  BY <1>2 DEF HandleCheckout, CommitCheckout, FailCheckout, RefuseCheckout, Handle
<1>3. CASE ClaimStep
  BY <1>2, <1>3 DEF ClaimStep, Next
<1>4. CASE UNCHANGED allVars
  BY <1>4 DEF allVars
<1> QED BY <1>1, <1>3, <1>4 DEF CheckoutNext

\* The checkout route keeps to the claim protocol, so all of its promises hold of a checkout.
THEOREM CheckoutKeepsClaimProtocol == CheckoutSpec => Spec
<1>1. CheckoutInit => Init
  BY DEF CheckoutInit
<1>2. [CheckoutNext]_allVars => [Next]_vars
  BY CheckoutStepsAreClaimSteps
<1> QED BY <1>1, <1>2, PTL DEF CheckoutSpec, Spec

----------------------------------------------------------------------------
(* What the claims promise a provider. *)

\* A fate becomes "released" only by a release that holds the claim.
LEMMA ReleaseSteps ==
  ASSUME IInv, [Next]_vars, NEW q \in Requests, fate'[q] = "released", fate[q] # "released"
  PROVE  ReleaseIdempotencyKey(q) /\ HoldsClaim(q)
<1> USE DEF requestVars, claimVars, outcomeVars
<1>0. TypeOK
  BY DEF IInv
<1>1. ASSUME NEW r \in Requests, NEW f \in {"stored", "superseded", "lost"}, fate' = [fate EXCEPT ![r] = f]
      PROVE  FALSE
  BY <1>0, <1>1 DEF TypeOK
<1>2. ASSUME NEW r \in Requests, ReleaseIdempotencyKey(r)
      PROVE  ReleaseIdempotencyKey(q) /\ HoldsClaim(q)
  BY <1>0, <1>1, <1>2 DEF ReleaseIdempotencyKey, TypeOK
<1>3. ASSUME NEW r \in Requests,
             LoseClaim(r) \/ CompleteIdempotencyKey(r) \/ LoseSettlement(r) \/ CrashHandler(r)
      PROVE  FALSE
  BY <1>1, <1>3 DEF LoseClaim, CompleteIdempotencyKey, LoseSettlement, CrashHandler
<1>4. ASSUME NEW r \in Requests,
             \/ ClaimIdempotencyKey(r) \/ TakeOverIdempotencyKey(r)
             \/ FailResolving(r) \/ JudgeStoredClaim(r) \/ RejudgeStoredClaim(r) \/ Handle(r)
             \/ \E i \in Identities : Arrive(r, i)
      PROVE  fate' = fate
  BY <1>4 DEF ClaimIdempotencyKey, TakeOverIdempotencyKey, FailResolving, JudgeStoredClaim,
     RejudgeStoredClaim, Handle, CommitHandler, RefuseInHandler, FailHandler, CancelHandler,
     SendResponse, Arrive
<1>5. CASE DeleteStaleKey \/ Tick \/ UNCHANGED vars
  BY <1>5 DEF DeleteStaleKey, Tick, vars
<1> QED BY <1>2, <1>3, <1>4, <1>5 DEF Next, Resolve, Settle

\* Whose generation a step sets: a claim inserted afresh, or one taken over.
LEMMA NewClaims ==
  ASSUME IInv, [Next]_vars, NEW q \in Requests, gen'[q] # gen[q]
  PROVE  \/ /\ InsertClaim(q) /\ now' = now
            /\ gen'[q] = nextGen /\ bornAt'[q] = now
         \/ /\ ExtendClaim(q) /\ now' = now
            /\ row.state # "absent" /\ row.token \in Requests
            /\ gen'[q] = row.generation /\ bornAt'[q] = row.createdAt
            /\ gen[row.token] = row.generation /\ bornAt[row.token] = row.createdAt
<1>0. TypeOK /\ RowIsNewest
  BY DEF IInv
<1> DEFINE Fresh(r) ==
             /\ InsertClaim(r) /\ now' = now
             /\ gen'[r] = nextGen /\ bornAt'[r] = now
           Taken(r) ==
             /\ ExtendClaim(r) /\ now' = now
             /\ row.state # "absent" /\ row.token \in Requests
             /\ gen'[r] = row.generation /\ bornAt'[r] = row.createdAt
             /\ gen[row.token] = row.generation /\ bornAt[row.token] = row.createdAt
<1>1. ASSUME NEW r \in Requests, InsertClaim(r), now' = now PROVE r = q /\ Fresh(r)
  BY <1>0, <1>1 DEF InsertClaim, TypeOK
<1>2. ASSUME NEW r \in Requests, ExtendClaim(r), now' = now PROVE r = q /\ Taken(r)
  BY <1>0, <1>2 DEF ExtendClaim, CanTakeOver, RowIsNewest, TypeOK
<1>3. \/ gen' = gen
      \/ \E r \in Requests : (InsertClaim(r) \/ ExtendClaim(r)) /\ now' = now
  BY <1>0, RowSteps
<1>4. Fresh(q) \/ Taken(q)
  <2> HIDE DEF Fresh, Taken
  <2> QED BY <1>1, <1>2, <1>3
<1> QED BY <1>4

\* Every step keeps the births of one generation equal and in the past.
LEMMA BirthsStep == ClaimInv /\ [Next]_vars => BirthsAreKnown'
<1> SUFFICES ASSUME ClaimInv, [Next]_vars PROVE BirthsAreKnown'
  OBVIOUS
<1>a. IInv /\ TypeOK /\ RowIsNewest /\ BirthsAreKnown
  BY DEF ClaimInv, IInv
<1>b. TypeOK'
  BY <1>a, TypeStep
<1>c. /\ now <= now'
      /\ \A q \in Requests : gen[q] > 0 => gen'[q] = gen[q] /\ bornAt'[q] = bornAt[q]
  BY <1>a, ClaimsAreKept
<1> USE <1>a, <1>b DEF TypeOK, BirthsAreKnown
<1>1. row'.createdAt <= now'
  <2>1. ASSUME NEW r \in Requests, InsertClaim(r), now' = now PROVE row'.createdAt <= now'
    BY <2>1 DEF InsertClaim
  <2>2. ASSUME NEW r \in Requests, ExtendClaim(r) PROVE row'.createdAt = row.createdAt
    BY <2>2 DEF ExtendClaim, Row
  <2>3. ASSUME row' = [row EXCEPT !.state = "completed", !.response = row.token]
        PROVE  row'.createdAt = row.createdAt
    BY <2>3 DEF Row
  <2>4. ASSUME row' = Absent PROVE row'.createdAt = 0
    BY <2>4 DEF Absent
  <2>5. row.createdAt \in Nat /\ row'.createdAt \in Nat
    BY DEF Row
  <2> QED BY <1>c, <2>1, <2>2, <2>3, <2>4, <2>5, RowSteps
<1>2. ASSUME NEW q \in Requests PROVE bornAt'[q] <= now'
  <2>1. CASE gen'[q] # gen[q]
    <3>1. CASE InsertClaim(q) /\ now' = now
      BY <3>1 DEF InsertClaim
    <3>2. CASE row.token \in Requests /\ now' = now /\ bornAt'[q] = row.createdAt
      BY <3>2
    <3> QED BY <2>1, <3>1, <3>2, NewClaims
  <2>2. CASE gen'[q] = gen[q]
    <3>1. bornAt'[q] = bornAt[q]
      <4>1. ASSUME NEW r \in Requests, InsertClaim(r) PROVE bornAt'[q] = bornAt[q]
        <5>1. r # q
          BY <2>2, <4>1 DEF InsertClaim, RowIsNewest
        <5> QED BY <4>1, <5>1 DEF InsertClaim
      <4>2. ASSUME NEW r \in Requests, ExtendClaim(r) PROVE bornAt'[q] = bornAt[q]
        BY <2>2, <4>2 DEF ExtendClaim, CanTakeOver, RowIsNewest
      <4> QED BY <4>1, <4>2, RowSteps
    <3> QED BY <1>c, <3>1
  <2> QED BY <2>1, <2>2
<1>3. ASSUME NEW q \in Requests, NEW s \in Requests, gen'[q] > 0, gen'[q] = gen'[s]
      PROVE  bornAt'[q] = bornAt'[s]
  <2> DEFINE Known(x) == gen[x] > 0 /\ gen'[x] = gen[x] /\ bornAt'[x] = bornAt[x]
  <2>1. ASSUME NEW x \in Requests, gen'[x] > 0, ~Known(x)
        PROVE  \/ gen'[x] = nextGen /\ InsertClaim(x)
               \/ /\ row.state # "absent"
                  /\ gen'[x] = row.generation /\ bornAt'[x] = row.createdAt
    BY <1>c, <2>1, NewClaims
  <2>2. ASSUME NEW x \in Requests, NEW y \in Requests, x # y, InsertClaim(x)
        PROVE  gen'[x] # gen'[y]
    BY <2>2 DEF InsertClaim, RowIsNewest
  <2>3. ASSUME NEW x \in Requests, Known(x), row.state # "absent", gen'[x] = row.generation
        PROVE  bornAt'[x] = row.createdAt
    BY <2>3 DEF RowIsNewest
  <2>4. CASE Known(q) /\ Known(s)
    BY <1>3, <2>4
  <2> QED BY <1>3, <2>1, <2>2, <2>3, <2>4
<1> QED BY <1>1, <1>2, <1>3

\* Every step that starts a generation finds the ones before it released or lapsed.
LEMMA GenerationsEndStep == ClaimInv /\ [Next]_vars => GenerationsEnd'
<1> SUFFICES ASSUME ClaimInv, [Next]_vars, NEW r \in Requests, NEW s \in Requests,
                    gen'[r] > 0, gen'[r] < gen'[s]
             PROVE  IsReleased(gen[r])' \/ bornAt'[r] + Window < bornAt'[s]
  BY DEF GenerationsEnd
<1>a. IInv /\ TypeOK /\ RowIsNewest /\ GenerationsEnd /\ NewGenerationNeedsRelease
  BY DEF ClaimInv, IInv
<1>b. TypeOK'
  BY <1>a, TypeStep
<1>c. \A q \in Requests : gen[q] > 0 => gen'[q] = gen[q] /\ bornAt'[q] = bornAt[q]
  BY <1>a, ClaimsAreKept
<1>d. \A q \in Requests : fate[q] = "released" => fate'[q] = "released"
  BY <1>a, FateSteps
<1>e. ASSUME NEW g \in Nat \ {0}, IsReleased(g)
      PROVE  \E t \in Requests : gen'[t] = g /\ fate'[t] = "released"
  BY <1>c, <1>d, <1>e DEF IsReleased
<1> USE <1>a, <1>b, TimingAssumption DEF TypeOK
<1>1. CASE gen'[r] # gen[r]
  \* The newer of the two would be older than the row.
  <2>1. gen[s] > 0 /\ gen'[s] = gen[s] => gen[s] < nextGen
    BY DEF RowIsNewest
  <2>2. CASE InsertClaim(r)
    BY <1>c, <2>2 DEF InsertClaim, RowIsNewest
  <2>3. CASE row.state # "absent" /\ gen'[r] = row.generation /\ ExtendClaim(r)
    BY <1>c, <2>3 DEF ExtendClaim, RowIsNewest
  <2> QED BY <1>1, <2>2, <2>3, NewClaims
<1>2. CASE gen'[r] = gen[r] /\ gen'[s] = gen[s]
  <2>1. gen[s] > 0 /\ bornAt'[r] = bornAt[r] /\ bornAt'[s] = bornAt[s]
    BY <1>2, <1>c
  <2>2. IsReleased(gen[r]) \/ bornAt[r] + Window < bornAt[s]
    BY <1>2 DEF GenerationsEnd
  <2> QED BY <1>2, <1>e, <2>1, <2>2 DEF IsReleased
<1>3. CASE gen'[r] = gen[r] /\ gen'[s] # gen[s] /\ InsertClaim(s)
  <2>1. bornAt'[s] = now /\ bornAt'[r] = bornAt[r] /\ gen[r] > 0
    BY <1>3, <1>c DEF InsertClaim
  <2>2. CASE HasRow(gen[r])
    BY <1>3, <2>1, <2>2 DEF HasRow, InsertClaim, IsClaimable, RowIsNewest
  <2>3. CASE IsLapsed(r)
    BY <2>1, <2>3 DEF IsLapsed
  <2>4. CASE IsReleased(gen[r])
    BY <1>3, <1>e, <2>1, <2>4 DEF IsReleased
  <2> QED BY <2>1, <2>2, <2>3, <2>4 DEF NewGenerationNeedsRelease, IsReleased
<1>4. CASE /\ gen'[r] = gen[r] /\ gen'[s] # gen[s]
           /\ row.token \in Requests
           /\ gen'[s] = row.generation /\ bornAt'[s] = row.createdAt
           /\ gen[row.token] = row.generation /\ bornAt[row.token] = row.createdAt
  <2>1. IsReleased(gen[r]) \/ bornAt[r] + Window < bornAt[row.token]
    BY <1>4 DEF GenerationsEnd
  <2> QED BY <1>4, <1>c, <1>e, <2>1 DEF IsReleased
<1> QED BY <1>1, <1>2, <1>3, <1>4, NewClaims

\* No step gives a released generation its row back or starts a handler in it.
LEMMA ReleasedStep == ClaimInv /\ [Next]_vars => ReleasedIsOver'
<1> SUFFICES ASSUME ClaimInv, [Next]_vars, NEW s \in Requests, fate'[s] = "released"
             PROVE  /\ gen'[s] > 0 /\ ~HasRow(gen[s])'
                    /\ \A r \in Requests : gen'[r] = gen'[s] => pc'[r] \notin Running
  BY DEF ReleasedIsOver
<1>a. /\ IInv /\ TypeOK /\ RowIsNewest /\ PlaceTellsProgress /\ LeaseOutlastsHandler
      /\ ReleasedIsOver
  BY DEF ClaimInv, IInv
<1>b. \A q \in Requests : gen[q] > 0 => gen'[q] = gen[q]
  BY <1>a, ClaimsAreKept
<1>1. CASE fate[s] = "released"
  <2>1. gen[s] > 0 /\ gen'[s] = gen[s] /\ ~HasRow(gen[s])
    BY <1>1, <1>a, <1>b DEF ReleasedIsOver
  <2>2. ~HasRow(gen[s])'
    <3>1. CASE row' = row
      BY <2>1, <3>1 DEF HasRow
    <3>2. CASE row' # row
      BY <1>a, <2>1, <3>2, RowMoves
    <3> QED BY <3>1, <3>2
  <2>3. ASSUME NEW r \in Requests, gen'[r] = gen'[s], pc'[r] \in Running PROVE FALSE
    <3>1. CASE pc[r] \in Running
      <4>1. gen[r] = gen[s]
        BY <1>a, <1>b, <2>1, <2>3, <3>1 DEF PlaceTellsProgress
      <4> QED BY <1>1, <1>a, <3>1, <4>1 DEF ReleasedIsOver
    <3>2. CASE InsertClaim(r)
      BY <1>a, <2>1, <2>3, <3>2 DEF InsertClaim, RowIsNewest, TypeOK
    <3>3. CASE ExtendClaim(r)
      BY <1>a, <2>1, <2>3, <3>3 DEF ExtendClaim, CanTakeOver, HasRow, TypeOK
    <3> QED BY <1>a, <2>3, <3>1, <3>2, <3>3, RunningSteps
  <2> QED BY <2>1, <2>2, <2>3
<1>2. CASE fate[s] # "released"
  <2>1. ReleaseIdempotencyKey(s) /\ HoldsClaim(s)
    BY <1>2, <1>a, ReleaseSteps
  <2>2. /\ row' = Absent /\ pc' = [pc EXCEPT ![s] = "done"] /\ gen' = gen
        /\ row.state # "absent" /\ row.token = s /\ row.generation = gen[s]
    BY <1>a, <2>1 DEF ReleaseIdempotencyKey, HoldsClaim, claimVars, RowIsNewest
  <2>3. gen[s] > 0
    BY <1>a, <2>2 DEF RowIsNewest
  <2>4. ~HasRow(gen[s])'
    BY <2>2 DEF HasRow, Absent
  <2>5. ASSUME NEW r \in Requests, gen'[r] = gen'[s], pc'[r] \in Running PROVE FALSE
    <3>1. r # s /\ pc[r] \in Running /\ gen[r] = gen[s]
      BY <1>a, <2>2, <2>5 DEF TypeOK, Running
    <3> QED BY <1>a, <2>2, <3>1 DEF LeaseOutlastsHandler, HasRow
  <2> QED BY <2>2, <2>3, <2>4, <2>5
<1> QED BY <1>1, <1>2

\* Before any request arrives there is nothing to be wrong.
LEMMA ClaimInit == Init => ClaimInv
<1> SUFFICES ASSUME Init PROVE ClaimInv
  OBVIOUS
<1>1. IInv
  BY InvariantInit
<1>2. BirthsAreKnown
  BY DEF Init, Absent, BirthsAreKnown
<1>3. GenerationsEnd
  BY DEF Init, GenerationsEnd
<1>4. ReleasedIsOver
  BY DEF Init, ReleasedIsOver
<1> QED BY <1>1, <1>2, <1>3, <1>4 DEF ClaimInv

\* Every step of the claim protocol preserves what its generations promise.
LEMMA ClaimStepInv == ClaimInv /\ [Next]_vars => ClaimInv'
<1> SUFFICES ASSUME ClaimInv, [Next]_vars PROVE ClaimInv'
  OBVIOUS
<1>1. IInv'
  BY InvariantStep DEF ClaimInv
<1> QED BY <1>1, BirthsStep, GenerationsEndStep, ReleasedStep DEF ClaimInv

----------------------------------------------------------------------------
(* What Stripe has been asked and has answered. *)

\* No step of the route or of Stripe writes a value outside the types.
LEMMA CheckoutTypeStep == CheckoutInv /\ [CheckoutNext]_allVars => CheckoutTypeOK'
<1> SUFFICES ASSUME CheckoutTypeOK, [CheckoutNext]_allVars PROVE CheckoutTypeOK'
  BY DEF CheckoutInv
<1>1. TypeOK'
  BY TypeStep, CheckoutStepsAreClaimSteps DEF CheckoutTypeOK
<1> USE DEF CheckoutTypeOK, CallStates, Outcomes
<1>2. ASSUME NEW r \in Requests, CallStripe(r) PROVE CheckoutTypeOK'
  BY <1>1, <1>2 DEF CallStripe
<1>3. ASSUME NEW r \in Requests, StripeActs(r) PROVE CheckoutTypeOK'
  <2>1. now \in Nat
    BY DEF TypeOK
  <2>2. /\ source' \in [Requests -> Requests \cup {None}]
        /\ outcome' \in [Requests -> Outcomes]
    BY <1>3 DEF StripeActs, AnswerFromMemory, AnswerAfresh, Originals
  <2> QED BY <1>1, <1>3, <2>1, <2>2 DEF StripeActs
<1>4. CASE UNCHANGED checkoutVars
  BY <1>1, <1>4 DEF checkoutVars
<1> QED BY <1>2, <1>3, <1>4 DEF CheckoutNext, ClaimStep, allVars

\* What Stripe's part of a step does: nothing, a call sent, or a call acted on.
LEMMA StripeSteps ==
  ASSUME [CheckoutNext]_allVars
  PROVE  \/ UNCHANGED checkoutVars
         \/ \E r \in Requests : CallStripe(r) \/ StripeActs(r)
  BY DEF CheckoutNext, ClaimStep, allVars

\* What Stripe does with a call it acts on.
LEMMA StripeAnswers ==
  ASSUME CheckoutInv, NEW r \in Requests, StripeActs(r)
  PROVE  \E s \in Requests :
            /\ source' = [source EXCEPT ![r] = s]
            /\ gen[s] = gen[r]
            /\ \/ s # r /\ source[s] = s
               \/ /\ s = r
                  /\ \A t \in Requests :
                        source[t] = t /\ gen[t] = gen[r] => calledAt[t] + KeyRetention <= now
<1>1. source[r] # r
  BY NoneAssumption DEF StripeActs
<1>2. CASE AnswerFromMemory(r)
  BY <1>1, <1>2 DEF AnswerFromMemory, Originals, StripeKey
<1>3. CASE AnswerAfresh(r)
  BY <1>3 DEF AnswerAfresh, Originals, StripeKey
<1> QED BY <1>2, <1>3 DEF StripeActs

\* Every call is sent under a claim, and acted on at an instant no earlier than its birth.
LEMMA CallsAreOrderedStep == CheckoutInv /\ [CheckoutNext]_allVars => CallsAreOrdered'
<1> SUFFICES ASSUME CheckoutInv, [CheckoutNext]_allVars PROVE CallsAreOrdered'
  OBVIOUS
<1>a. /\ CheckoutTypeOK /\ TypeOK /\ IInv /\ PlaceTellsProgress /\ BirthsAreKnown /\ CallsAreOrdered
  BY DEF CheckoutInv, ClaimInv, IInv
<1>b. CheckoutTypeOK' /\ TypeOK'
  BY CheckoutTypeStep DEF CheckoutTypeOK
<1> USE <1>a, <1>b, NoneAssumption DEF CheckoutTypeOK
<1>1. CASE UNCHANGED checkoutVars
  <2>1. /\ now <= now'
        /\ \A q \in Requests : gen[q] > 0 => gen'[q] = gen[q] /\ bornAt'[q] = bornAt[q]
    BY ClaimsAreKept, CheckoutStepsAreClaimSteps
  <2>2. now \in Nat /\ now' \in Nat /\ \A q \in Requests : gen[q] \in Nat /\ calledAt[q] \in Nat
    BY DEF TypeOK
  <2> QED BY <1>1, <2>1, <2>2 DEF CallsAreOrdered, checkoutVars
<1>2. ASSUME NEW r \in Requests, CallStripe(r) PROVE CallsAreOrdered'
  <2>1. UNCHANGED <<vars, source, outcome, calledAt>> /\ call' = [call EXCEPT ![r] = "sent"]
    BY <1>2 DEF CallStripe
  <2>2. gen' = gen /\ bornAt' = bornAt /\ now' = now
    BY <2>1 DEF vars, claimVars
  <2>3. gen[r] > 0
    BY <1>2 DEF CallStripe, PlaceTellsProgress, Running
  <2> QED BY <2>1, <2>2, <2>3 DEF CallsAreOrdered
<1>3. ASSUME NEW r \in Requests, StripeActs(r) PROVE CallsAreOrdered'
  <2>1. /\ gen' = gen /\ bornAt' = bornAt /\ now' = now
        /\ calledAt' = [calledAt EXCEPT ![r] = now]
        /\ call[r] = "sent" /\ source[r] = None
        /\ call' = call \/ call' = [call EXCEPT ![r] = "answered"]
    BY <1>3 DEF StripeActs, vars, claimVars
  <2>2. gen[r] > 0 /\ bornAt[r] <= now
    BY <2>1 DEF CallsAreOrdered, BirthsAreKnown
  <2>3. PICK s \in Requests :
          /\ source' = [source EXCEPT ![r] = s] /\ gen[s] = gen[r]
          /\ s = r \/ source[s] = s
    BY <1>3, StripeAnswers
  <2>4. ASSUME NEW q \in Requests
        PROVE  /\ call'[q] # "none" => gen'[q] > 0
               /\ call'[q] = "answered" => source'[q] # None
               /\ calledAt'[q] <= now'
    BY <2>1, <2>2, <2>3 DEF CallsAreOrdered, TypeOK
  <2>5. ASSUME NEW q \in Requests, source'[q] # None
        PROVE  /\ call'[q] # "none" /\ bornAt'[q] <= calledAt'[q]
               /\ gen'[source'[q]] = gen'[q] /\ source'[source'[q]] = source'[q]
    <3>1. CASE q = r
      BY <2>1, <2>2, <2>3, <3>1
    <3>2. CASE q # r
      <4>1. source'[q] = source[q] /\ source[q] \in Requests /\ source[q] # r
        BY <2>1, <2>3, <2>5, <3>2 DEF CallsAreOrdered
      <4> QED BY <2>1, <2>3, <2>5, <3>2, <4>1 DEF CallsAreOrdered
    <3> QED BY <3>1, <3>2
  <2> QED BY <2>4, <2>5 DEF CallsAreOrdered
<1> QED BY <1>1, <1>2, <1>3, StripeSteps

\* Stripe works for a key afresh only when everything it did for the key is old enough to forget.
LEMMA KeysAreRememberedStep == CheckoutInv /\ [CheckoutNext]_allVars => KeysAreRemembered'
<1> SUFFICES ASSUME CheckoutInv, [CheckoutNext]_allVars PROVE KeysAreRemembered'
  OBVIOUS
<1>a. /\ CheckoutTypeOK /\ TypeOK /\ IInv /\ CallsAreOrdered /\ KeysAreRemembered
  BY DEF CheckoutInv, ClaimInv, IInv
<1> USE <1>a, NoneAssumption, RetentionAssumption DEF CheckoutTypeOK
<1>1. CASE UNCHANGED checkoutVars
  <2>1. \A q \in Requests : gen[q] > 0 => gen'[q] = gen[q]
    BY ClaimsAreKept, CheckoutStepsAreClaimSteps
  <2>2. ASSUME NEW q \in Requests, source[q] = q PROVE gen'[q] = gen[q]
    BY <2>1, <2>2 DEF CallsAreOrdered
  <2> QED BY <1>1, <2>2 DEF KeysAreRemembered, checkoutVars
<1>2. ASSUME NEW r \in Requests, CallStripe(r) PROVE KeysAreRemembered'
  BY <1>2 DEF CallStripe, KeysAreRemembered, vars, claimVars
<1>3. ASSUME NEW r \in Requests, StripeActs(r) PROVE KeysAreRemembered'
  <2>1. gen' = gen /\ calledAt' = [calledAt EXCEPT ![r] = now] /\ source[r] = None
    BY <1>3 DEF StripeActs, vars, claimVars
  <2>2. PICK s \in Requests :
          /\ source' = [source EXCEPT ![r] = s]
          /\ \/ s # r
             \/ /\ s = r
                /\ \A t \in Requests :
                      source[t] = t /\ gen[t] = gen[r] => calledAt[t] + KeyRetention <= now
    BY <1>3, StripeAnswers
  <2>3. ASSUME NEW p \in Requests, NEW q \in Requests,
               p # q, source'[p] = p, source'[q] = q, gen[p] = gen[q]
        PROVE  \/ calledAt'[p] + KeyRetention <= calledAt'[q]
               \/ calledAt'[q] + KeyRetention <= calledAt'[p]
    <3>1. CASE p # r /\ q # r
      BY <2>1, <2>2, <2>3, <3>1 DEF KeysAreRemembered
    <3>2. CASE p = r
      BY <2>1, <2>2, <2>3, <3>2
    <3>3. CASE q = r
      BY <2>1, <2>2, <2>3, <3>3
    <3> QED BY <3>1, <3>2, <3>3
  <2> QED BY <2>1, <2>3 DEF KeysAreRemembered
<1> QED BY <1>1, <1>2, <1>3, StripeSteps

\* A request that holds the claim after a step held it before, or took it with that step.
LEMMA HoldersOfSteps ==
  ASSUME IInv, [Next]_vars, NEW q \in Requests, gen[q] > 0, HoldsClaim(q)'
  PROVE  HoldsClaim(q)
<1>a. TypeOK /\ RowIsNewest /\ PlaceTellsProgress
  BY DEF IInv
<1> USE <1>a DEF HoldsClaim
<1>1. ASSUME NEW r \in Requests, pc[r] = "claim", InsertClaim(r) PROVE FALSE
  <2>1. gen[r] = 0
    BY <1>1 DEF PlaceTellsProgress, Resolving
  <2>2. row'.token = r
    BY <1>1 DEF InsertClaim
  <2> QED BY <2>1, <2>2
<1>2. ASSUME NEW r \in Requests, pc[r] = "take", ExtendClaim(r) PROVE FALSE
  <2>1. gen[r] = 0
    BY <1>2 DEF PlaceTellsProgress, Resolving
  <2>2. row'.token = r
    BY <1>2 DEF ExtendClaim, TypeOK, Row
  <2> QED BY <2>1, <2>2
<1>3. ASSUME NEW r \in Requests, HoldsClaim(r),
             row' = [row EXCEPT !.state = "completed", !.response = row.token]
      PROVE  HoldsClaim(q)
  BY <1>3 DEF TypeOK, Row
<1>4. ASSUME row' = Absent PROVE FALSE
  BY <1>4 DEF Absent
<1>5. CASE row' = row
  BY <1>5
<1> QED BY <1>1, <1>2, <1>3, <1>4, <1>5, RowSteps

\* An answer reaches a handler that holds the claim its source has lost, and a claim lost to
\* another request is not won back.
LEMMA SourceIsSupersededStep == CheckoutInv /\ [CheckoutNext]_allVars => SourceIsSuperseded'
<1> SUFFICES ASSUME CheckoutInv, [CheckoutNext]_allVars, NEW r \in Requests, NEW s \in Requests,
                    call'[r] = "answered", source'[r] = s, r # s, HoldsClaim(s)'
             PROVE  FALSE
  BY DEF SourceIsSuperseded
<1>a. /\ CheckoutTypeOK /\ TypeOK /\ IInv /\ CallsAreOrdered /\ SourceIsSuperseded
      /\ PlaceTellsProgress /\ LeaseOutlastsHandler /\ RowIsNewest
  BY DEF CheckoutInv, ClaimInv, IInv
<1> USE <1>a, NoneAssumption DEF CheckoutTypeOK
<1>1. ASSUME call[r] = "answered", source[r] = s PROVE FALSE
  <2>1. gen[s] > 0
    BY <1>1 DEF CallsAreOrdered
  <2>2. HoldsClaim(s)
    BY <2>1, HoldersOfSteps, CheckoutStepsAreClaimSteps
  <2> QED BY <1>1, <2>2 DEF SourceIsSuperseded
<1>2. CASE UNCHANGED checkoutVars
  BY <1>1, <1>2 DEF checkoutVars
<1>3. ASSUME NEW q \in Requests, CallStripe(q) PROVE FALSE
  BY <1>1, <1>3 DEF CallStripe
<1>4. ASSUME NEW q \in Requests, StripeActs(q) PROVE FALSE
  <2>1. row' = row /\ gen' = gen
    BY <1>4 DEF StripeActs, vars, claimVars
  <2>2. PICK t \in Requests : source' = [source EXCEPT ![q] = t] /\ gen[t] = gen[q]
    BY <1>4, StripeAnswers
  <2>3. CASE q # r
    BY <1>1, <1>4, <2>2, <2>3 DEF StripeActs
  <2>4. CASE q = r
    <3>1. t = s /\ gen[s] = gen[r]
      BY <2>2, <2>4
    <3>2. pc[r] = "run"
      BY <1>4, <2>4 DEF StripeActs
    <3>3. gen[s] = row.generation /\ row.state # "absent" /\ row.token = s
      BY <2>1 DEF HoldsClaim, RowIsNewest
    <3>4. row.token = r
      BY <3>1, <3>2, <3>3 DEF LeaseOutlastsHandler, HasRow, Running
    <3> QED BY <3>3, <3>4
  <2> QED BY <2>3, <2>4
<1> QED BY <1>2, <1>3, <1>4, StripeSteps

\* A claim is released by the request that holds it, and no other was answered from its call.
LEMMA ReleasedCallStep == CheckoutInv /\ [CheckoutNext]_allVars => ReleasedCallIsNotReplayed'
<1> SUFFICES ASSUME CheckoutInv, [CheckoutNext]_allVars, NEW r \in Requests, NEW s \in Requests,
                    call'[r] = "answered", source'[r] = s, r # s, fate'[s] = "released"
             PROVE  FALSE
  BY DEF ReleasedCallIsNotReplayed
<1>a. /\ CheckoutTypeOK /\ TypeOK /\ IInv /\ ReleasedIsOver
      /\ SourceIsSuperseded /\ ReleasedCallIsNotReplayed
  BY DEF CheckoutInv, ClaimInv, IInv
<1> USE <1>a, NoneAssumption DEF CheckoutTypeOK
<1>1. CASE UNCHANGED checkoutVars
  <2>1. call[r] = "answered" /\ source[r] = s
    BY <1>1 DEF checkoutVars
  <2>2. CASE fate[s] = "released"
    BY <2>1, <2>2 DEF ReleasedCallIsNotReplayed
  <2>3. CASE fate[s] # "released"
    <3>1. HoldsClaim(s)
      BY <2>3, ReleaseSteps, CheckoutStepsAreClaimSteps
    <3> QED BY <2>1, <3>1 DEF SourceIsSuperseded
  <2> QED BY <2>2, <2>3
<1>2. ASSUME NEW q \in Requests, CallStripe(q) PROVE FALSE
  BY <1>2 DEF CallStripe, vars, outcomeVars, ReleasedCallIsNotReplayed
<1>3. ASSUME NEW q \in Requests, StripeActs(q) PROVE FALSE
  <2>1. fate[s] = "released"
    BY <1>3 DEF StripeActs, vars, outcomeVars
  <2>2. PICK t \in Requests : source' = [source EXCEPT ![q] = t] /\ gen[t] = gen[q]
    BY <1>3, StripeAnswers
  <2>3. CASE q # r
    BY <1>3, <2>1, <2>2, <2>3 DEF StripeActs, ReleasedCallIsNotReplayed
  <2>4. CASE q = r
    <3>1. gen[s] = gen[r] /\ pc[r] = "run"
      BY <1>3, <2>2, <2>4 DEF StripeActs
    <3> QED BY <2>1, <3>1 DEF ReleasedIsOver, Running
  <2> QED BY <2>3, <2>4
<1> QED BY <1>1, <1>2, <1>3, StripeSteps

----------------------------------------------------------------------------
(* The theorems. *)

\* Initially Stripe has been asked nothing.
LEMMA CheckoutInitInv == CheckoutInit => CheckoutInv
<1> SUFFICES ASSUME CheckoutInit PROVE CheckoutInv
  OBVIOUS
<1>1. ClaimInv /\ TypeOK
  BY ClaimInit DEF CheckoutInit, ClaimInv, IInv
<1>2. CheckoutTypeOK
  BY <1>1 DEF CheckoutInit, CheckoutTypeOK, CallStates, Outcomes
<1>3. CallsAreOrdered /\ KeysAreRemembered
  BY NoneAssumption DEF CheckoutInit, Init, CallsAreOrdered, KeysAreRemembered
<1>4. SourceIsSuperseded /\ ReleasedCallIsNotReplayed
  BY DEF CheckoutInit, SourceIsSuperseded, ReleasedCallIsNotReplayed
<1> QED BY <1>1, <1>2, <1>3, <1>4 DEF CheckoutInv

\* CheckoutInv is inductive, and so an invariant of the checkout.
THEOREM CheckoutInvariance == CheckoutSpec => []CheckoutInv
<1>1. CheckoutInv /\ [CheckoutNext]_allVars => CheckoutInv'
  <2> SUFFICES ASSUME CheckoutInv, [CheckoutNext]_allVars PROVE CheckoutInv'
    OBVIOUS
  <2>1. ClaimInv'
    BY ClaimStepInv, CheckoutStepsAreClaimSteps DEF CheckoutInv
  <2> QED BY <2>1, CheckoutTypeStep, CallsAreOrderedStep, KeysAreRememberedStep,
             SourceIsSupersededStep, ReleasedCallStep DEF CheckoutInv
<1> QED BY <1>1, CheckoutInitInv, PTL DEF CheckoutSpec

\* Calls, sources, outcomes and times stay within their types for any number of requests.
THEOREM CheckoutTypeCorrect == CheckoutSpec => []CheckoutTypeOK
<1>1. CheckoutInv => CheckoutTypeOK
  BY DEF CheckoutInv
<1> QED BY <1>1, CheckoutInvariance, PTL

\* IAN-373, second half: a handler never meets the saved answer of a request that released.
THEOREM ReleasedCallsAreNotReplayed == CheckoutSpec => []ReleasedCallIsNotReplayed
<1>1. CheckoutInv => ReleasedCallIsNotReplayed
  BY DEF CheckoutInv
<1> QED BY <1>1, CheckoutInvariance, PTL

\* IAN-373, first half: a second session within the window of a claim means that it was released.
THEOREM SecondSessionsNeedRelease == CheckoutSpec => []SecondSessionNeedsRelease
<1>1. CheckoutInv => SecondSessionNeedsRelease
  <2> SUFFICES ASSUME CheckoutInv, NEW r \in Requests, NEW s \in Requests,
                      r # s, source[r] = r, source[s] = s, gen[r] <= gen[s],
                      calledAt[r] < bornAt[r] + Window, calledAt[s] < bornAt[r] + Window
               PROVE  IsReleased(gen[r])
    BY DEF SecondSessionNeedsRelease, IsOpened
  <2>1. /\ TypeOK /\ CheckoutTypeOK /\ CallsAreOrdered /\ KeysAreRemembered
        /\ BirthsAreKnown /\ GenerationsEnd
    BY DEF CheckoutInv, CheckoutTypeOK, ClaimInv
  <2>2. /\ gen[r] > 0 /\ gen[r] \in Nat /\ gen[s] \in Nat
        /\ bornAt[r] <= calledAt[r] /\ bornAt[s] <= calledAt[s]
        /\ bornAt[r] \in Nat /\ bornAt[s] \in Nat /\ calledAt[r] \in Nat /\ calledAt[s] \in Nat
    BY <2>1, NoneAssumption DEF CallsAreOrdered, CheckoutTypeOK, TypeOK
  <2>3. CASE gen[r] = gen[s]
    <3>1. bornAt[s] = bornAt[r]
      BY <2>1, <2>2, <2>3 DEF BirthsAreKnown
    <3>2. calledAt[r] + KeyRetention <= calledAt[s] \/ calledAt[s] + KeyRetention <= calledAt[r]
      BY <2>1, <2>3 DEF KeysAreRemembered
    <3> QED BY <2>2, <3>1, <3>2, RetentionAssumption, TimingAssumption
  <2>4. CASE gen[r] < gen[s]
    <3>1. IsReleased(gen[r]) \/ bornAt[r] + Window < bornAt[s]
      BY <2>1, <2>2, <2>4 DEF GenerationsEnd
    <3> QED BY <2>2, <3>1, TimingAssumption
  <2> QED BY <2>2, <2>3, <2>4
<1> QED BY <1>1, CheckoutInvariance, PTL
============================================================================
