----------------------- MODULE BillingWebhook_proofs -----------------------
(***************************************************************************)
(* Machine-checked proofs about BillingWebhook, for any events, users and  *)
(* deliveries: an event is applied once and acknowledged only then, and a  *)
(* subscription row only moves forward and shows its newest event.         *)
(***************************************************************************)
EXTENDS BillingWebhook, TLAPS

\* Where a delivery owns its event: the first transaction took the claim, no later one settled it.
Holding == {"apply", "link", "write", "commit", "mark_failed"}

\* A slot carries an event exactly while it is busy, and none the cleanup has forgotten.
SlotsAreConsistent ==
    \A d \in Deliveries :
        /\ pc[d] # "idle" => delivered[d] \in Events /\ elapsed[d] <= Timeout
        /\ pc[d] = "idle" => delivered[d] = None
        /\ delivered[d] \notin retired

\* The claim of a live delivery is younger than the delivery, so nobody takes it over.
ClaimIsHeld ==
    \A d \in Deliveries : pc[d] \in Holding =>
        ledger[delivered[d]] = "claimed" /\ age[delivered[d]] <= elapsed[d]

\* So an event has one live holder.
OneHolder ==
    \A c, d \in Deliveries :
        c # d /\ pc[c] \in Holding /\ pc[d] \in Holding => delivered[c] # delivered[d]

AnswersAreApplied == \A d \in Deliveries : pc[d] = "answer" => applied[delivered[d]] = 1

RetiredIsDone == \A e \in retired : ledger[e] = "absent" /\ applied[e] = 1

LedgerInv ==
    /\ TypeOK /\ SlotsAreConsistent /\ ClaimIsHeld /\ OneHolder
    /\ AnswersAreApplied /\ RetiredIsDone /\ AppliedOnce /\ AcknowledgedIsApplied

\* A row names a subscription of its own user, with that subscription's customer.
RowsAreOwned ==
    \A u \in Users :
        \/ rows[u] = NoRow
        \/ \E e \in Events :
            /\ rows[u].subscription = EventOf[e].subscription
            /\ rows[u].customer = EventOf[e].customer
            /\ u = EventOf[e].user

\* Past the first statement an event names a user of the application.
LinkersNameTheirUser ==
    \A d \in Deliveries : pc[d] \in {"link", "write", "commit"} =>
        Content(d).kind \in {"change", "checkout"} /\ Content(d).user \in Users

\* An unlinkable event stays so.
UnlinkableStays ==
    \A d \in Deliveries : pc[d] = "commit" => ~IsCustomerFree(rows, Content(d).user, Content(d))

\* Where an event that links its user has been applied, the user has a row, or someone else has the
\* event's customer.
AppliedIsLinked ==
    \A e \in Events :
        applied[e] > 0 /\ EventOf[e].kind = "change" /\ EventOf[e].user # None =>
            \/ rows[EventOf[e].user].subscription # None
            \/ ~IsCustomerFree(rows, EventOf[e].user, EventOf[e])

RowInv ==
    /\ RowsAreOwned /\ LinkersNameTheirUser /\ UnlinkableStays /\ AppliedIsLinked
    /\ CustomersAreNotShared /\ NewestEventWins

----------------------------------------------------------------------------
(* The rows keep their type. *)

\* Writing one event over one row, as each of the three writes does, gives a row.
LEMMA WritesKeepType ==
    ASSUME NEW row \in Row, NEW e \in Events
    PROVE  /\ WithState(row, EventOf[e]) \in Row
           /\ LinkSubscription(row, EventOf[e]) \in Row
           /\ UpsertSubscription(row, EventOf[e]) \in Row
<1>1. /\ EventOf[e].status \in Statuses /\ EventOf[e].created \in Nat
      /\ EventOf[e].subscription \in {None} \cup {EventOf[f].subscription : f \in Events}
      /\ EventOf[e].customer \in {None} \cup {EventOf[f].customer : f \in Events}
  BY EventsAssumption
<1>2. ASSUME NEW r \in Row PROVE WithState(r, EventOf[e]) \in Row
  <2>1. [r EXCEPT !.status = EventOf[e].status] \in Row BY <1>1, <1>2 DEF Row
  <2>2. WithState(r, EventOf[e])
          = [[r EXCEPT !.status = EventOf[e].status] EXCEPT !.lastEvent = EventOf[e].created]
    BY DEF WithState
  <2> QED BY <1>1, <2>1, <2>2 DEF Row
<1>3. ASSUME NEW r \in Row PROVE WithIds(r, EventOf[e]) \in Row
  <2>1. [r EXCEPT !.subscription = EventOf[e].subscription] \in Row BY <1>1, <1>3 DEF Row
  <2>2. WithIds(r, EventOf[e])
          = [[r EXCEPT !.subscription = EventOf[e].subscription]
               EXCEPT !.customer = EventOf[e].customer]
    BY DEF WithIds
  <2> QED BY <1>1, <2>1, <2>2 DEF Row
<1> QED BY <1>2, <1>3 DEF LinkSubscription, UpsertSubscription

\* The state written for an event, field by field.
LEMMA StateWritten ==
    ASSUME NEW row \in Row, NEW event
    PROVE  /\ WithState(row, event).subscription = row.subscription
           /\ WithState(row, event).customer = row.customer
           /\ WithState(row, event).status = event.status
           /\ WithState(row, event).lastEvent = event.created
BY DEF Row, WithState

\* The ids written for an event, field by field.
LEMMA IdsWritten ==
    ASSUME NEW row \in Row, NEW event
    PROVE  /\ WithIds(row, event).subscription = event.subscription
           /\ WithIds(row, event).customer = event.customer
           /\ WithIds(row, event).status = row.status
           /\ WithIds(row, event).lastEvent = row.lastEvent
BY DEF Row, WithIds

\* The row a delivery's upsert writes is a row.
LEMMA WrittenType ==
    ASSUME TypeOK, NEW d \in Deliveries, delivered[d] \in Events, Content(d).user \in Users
    PROVE  Written(d) \in Row
<1>1. rows[Content(d).user] \in Row BY DEF TypeOK
<1> QED BY <1>1, WritesKeepType DEF Written, Content

\* The update of the rows an event matches keeps every row a row.
LEMMA UpdateType ==
    ASSUME TypeOK, NEW d \in Deliveries, delivered[d] \in Events
    PROVE  UpdateMatching(rows, Content(d)) \in [Users -> Row]
<1>1. \A u \in Users : rows[u] \in Row BY DEF TypeOK
<1>2. \A u \in Users : WithState(rows[u], Content(d)) \in Row BY <1>1, WritesKeepType DEF Content
<1> QED BY <1>1, <1>2 DEF UpdateMatching

----------------------------------------------------------------------------
(* The ledger: every step keeps LedgerInv. *)

\* Initially no event is claimed, applied or acknowledged.
LEMMA LedgerInit == Init => LedgerInv
<1> SUFFICES ASSUME Init PROVE LedgerInv OBVIOUS
<1>1. NoRow \in Row BY DEF NoRow, Row, Statuses
<1>2. TypeOK BY <1>1 DEF Init, TypeOK, Places
<1>3. SlotsAreConsistent BY EventsAssumption DEF Init, SlotsAreConsistent
<1> QED BY <1>2, <1>3, EventsAssumption DEF Init, LedgerInv, ClaimIsHeld, OneHolder, Holding,
           AnswersAreApplied, RetiredIsDone, AppliedOnce, AcknowledgedIsApplied

\* A delivery that ends gives up its place and leaves the other deliveries theirs.
LEMMA EndKeepsSlots ==
    ASSUME LedgerInv, NEW d \in Deliveries, End(d), UNCHANGED <<ledgerVars, applied>>
    PROVE  SlotsAreConsistent' /\ ClaimIsHeld' /\ OneHolder' /\ AnswersAreApplied'
           /\ pc' \in [Deliveries -> Places] /\ delivered' \in [Deliveries -> Events \cup {None}]
           /\ elapsed' \in [Deliveries -> Nat]
<1> USE DEF LedgerInv, TypeOK, End, GoTo, ledgerVars
<1>0. None \notin retired BY EventsAssumption
<1>1. SlotsAreConsistent' BY <1>0, EventsAssumption DEF SlotsAreConsistent
<1>2. ClaimIsHeld' BY DEF ClaimIsHeld, Holding
<1>3. OneHolder' BY DEF OneHolder, Holding
<1>4. AnswersAreApplied' BY DEF AnswersAreApplied
<1> QED BY <1>1, <1>2, <1>3, <1>4 DEF Places

\* A delivery that goes on holding its claim, or starts without one, disturbs no other.
LEMMA MoveKeepsSlots ==
    ASSUME LedgerInv, NEW d \in Deliveries, NEW place \in Holding, pc[d] \in Holding,
           GoTo(d, place), UNCHANGED <<ledgerVars, applied, delivered, elapsed>>
    PROVE  SlotsAreConsistent' /\ ClaimIsHeld' /\ OneHolder' /\ AnswersAreApplied'
           /\ pc' \in [Deliveries -> Places]
<1> USE DEF LedgerInv, TypeOK, GoTo, ledgerVars
<1>1. SlotsAreConsistent' BY DEF SlotsAreConsistent, Holding
<1>2. ClaimIsHeld' BY DEF ClaimIsHeld, Holding
<1>3. OneHolder' BY DEF OneHolder, Holding
<1>4. AnswersAreApplied' BY DEF AnswersAreApplied, Holding
<1> QED BY <1>1, <1>2, <1>3, <1>4 DEF Places, Holding

\* Deliver: a slot takes an event whose row the cleanup has not deleted.
LEMMA DeliverKeepsLedger ==
    ASSUME LedgerInv, NEW d \in Deliveries, NEW e \in Events, Deliver(d, e)
    PROVE  LedgerInv'
<1> USE DEF LedgerInv, TypeOK, Deliver, GoTo, ledgerVars
<1>1. TypeOK' BY DEF Places
<1>2. SlotsAreConsistent' BY AgeAssumption DEF SlotsAreConsistent
<1>3. ClaimIsHeld' BY DEF ClaimIsHeld, Holding
<1>4. OneHolder' BY DEF OneHolder, Holding
<1>5. AnswersAreApplied' BY DEF AnswersAreApplied
<1>6. RetiredIsDone' /\ AppliedOnce' /\ AcknowledgedIsApplied'
  BY DEF RetiredIsDone, AppliedOnce, AcknowledgedIsApplied
<1> QED BY <1>1, <1>2, <1>3, <1>4, <1>5, <1>6

\* ClaimWebhookEvent: no live delivery holds a claimable event, for its claim is too young.
LEMMA ClaimKeepsLedger ==
    ASSUME LedgerInv, NEW d \in Deliveries, ClaimWebhookEvent(d)
    PROVE  LedgerInv'
<1> DEFINE e == delivered[d]
<1> USE DEF LedgerInv, TypeOK, ClaimWebhookEvent, GoTo
<1>1. e \in Events /\ e \notin retired /\ ledger[e] # "processed"
  BY DEF SlotsAreConsistent, IsClaimable
<1>2. TypeOK' BY DEF Places
<1>3. SlotsAreConsistent' BY <1>1 DEF SlotsAreConsistent
<1>4. ASSUME NEW c \in Deliveries, pc[c] \in Holding PROVE delivered[c] # e
  <2>1. ledger[delivered[c]] = "claimed" /\ age[delivered[c]] <= elapsed[c] BY <1>4 DEF ClaimIsHeld
  <2>2. elapsed[c] <= Timeout /\ delivered[c] \in Events
    BY <1>4 DEF SlotsAreConsistent, Holding
  <2>3. age[delivered[c]] <= StaleClaimAge BY <2>1, <2>2, AgeAssumption
  <2> QED BY <2>1, <2>2, <2>3, AgeAssumption DEF IsClaimable
<1>5. ClaimIsHeld' BY <1>1, <1>4 DEF ClaimIsHeld, Holding
<1>6. OneHolder' BY <1>4 DEF OneHolder, Holding
<1>7. AnswersAreApplied' BY DEF AnswersAreApplied
<1>8. RetiredIsDone' BY <1>1 DEF RetiredIsDone
<1>9. AppliedOnce' BY <1>1 DEF AppliedOnce
<1>10. AcknowledgedIsApplied' BY DEF AcknowledgedIsApplied
<1> QED BY <1>2, <1>3, <1>5, <1>6, <1>7, <1>8, <1>9, <1>10

\* The deliveries that end without touching the ledger: skipped, refused, answered, abandoned.
LEMMA EndKeepsLedger ==
    ASSUME LedgerInv, NEW d \in Deliveries,
           SkipProcessedEvent(d) \/ RefuseEventInProgress(d) \/ AnswerReceived(d)
             \/ AbandonDelivery(d)
    PROVE  LedgerInv'
<1> USE DEF SkipProcessedEvent, RefuseEventInProgress, AnswerReceived, AbandonDelivery
<1>1. End(d) /\ UNCHANGED <<ledgerVars, applied, rows>> OBVIOUS
<1>2. SlotsAreConsistent' /\ ClaimIsHeld' /\ OneHolder' /\ AnswersAreApplied'
      /\ pc' \in [Deliveries -> Places] /\ delivered' \in [Deliveries -> Events \cup {None}]
      /\ elapsed' \in [Deliveries -> Nat]
  BY <1>1, EndKeepsSlots
<1>3. delivered[d] \in Events BY DEF LedgerInv, SlotsAreConsistent
<1>4. \/ acked' = acked
      \/ acked' = acked \cup {delivered[d]} /\ applied[delivered[d]] = 1
  <2>1. CASE SkipProcessedEvent(d) BY <2>1, <1>3 DEF LedgerInv, AppliedOnce
  <2>2. CASE AnswerReceived(d) BY <2>2 DEF LedgerInv, AnswersAreApplied
  <2>3. CASE RefuseEventInProgress(d) BY <2>3 DEF ledgerVars
  <2>4. CASE AbandonDelivery(d) BY <2>4 DEF ledgerVars
  <2> QED BY <2>1, <2>2, <2>3, <2>4
<1>5. AcknowledgedIsApplied' BY <1>1, <1>4 DEF LedgerInv, AcknowledgedIsApplied
<1>6. userLock' \in [Users -> Deliveries \cup {None}] /\ faults' \in Nat
  BY DEF LedgerInv, TypeOK, Unlock
<1>7. TypeOK' BY <1>1, <1>2, <1>3, <1>4, <1>6 DEF LedgerInv, TypeOK, ledgerVars
<1>8. RetiredIsDone' /\ AppliedOnce'
  BY <1>1 DEF LedgerInv, RetiredIsDone, AppliedOnce, ledgerVars
<1> QED BY <1>2, <1>5, <1>7, <1>8 DEF LedgerInv

\* Releasing a transaction's locks keeps their type.
LEMMA UnlockKeepsType ==
    ASSUME TypeOK, NEW d \in Deliveries, Unlock(d)
    PROVE  userLock' \in [Users -> Deliveries \cup {None}]
BY DEF TypeOK, Unlock

\* The steps of a delivery that goes on holding its claim.
LEMMA MoveKeepsLedger ==
    ASSUME LedgerInv, NEW d \in Deliveries,
           TurnToUser(d) \/ LockUser(d) \/ ViolateUnique(d) \/ FailHandler(d)
    PROVE  LedgerInv'
<1> USE DEF TurnToUser, LockUser, ViolateUnique, FailHandler
<1>1. pc[d] \in Holding /\ UNCHANGED <<ledgerVars, applied, delivered, elapsed, rows, acked>>
  BY DEF Holding
<1>2. PICK place \in Holding : GoTo(d, place) BY DEF Holding
<1>3. SlotsAreConsistent' /\ ClaimIsHeld' /\ OneHolder' /\ AnswersAreApplied'
      /\ pc' \in [Deliveries -> Places]
  BY <1>1, <1>2, MoveKeepsSlots
<1>4. userLock' \in [Users -> Deliveries \cup {None}] /\ faults' \in Nat
  BY DEF LedgerInv, TypeOK, Unlock
<1>5. TypeOK' BY <1>1, <1>3, <1>4 DEF LedgerInv, TypeOK, ledgerVars
<1>6. RetiredIsDone' /\ AppliedOnce' /\ AcknowledgedIsApplied'
  BY <1>1 DEF LedgerInv, RetiredIsDone, AppliedOnce, AcknowledgedIsApplied, ledgerVars
<1> QED BY <1>3, <1>5, <1>6 DEF LedgerInv

\* The commit of the second transaction: its event was claimed, so never applied before.
LEMMA CommitKeepsLedger ==
    ASSUME LedgerInv, NEW d \in Deliveries, pc[d] \in {"apply", "write", "commit"},
           CommitProcessed(d), rows' \in [Users -> Row]
    PROVE  LedgerInv'
<1> DEFINE e == delivered[d]
<1> USE DEF LedgerInv, TypeOK, CommitProcessed, GoTo
<1>1. e \in Events /\ e \notin retired /\ ledger[e] = "claimed"
  BY DEF SlotsAreConsistent, ClaimIsHeld, Holding
<1>2. applied[e] = 0 /\ applied' = [applied EXCEPT ![e] = 1]
  <2>1. applied[e] = 0 BY <1>1 DEF AppliedOnce
  <2>2. applied[e] + 1 = 1 BY <2>1
  <2> QED BY <2>1, <2>2
<1>3. TypeOK'
  <2>1. userLock' \in [Users -> Deliveries \cup {None}] BY UnlockKeepsType
  <2>2. applied' \in [Events -> Nat]
    <3> HIDE DEF LedgerInv, CommitProcessed, e
    <3> QED BY <1>2 DEF TypeOK, LedgerInv
  <2>3. ledger' \in [Events -> {"absent", "claimed", "processed", "failed"}] OBVIOUS
  <2>4. pc' \in [Deliveries -> Places] BY DEF Places
  <2> QED BY <2>1, <2>2, <2>3, <2>4
<1>4. SlotsAreConsistent' BY DEF SlotsAreConsistent
<1>5. ASSUME NEW c \in Deliveries, c # d, pc[c] \in Holding PROVE delivered[c] # e
  BY <1>5 DEF OneHolder, Holding
<1>6. ClaimIsHeld' BY <1>1, <1>5 DEF ClaimIsHeld, Holding
<1>7. OneHolder' BY DEF OneHolder, Holding
<1>8. AnswersAreApplied' BY <1>1, <1>2 DEF AnswersAreApplied
<1>9. RetiredIsDone' BY <1>1, <1>2 DEF RetiredIsDone
<1>10. AppliedOnce' BY <1>1, <1>2 DEF AppliedOnce
<1>11. AcknowledgedIsApplied' BY <1>1, <1>2 DEF AcknowledgedIsApplied
<1> QED BY <1>3, <1>4, <1>6, <1>7, <1>8, <1>9, <1>10, <1>11

\* MarkEventFailed: the claim given back is this delivery's own.
LEMMA MarkKeepsLedger ==
    ASSUME LedgerInv, NEW d \in Deliveries, MarkEventFailed(d)
    PROVE  LedgerInv'
<1> DEFINE e == delivered[d]
<1> USE DEF LedgerInv, TypeOK, MarkEventFailed, End, GoTo
<1>1. e \in Events /\ e \notin retired /\ ledger[e] = "claimed"
  BY DEF SlotsAreConsistent, ClaimIsHeld, Holding
<1>2. ledger' = [ledger EXCEPT ![e] = "failed"] BY <1>1
<1>3. TypeOK' BY <1>2 DEF Places
<1>4. SlotsAreConsistent' BY EventsAssumption DEF SlotsAreConsistent
<1>5. ASSUME NEW c \in Deliveries, c # d, pc[c] \in Holding PROVE delivered[c] # e
  BY <1>5 DEF OneHolder, Holding
<1>6. ClaimIsHeld' BY <1>1, <1>2, <1>5 DEF ClaimIsHeld, Holding
<1>7. OneHolder' BY DEF OneHolder, Holding
<1>8. AnswersAreApplied' BY DEF AnswersAreApplied
<1>9. RetiredIsDone' BY <1>1, <1>2 DEF RetiredIsDone
<1>10. AppliedOnce' BY <1>1, <1>2 DEF AppliedOnce
<1>11. AcknowledgedIsApplied' BY DEF AcknowledgedIsApplied
<1> QED BY <1>3, <1>4, <1>6, <1>7, <1>8, <1>9, <1>10, <1>11

\* DeleteStaleWebhookEvent: the row deleted is an acknowledged event's, which no delivery carries.
LEMMA DeleteKeepsLedger ==
    ASSUME LedgerInv, NEW e \in Events, DeleteStaleWebhookEvent(e)
    PROVE  LedgerInv'
<1> USE DEF LedgerInv, TypeOK, DeleteStaleWebhookEvent
<1>1. applied[e] = 1 BY DEF AcknowledgedIsApplied
<1>2. TypeOK' OBVIOUS
<1>3. SlotsAreConsistent' BY DEF SlotsAreConsistent
<1>4. ClaimIsHeld' /\ OneHolder' /\ AnswersAreApplied'
  BY DEF ClaimIsHeld, OneHolder, AnswersAreApplied
<1>5. RetiredIsDone' BY <1>1 DEF RetiredIsDone
<1>6. AppliedOnce' BY <1>1 DEF AppliedOnce
<1>7. AcknowledgedIsApplied' BY DEF AcknowledgedIsApplied
<1> QED BY <1>2, <1>3, <1>4, <1>5, <1>6, <1>7

\* Tick: a live claim ages no faster than its delivery.
LEMMA TickKeepsLedger ==
    ASSUME LedgerInv, Tick
    PROVE  LedgerInv'
<1> USE DEF LedgerInv, TypeOK, Tick
<1>1. TypeOK' OBVIOUS
<1>2. SlotsAreConsistent' BY AgeAssumption DEF SlotsAreConsistent
<1>3. ClaimIsHeld'
  <2> SUFFICES ASSUME NEW c \in Deliveries, pc[c] \in Holding
               PROVE ledger[delivered[c]] = "claimed" /\ age'[delivered[c]] <= elapsed'[c]
    BY DEF ClaimIsHeld
  <2>1. delivered[c] \in Events /\ elapsed'[c] = elapsed[c] + 1
    BY DEF Holding, SlotsAreConsistent
  <2>2. ledger[delivered[c]] = "claimed" /\ age[delivered[c]] <= elapsed[c] BY DEF ClaimIsHeld
  <2>3. age'[delivered[c]] <= age[delivered[c]] + 1 BY <2>1
  <2> QED BY <2>1, <2>2, <2>3
<1>4. OneHolder' /\ AnswersAreApplied' /\ RetiredIsDone' /\ AppliedOnce' /\ AcknowledgedIsApplied'
  BY DEF OneHolder, AnswersAreApplied, RetiredIsDone, AppliedOnce, AcknowledgedIsApplied
<1> QED BY <1>1, <1>2, <1>3, <1>4

\* Every step of the system keeps the ledger's invariant.
LEMMA LedgerStep == LedgerInv /\ [Next]_vars => LedgerInv'
<1> SUFFICES ASSUME LedgerInv, [Next]_vars PROVE LedgerInv' OBVIOUS
<1>1. ASSUME NEW d \in Deliveries, NEW e \in Events, Deliver(d, e) PROVE LedgerInv'
  BY <1>1, DeliverKeepsLedger
<1>2. ASSUME NEW d \in Deliveries, Claim(d) PROVE LedgerInv'
  BY <1>2, ClaimKeepsLedger, EndKeepsLedger DEF Claim
<1>3. ASSUME NEW d \in Deliveries, Apply(d) PROVE LedgerInv'
  <2>0. delivered[d] \in Events
    BY <1>3 DEF LedgerInv, SlotsAreConsistent, Apply, UpdateKnownRow, IgnoreEvent, TurnToUser,
                LockUser, CommitUnlinkable, WriteUserRow, ViolateUnique
  <2>1. CASE UpdateKnownRow(d)
    <3>1. rows' \in [Users -> Row] BY <2>0, <2>1, UpdateType DEF UpdateKnownRow, LedgerInv
    <3> QED BY <2>1, <3>1, CommitKeepsLedger DEF UpdateKnownRow
  <2>2. CASE IgnoreEvent(d) \/ CommitUnlinkable(d)
    <3>1. rows' \in [Users -> Row]
      BY <2>2 DEF IgnoreEvent, CommitUnlinkable, LedgerInv, TypeOK
    <3> QED BY <2>2, <3>1, CommitKeepsLedger DEF IgnoreEvent, CommitUnlinkable
  <2>3. CASE WriteUserRow(d)
    <3>1. CASE Content(d).user \in Users
      <4>1. Written(d) \in Row BY <2>0, <3>1, WrittenType DEF LedgerInv
      <4>2. rows' \in [Users -> Row] BY <2>3, <4>1 DEF WriteUserRow, LedgerInv, TypeOK
      <4> QED BY <2>3, <4>2, CommitKeepsLedger DEF WriteUserRow
    <3>2. CASE Content(d).user \notin Users
      <4>1. rows' \in [Users -> Row] BY <2>3, <3>2 DEF WriteUserRow, LedgerInv, TypeOK
      <4> QED BY <2>3, <4>1, CommitKeepsLedger DEF WriteUserRow
    <3> QED BY <3>1, <3>2
  <2>4. CASE TurnToUser(d) \/ LockUser(d) \/ ViolateUnique(d) BY <2>4, MoveKeepsLedger
  <2> QED BY <1>3, <2>1, <2>2, <2>3, <2>4 DEF Apply
<1>4. ASSUME NEW d \in Deliveries,
             MarkEventFailed(d) \/ AnswerReceived(d) \/ FailHandler(d) \/ AbandonDelivery(d)
      PROVE LedgerInv'
  BY <1>4, MarkKeepsLedger, EndKeepsLedger, MoveKeepsLedger
<1>5. ASSUME NEW e \in Events, DeleteStaleWebhookEvent(e) PROVE LedgerInv'
  BY <1>5, DeleteKeepsLedger
<1>6. CASE Tick BY <1>6, TickKeepsLedger
<1>7. CASE UNCHANGED vars
  BY <1>7 DEF LedgerInv, TypeOK, SlotsAreConsistent, ClaimIsHeld, OneHolder, AnswersAreApplied,
              RetiredIsDone, AppliedOnce, AcknowledgedIsApplied, vars, ledgerVars
<1> QED BY <1>1, <1>2, <1>3, <1>4, <1>5, <1>6, <1>7 DEF Next, Step

\* The ledger's invariant holds in every reachable state.
THEOREM LedgerInvariance == Spec => []LedgerInv
<1>1. Init => LedgerInv BY LedgerInit
<1>2. LedgerInv /\ [Next]_vars => LedgerInv' BY LedgerStep
<1> QED BY <1>1, <1>2, PTL DEF Spec

----------------------------------------------------------------------------
(* The rows: every step keeps RowInv. *)

\* Initially no user has a row.
LEMMA RowInit == Init => RowInv
<1> SUFFICES ASSUME Init PROVE RowInv OBVIOUS
<1>1. RowsAreOwned BY DEF Init, RowsAreOwned
<1>2. LinkersNameTheirUser /\ UnlinkableStays BY DEF Init, LinkersNameTheirUser, UnlinkableStays
<1>3. AppliedIsLinked BY DEF Init, AppliedIsLinked
<1>4. CustomersAreNotShared /\ NewestEventWins
  BY DEF Init, CustomersAreNotShared, NewestEventWins, NoRow
<1> QED BY <1>1, <1>2, <1>3, <1>4 DEF RowInv

\* A step that writes no row and commits no event, and gives no delivery a place past the first
\* statement, keeps the rows' invariant.
LEMMA OthersKeepRows ==
    ASSUME RowInv, UNCHANGED <<rows, applied>>,
           \A d \in Deliveries : pc'[d] \in {"link", "write", "commit"} =>
               pc'[d] = pc[d] /\ delivered'[d] = delivered[d]
    PROVE  RowInv'
<1> USE DEF RowInv
<1>1. RowsAreOwned' BY DEF RowsAreOwned
<1>2. LinkersNameTheirUser' BY DEF LinkersNameTheirUser, Content
<1>3. UnlinkableStays' BY DEF UnlinkableStays, Content, IsCustomerFree
<1>4. AppliedIsLinked' BY DEF AppliedIsLinked, IsCustomerFree
<1>5. CustomersAreNotShared' BY DEF CustomersAreNotShared
<1>6. NewestEventWins' BY DEF NewestEventWins, AppliedTo
<1> QED BY <1>1, <1>2, <1>3, <1>4, <1>5, <1>6

\* TurnToUser: the event names a user.
LEMMA TurnKeepsRows ==
    ASSUME LedgerInv, RowInv, NEW d \in Deliveries, TurnToUser(d)
    PROVE  RowInv'
<1> USE DEF RowInv, TurnToUser, GoTo
<1>0. pc' = [pc EXCEPT ![d] = "link"] /\ pc \in [Deliveries -> Places]
  BY DEF LedgerInv, TypeOK
<1>1. RowsAreOwned' BY DEF RowsAreOwned
<1>2. LinkersNameTheirUser'
  <2>1. delivered[d] \in Events BY DEF LedgerInv, SlotsAreConsistent
  <2>2. Content(d).user \in Users BY <2>1, EventsAssumption DEF Content
  <2> QED BY <1>0, <2>2 DEF LinkersNameTheirUser, Content
<1>3. UnlinkableStays' BY <1>0 DEF UnlinkableStays, Content, IsCustomerFree
<1>4. AppliedIsLinked' BY DEF AppliedIsLinked, IsCustomerFree
<1>5. CustomersAreNotShared' BY DEF CustomersAreNotShared
<1>6. NewestEventWins' BY DEF NewestEventWins, AppliedTo
<1> QED BY <1>1, <1>2, <1>3, <1>4, <1>5, <1>6

\* LockUser: a delivery goes on to the commit only when the customer is another user's.
LEMMA LockKeepsRows ==
    ASSUME LedgerInv, RowInv, NEW d \in Deliveries, LockUser(d)
    PROVE  RowInv'
<1> USE DEF RowInv, LockUser, GoTo
<1>0. pc' = [pc EXCEPT ![d] = IF IsCustomerFree(rows, Content(d).user, Content(d))
                              THEN "write" ELSE "commit"]
      /\ pc \in [Deliveries -> Places]
  BY DEF LedgerInv, TypeOK
<1>1. RowsAreOwned' BY DEF RowsAreOwned
<1>2. LinkersNameTheirUser' BY <1>0 DEF LinkersNameTheirUser, Content
<1>3. UnlinkableStays' BY <1>0 DEF UnlinkableStays, Content, IsCustomerFree
<1>4. AppliedIsLinked' BY DEF AppliedIsLinked, IsCustomerFree
<1>5. CustomersAreNotShared' BY DEF CustomersAreNotShared
<1>6. NewestEventWins' BY DEF NewestEventWins, AppliedTo
<1> QED BY <1>1, <1>2, <1>3, <1>4, <1>5, <1>6

\* What the commit of the second transaction changes besides the rows.
LEMMA CommitFacts ==
    ASSUME LedgerInv, NEW d \in Deliveries, pc[d] \in {"apply", "write", "commit"},
           CommitProcessed(d)
    PROVE  /\ delivered[d] \in Events /\ applied[delivered[d]] = 0
           /\ applied' = [applied EXCEPT ![delivered[d]] = 1]
           /\ pc' = [pc EXCEPT ![d] = "answer"] /\ pc \in [Deliveries -> Places]
           /\ delivered' = delivered
           /\ \A f \in Events : applied'[f] > 0 <=> applied[f] > 0 \/ f = delivered[d]
<1>1. delivered[d] \in Events /\ delivered[d] \notin retired /\ ledger[delivered[d]] = "claimed"
  BY DEF LedgerInv, SlotsAreConsistent, ClaimIsHeld, Holding
<1>2. applied \in [Events -> Nat] BY DEF LedgerInv, TypeOK
<1>3. applied[delivered[d]] = 0 BY <1>1, <1>2 DEF LedgerInv, AppliedOnce
<1>4. applied' = [applied EXCEPT ![delivered[d]] = 1]
  <2>1. applied[delivered[d]] + 1 = 1 BY <1>3
  <2> QED BY <2>1 DEF CommitProcessed
<1>5. \A f \in Events : applied'[f] > 0 <=> applied[f] > 0 \/ f = delivered[d]
  BY <1>1, <1>2, <1>4
<1> QED BY <1>1, <1>3, <1>4, <1>5 DEF CommitProcessed, GoTo, LedgerInv, TypeOK

\* No write takes a subscription or a customer from a row that has one.
IdsStay ==
    \A u \in Users :
        /\ rows[u].subscription # None => rows'[u].subscription = rows[u].subscription
        /\ rows[u].customer # None => rows'[u].customer = rows[u].customer

\* A customer that another user has stays so.
LEMMA TakenCustomerStays ==
    ASSUME IdsStay, NEW user, NEW event, event.customer # None,
           ~IsCustomerFree(rows, user, event)
    PROVE  ~IsCustomerFree(rows', user, event)
BY DEF IdsStay, IsCustomerFree

\* What a commit keeps by the ids alone.
LEMMA CommitKeepsLinks ==
    ASSUME LedgerInv, RowInv, NEW d \in Deliveries, pc[d] \in {"apply", "write", "commit"},
           CommitProcessed(d), IdsStay
    PROVE  /\ LinkersNameTheirUser' /\ UnlinkableStays'
           /\ \A f \in Events :
                /\ applied[f] > 0 /\ EventOf[f].kind = "change" /\ EventOf[f].user # None
                => \/ rows'[EventOf[f].user].subscription # None
                   \/ ~IsCustomerFree(rows', EventOf[f].user, EventOf[f])
<1>1. pc' = [pc EXCEPT ![d] = "answer"] /\ pc \in [Deliveries -> Places] /\ delivered' = delivered
  BY CommitFacts
<1>2. LinkersNameTheirUser' BY <1>1 DEF RowInv, LinkersNameTheirUser, Content
<1>3. UnlinkableStays'
  <2> SUFFICES ASSUME NEW c \in Deliveries, pc'[c] = "commit"
               PROVE ~IsCustomerFree(rows', Content(c).user, Content(c))
    BY <1>1 DEF UnlinkableStays, Content
  <2>1. pc[c] = "commit" BY <1>1
  <2>2. ~IsCustomerFree(rows, Content(c).user, Content(c)) BY <2>1 DEF RowInv, UnlinkableStays
  <2>3. delivered[c] \in Events BY <2>1 DEF LedgerInv, SlotsAreConsistent
  <2>4. Content(c).customer # None BY <2>3, EventsAssumption DEF Content
  <2> QED BY <2>2, <2>4, TakenCustomerStays
<1>4. ASSUME NEW f \in Events, applied[f] > 0, EventOf[f].kind = "change", EventOf[f].user # None
      PROVE  \/ rows'[EventOf[f].user].subscription # None
             \/ ~IsCustomerFree(rows', EventOf[f].user, EventOf[f])
  <2>1. EventOf[f].user \in Users /\ EventOf[f].customer # None BY <1>4, EventsAssumption
  <2>2. CASE rows[EventOf[f].user].subscription # None BY <2>1, <2>2 DEF IdsStay
  <2>3. CASE ~IsCustomerFree(rows, EventOf[f].user, EventOf[f])
    BY <2>1, <2>3, TakenCustomerStays
  <2> QED BY <1>4, <2>2, <2>3 DEF RowInv, AppliedIsLinked
<1> QED BY <1>2, <1>3, <1>4

\* A row that names an event's subscription is that event's user's, and has its customer.
LEMMA NamedRowIsOwned ==
    ASSUME RowInv, NEW u \in Users, NEW e \in Events,
           rows[u].subscription = EventOf[e].subscription
    PROVE  u = EventOf[e].user /\ rows[u].customer = EventOf[e].customer
<1>1. EventOf[e].subscription # None BY EventsAssumption
<1>2. rows[u] # NoRow BY <1>1 DEF NoRow
<1>3. PICK g \in Events : /\ rows[u].subscription = EventOf[g].subscription
                          /\ rows[u].customer = EventOf[g].customer
                          /\ u = EventOf[g].user
  BY <1>2 DEF RowInv, RowsAreOwned
<1> QED BY <1>3, SubscriptionAssumption

\* A user without a subscription has no row at all.
LEMMA UnnamedIsNoRow ==
    ASSUME RowInv, NEW u \in Users, rows[u].subscription = None
    PROVE  rows[u] = NoRow
BY EventsAssumption DEF RowInv, RowsAreOwned

\* IgnoreEvent: an event that writes nothing has no state a row should show.
LEMMA IgnoreKeepsRows ==
    ASSUME LedgerInv, RowInv, NEW d \in Deliveries, IgnoreEvent(d)
    PROVE  RowInv'
<1> DEFINE e == delivered[d]
<1>1. pc[d] = "apply" /\ CommitProcessed(d) /\ rows' = rows BY DEF IgnoreEvent
<1>2. /\ e \in Events /\ delivered' = delivered
      /\ \A f \in Events : applied'[f] > 0 <=> applied[f] > 0 \/ f = e
  BY <1>1, CommitFacts
<1>3. ~(EventOf[e].kind = "change" /\ EventOf[e].user # None)
  BY DEF IgnoreEvent, Content
<1>4. IdsStay BY <1>1 DEF IdsStay
<1>5. LinkersNameTheirUser' /\ UnlinkableStays' BY <1>1, <1>4, CommitKeepsLinks
<1>6. AppliedIsLinked'
  BY <1>1, <1>2, <1>3 DEF RowInv, AppliedIsLinked, IsCustomerFree
<1>7. RowsAreOwned' /\ CustomersAreNotShared'
  BY <1>1 DEF RowInv, RowsAreOwned, CustomersAreNotShared
<1>8. NewestEventWins'
  <2> HIDE DEF e
  <2> QED BY <1>1, <1>2, <1>3 DEF RowInv, NewestEventWins, AppliedTo
<1> QED BY <1>5, <1>6, <1>7, <1>8 DEF RowInv

\* CommitUnlinkable: no row of this user names the event's subscription, for another user has the
\* customer.
LEMMA UnlinkableKeepsRows ==
    ASSUME LedgerInv, RowInv, NEW d \in Deliveries, CommitUnlinkable(d)
    PROVE  RowInv'
<1> DEFINE e == delivered[d]
<1>1. pc[d] = "commit" /\ CommitProcessed(d) /\ rows' = rows BY DEF CommitUnlinkable
<1>2. /\ e \in Events /\ delivered' = delivered
      /\ \A f \in Events : applied'[f] > 0 <=> applied[f] > 0 \/ f = e
  BY <1>1, CommitFacts
<1>3. ~IsCustomerFree(rows, EventOf[e].user, EventOf[e])
  BY <1>1 DEF RowInv, UnlinkableStays, Content
<1>4. ASSUME NEW u \in Users PROVE rows[u].subscription # EventOf[e].subscription
  <2> SUFFICES ASSUME rows[u].subscription = EventOf[e].subscription PROVE FALSE OBVIOUS
  <2>1. u = EventOf[e].user /\ rows[u].customer = EventOf[e].customer
    BY <1>2, NamedRowIsOwned
  <2>2. PICK v \in Users \ {u} : rows[v].customer = EventOf[e].customer
    BY <1>3, <2>1 DEF IsCustomerFree
  <2>3. EventOf[e].customer # None BY <1>2, EventsAssumption
  <2> QED BY <2>1, <2>2, <2>3 DEF RowInv, CustomersAreNotShared
<1>5. IdsStay BY <1>1 DEF IdsStay
<1>6. LinkersNameTheirUser' /\ UnlinkableStays' BY <1>1, <1>5, CommitKeepsLinks
<1>7. AppliedIsLinked'
  BY <1>1, <1>2, <1>3 DEF RowInv, AppliedIsLinked, IsCustomerFree
<1>8. RowsAreOwned' /\ CustomersAreNotShared'
  BY <1>1 DEF RowInv, RowsAreOwned, CustomersAreNotShared
<1>9. NewestEventWins'
  <2> HIDE DEF e
  <2> QED BY <1>1, <1>2, <1>4 DEF RowInv, NewestEventWins, AppliedTo
<1> QED BY <1>6, <1>7, <1>8, <1>9 DEF RowInv

\* What an update of the matching rows does to each row.
LEMMA UpdateFacts ==
    ASSUME LedgerInv, NEW d \in Deliveries, UpdateKnownRow(d), NEW u \in Users
    PROVE  /\ rows'[u].subscription = rows[u].subscription
           /\ rows'[u].customer = rows[u].customer
           /\ u \in Matching(rows, Content(d)) =>
                /\ rows[u].subscription = Content(d).subscription
                /\ rows[u].lastEvent <= Content(d).created
                /\ rows'[u].lastEvent = Content(d).created
                /\ rows'[u].status = Content(d).status
           /\ u \notin Matching(rows, Content(d)) =>
                /\ rows'[u] = rows[u]
                /\ rows[u].subscription = Content(d).subscription =>
                     ~(rows[u].lastEvent <= Content(d).created)
<1>1. rows[u] \in Row BY DEF LedgerInv, TypeOK
<1>2. rows'[u] = IF u \in Matching(rows, Content(d))
                 THEN WithState(rows[u], Content(d)) ELSE rows[u]
  BY DEF UpdateKnownRow, UpdateMatching
<1>3. CASE u \in Matching(rows, Content(d))
  <2>1. rows'[u] = WithState(rows[u], Content(d)) BY <1>2, <1>3
  <2>2. rows[u].subscription = Content(d).subscription /\ rows[u].lastEvent <= Content(d).created
    BY <1>3 DEF Matching, IsNotNewer
  <2> QED BY <1>1, <1>3, <2>1, <2>2, StateWritten
<1>4. CASE u \notin Matching(rows, Content(d))
  <2>1. rows'[u] = rows[u] BY <1>2, <1>4
  <2>2. rows[u].subscription = Content(d).subscription => ~(rows[u].lastEvent <= Content(d).created)
    BY <1>4 DEF Matching, IsNotNewer
  <2> QED BY <1>4, <2>1, <2>2
<1> QED BY <1>3, <1>4

\* UpdateKnownRow: the row the event matched shows it, and no row moved backwards.
LEMMA UpdateKeepsRows ==
    ASSUME LedgerInv, RowInv, NEW d \in Deliveries, UpdateKnownRow(d)
    PROVE  RowInv'
<1> DEFINE e == delivered[d]
<1>1. /\ pc[d] = "apply" /\ CommitProcessed(d) /\ Matching(rows, EventOf[e]) # {}
      /\ EventOf[e].kind # "checkout"
  BY DEF UpdateKnownRow, Content
<1>2. /\ e \in Events /\ delivered' = delivered
      /\ \A f \in Events : applied'[f] > 0 <=> applied[f] > 0 \/ f = e
  BY <1>1, CommitFacts
<1>3. \A u \in Users : /\ rows'[u].subscription = rows[u].subscription
                       /\ rows'[u].customer = rows[u].customer
  BY UpdateFacts
<1>4. IdsStay BY <1>3 DEF IdsStay
<1>5. LinkersNameTheirUser' /\ UnlinkableStays' BY <1>1, <1>4, CommitKeepsLinks
<1>6. ASSUME EventOf[e].user # None PROVE rows'[EventOf[e].user].subscription # None
  <2>1. PICK u \in Users : rows[u].subscription = EventOf[e].subscription BY <1>1 DEF Matching
  <2>2. u = EventOf[e].user BY <1>2, <2>1, NamedRowIsOwned
  <2> QED BY <1>2, <1>3, <2>1, <2>2, EventsAssumption
<1>7. AppliedIsLinked'
  <2> SUFFICES ASSUME NEW f \in Events, applied'[f] > 0, EventOf[f].kind = "change",
                      EventOf[f].user # None
               PROVE  \/ rows'[EventOf[f].user].subscription # None
                      \/ ~IsCustomerFree(rows', EventOf[f].user, EventOf[f])
    BY DEF AppliedIsLinked, IsCustomerFree
  <2>1. CASE f = e BY <1>6, <2>1
  <2>2. CASE applied[f] > 0 BY <1>1, <1>4, <2>2, CommitKeepsLinks
  <2> QED BY <1>2, <2>1, <2>2
<1>8. RowsAreOwned'
  <2> SUFFICES ASSUME NEW u \in Users
               PROVE \/ rows'[u] = NoRow
                     \/ \E g \in Events : /\ rows'[u].subscription = EventOf[g].subscription
                                          /\ rows'[u].customer = EventOf[g].customer
                                          /\ u = EventOf[g].user
    BY DEF RowsAreOwned
  <2>1. CASE u \in Matching(rows, EventOf[e])
    <3>1. rows[u].subscription = EventOf[e].subscription BY <2>1 DEF Matching
    <3>2. u = EventOf[e].user /\ rows[u].customer = EventOf[e].customer
      BY <1>2, <3>1, NamedRowIsOwned
    <3> QED BY <1>2, <1>3, <3>1, <3>2
  <2>2. CASE u \notin Matching(rows, EventOf[e])
    <3>1. rows'[u] = rows[u] BY <2>2, UpdateFacts DEF Content
    <3> QED BY <3>1 DEF RowInv, RowsAreOwned
  <2> QED BY <2>1, <2>2
<1>9. CustomersAreNotShared' BY <1>3 DEF RowInv, CustomersAreNotShared
<1>10. NewestEventWins'
  <2> SUFFICES ASSUME NEW u \in Users, rows'[u].subscription # None
               PROVE  /\ \A f \in AppliedTo(u)' :
                           EventOf[f].kind = "change" /\ EventOf[f].user # None
                             => EventOf[f].created <= rows'[u].lastEvent
                      /\ \/ rows'[u].lastEvent = 0
                         \/ \E f \in AppliedTo(u)' :
                              /\ EventOf[f].created = rows'[u].lastEvent
                              /\ EventOf[f].status = rows'[u].status
    BY DEF NewestEventWins
  <2> HIDE DEF e
  <2>0. rows[u] \in Row /\ rows[u].lastEvent \in Nat
    BY DEF LedgerInv, TypeOK, Row
  <2>1. AppliedTo(u)' = {f \in Events : /\ applied'[f] > 0 /\ EventOf[f].kind # "checkout"
                                        /\ EventOf[f].subscription = rows[u].subscription}
    BY <1>3 DEF AppliedTo
  <2>2. AppliedTo(u) \subseteq AppliedTo(u)'
    BY <1>2, <2>1 DEF AppliedTo
  <2>3. \A f \in AppliedTo(u)' : f \in AppliedTo(u) \/ f = e
    BY <1>2, <2>1 DEF AppliedTo
  <2>4. /\ \A f \in AppliedTo(u) :
             EventOf[f].kind = "change" /\ EventOf[f].user # None
               => EventOf[f].created <= rows[u].lastEvent
        /\ \/ rows[u].lastEvent = 0
           \/ \E f \in AppliedTo(u) :
                EventOf[f].created = rows[u].lastEvent /\ EventOf[f].status = rows[u].status
    BY <1>3 DEF RowInv, NewestEventWins
  <2>5. \A f \in Events : EventOf[f].created \in Nat BY EventsAssumption
  <2>6. CASE u \in Matching(rows, EventOf[e])
    <3>1. /\ rows[u].subscription = EventOf[e].subscription
          /\ rows[u].lastEvent <= EventOf[e].created
          /\ rows'[u].lastEvent = EventOf[e].created /\ rows'[u].status = EventOf[e].status
      BY <2>6, UpdateFacts DEF Content, e
    <3>2. e \in AppliedTo(u)' BY <1>1, <1>2, <2>1, <3>1
    <3>3. \A f \in AppliedTo(u) : f \in Events BY DEF AppliedTo
    <3> QED BY <1>2, <2>0, <2>3, <2>4, <2>5, <3>1, <3>2, <3>3
  <2>7. CASE u \notin Matching(rows, EventOf[e])
    <3>1. rows'[u] = rows[u]
          /\ (rows[u].subscription = EventOf[e].subscription
                => ~(rows[u].lastEvent <= EventOf[e].created))
      BY <2>7, UpdateFacts DEF Content, e
    <3>2. e \in AppliedTo(u)' => EventOf[e].created <= rows[u].lastEvent
      BY <1>2, <2>0, <2>1, <2>5, <3>1
    <3> QED BY <2>2, <2>3, <2>4, <3>1, <3>2
  <2> QED BY <2>6, <2>7
<1> QED BY <1>5, <1>7, <1>8, <1>9, <1>10 DEF RowInv

\* The three outcomes of the upsert: a checkout links its subscription, a change links it and writes
\* its state, or the row stays as it was because it names another subscription or a newer event.
LEMMA WriteOutcomes ==
    ASSUME LedgerInv, RowInv, NEW d \in Deliveries, WriteUserRow(d)
    PROVE  LET event == Content(d)
               row == rows[event.user]
               row2 == rows'[event.user]
           IN /\ event.user \in Users /\ event.kind \in {"change", "checkout"}
              /\ \A u \in Users \ {event.user} : rows'[u] = rows[u]
              /\ rows' \in [Users -> Row]
              /\ \/ /\ row.subscription \in {None, event.subscription}
                    /\ row2.subscription = event.subscription /\ row2.customer = event.customer
                    /\ \/ /\ event.kind = "checkout"
                          /\ row2.status = row.status /\ row2.lastEvent = row.lastEvent
                       \/ /\ event.kind = "change" /\ row.lastEvent <= event.created
                          /\ row2.status = event.status /\ row2.lastEvent = event.created
                 \/ /\ row2 = row /\ row.subscription # None
                    /\ event.kind = "change" /\ row.subscription = event.subscription
                         => ~(row.lastEvent <= event.created)
<1> DEFINE event == Content(d)
           row == rows[event.user]
           row2 == rows'[event.user]
<1>1. event.user \in Users /\ event.kind \in {"change", "checkout"} /\ delivered[d] \in Events
  BY DEF WriteUserRow, RowInv, LinkersNameTheirUser, LedgerInv, SlotsAreConsistent
<1>2. row \in Row /\ Written(d) \in Row
  BY <1>1, WrittenType DEF LedgerInv, TypeOK
<1>3. rows' = [rows EXCEPT ![event.user] = Written(d)] /\ rows \in [Users -> Row]
  BY DEF WriteUserRow, LedgerInv, TypeOK
<1>4. rows' \in [Users -> Row] /\ row2 = Written(d)
      /\ \A u \in Users \ {event.user} : rows'[u] = rows[u]
  BY <1>1, <1>2, <1>3
<1>5. /\ WithIds(row, event) \in Row
      /\ WithIds(row, event).subscription = event.subscription
      /\ WithIds(row, event).customer = event.customer
      /\ WithIds(row, event).status = row.status
      /\ WithIds(row, event).lastEvent = row.lastEvent
  <2>1. [row EXCEPT !.subscription = event.subscription] \in Row BY <1>1, <1>2 DEF Row, Content
  <2>2. WithIds(row, event)
          = [[row EXCEPT !.subscription = event.subscription] EXCEPT !.customer = event.customer]
    BY DEF WithIds
  <2>3. WithIds(row, event) \in Row
    BY <1>1, <2>1, <2>2 DEF Row, Content
  <2> QED BY <1>2, <2>3, IdsWritten
<1>6. CASE event.kind = "checkout" /\ NamesNoOther(row, event)
  <2>1. row2 = WithIds(row, event) BY <1>4, <1>6 DEF Written, LinkSubscription
  <2> QED BY <1>1, <1>4, <1>5, <1>6, <2>1 DEF NamesNoOther
<1>7. CASE event.kind = "change" /\ NamesNoOther(row, event) /\ IsNotNewer(row, event)
  <2>1. row2 = WithState(WithIds(row, event), event)
    BY <1>4, <1>7 DEF Written, UpsertSubscription
  <2>2. /\ row2.subscription = event.subscription /\ row2.customer = event.customer
        /\ row2.status = event.status /\ row2.lastEvent = event.created
    BY <1>5, <2>1, StateWritten
  <2> QED BY <1>1, <1>4, <1>7, <2>2 DEF NamesNoOther, IsNotNewer
<1>8. CASE ~NamesNoOther(row, event)
  <2>1. row2 = row BY <1>1, <1>4, <1>8 DEF Written, LinkSubscription, UpsertSubscription
  <2> QED BY <1>1, <1>4, <1>8, <2>1 DEF NamesNoOther
<1>9. CASE event.kind = "change" /\ ~IsNotNewer(row, event)
  <2>1. row2 = row BY <1>4, <1>9 DEF Written, UpsertSubscription
  <2>2. ~(row.lastEvent <= event.created) BY <1>9 DEF IsNotNewer
  <2>3. row # NoRow BY <1>1, <2>2, EventsAssumption DEF NoRow, Content
  <2>4. row.subscription # None BY <1>1, <2>3, UnnamedIsNoRow
  <2> QED BY <1>1, <1>4, <2>1, <2>2, <2>4
<1> QED BY <1>1, <1>6, <1>7, <1>8, <1>9

\* No applied event of a subscription waits for the row that its first link creates: the event's own
\* write would have been refused only for a customer that is another user's, and so would this one.
LEMMA NothingAppliedBeforeLink ==
    ASSUME LedgerInv, RowInv, NEW d \in Deliveries, WriteUserRow(d),
           rows[Content(d).user].subscription = None,
           rows'[Content(d).user].customer = Content(d).customer,
           NEW f \in Events, applied[f] > 0, EventOf[f].kind = "change", EventOf[f].user # None
    PROVE  EventOf[f].subscription # Content(d).subscription
<1> SUFFICES ASSUME EventOf[f].subscription = Content(d).subscription PROVE FALSE OBVIOUS
<1>1. delivered[d] \in Events
  BY DEF WriteUserRow, LedgerInv, SlotsAreConsistent
<1>2. EventOf[f].user = Content(d).user /\ EventOf[f].customer = Content(d).customer
  BY <1>1, SubscriptionAssumption DEF Content
<1>3. ~IsCustomerFree(rows, Content(d).user, EventOf[f])
  BY <1>2 DEF RowInv, AppliedIsLinked
<1>4. PICK v \in Users \ {Content(d).user} : rows[v].customer = Content(d).customer
  BY <1>2, <1>3 DEF IsCustomerFree
<1>5. Content(d).user \in Users /\ rows'[Content(d).user] = Written(d)
  BY DEF WriteUserRow, RowInv, LinkersNameTheirUser, LedgerInv, TypeOK
<1>6. Written(d).customer = None BY <1>4, <1>5 DEF WriteUserRow, KeepsUnique
<1> QED BY <1>1, <1>5, <1>6, EventsAssumption DEF Content

\* WriteUserRow: the row written keeps its subscription, shows its newest event, and shares no
\* customer.
LEMMA WriteKeepsRows ==
    ASSUME LedgerInv, RowInv, NEW d \in Deliveries, WriteUserRow(d)
    PROVE  RowInv' /\ IdsStay
<1> DEFINE e == delivered[d]
           user == EventOf[e].user
           row == rows[user]
           row2 == rows'[user]
<1>1. pc[d] = "write" /\ CommitProcessed(d) /\ KeepsUnique(rows, user, Written(d))
      /\ row2 = Written(d)
  <2>1. rows' = [rows EXCEPT ![user] = Written(d)] /\ pc[d] = "write" BY DEF WriteUserRow, Content
  <2>2. user \in Users BY <2>1 DEF RowInv, LinkersNameTheirUser, Content
  <2> QED BY <2>1, <2>2 DEF WriteUserRow, Content, LedgerInv, TypeOK
<1>2. /\ e \in Events /\ delivered' = delivered
      /\ \A f \in Events : applied'[f] > 0 <=> applied[f] > 0 \/ f = e
  BY <1>1, CommitFacts
<1>3. /\ user \in Users /\ EventOf[e].kind \in {"change", "checkout"}
      /\ \A u \in Users \ {user} : rows'[u] = rows[u]
      /\ rows' \in [Users -> Row]
  BY WriteOutcomes DEF Content
<1>4. \/ /\ row.subscription \in {None, EventOf[e].subscription}
         /\ row2.subscription = EventOf[e].subscription /\ row2.customer = EventOf[e].customer
         /\ \/ /\ EventOf[e].kind = "checkout"
               /\ row2.status = row.status /\ row2.lastEvent = row.lastEvent
            \/ /\ EventOf[e].kind = "change" /\ row.lastEvent <= EventOf[e].created
               /\ row2.status = EventOf[e].status /\ row2.lastEvent = EventOf[e].created
      \/ /\ row2 = row /\ row.subscription # None
         /\ EventOf[e].kind = "change" /\ row.subscription = EventOf[e].subscription
              => ~(row.lastEvent <= EventOf[e].created)
  BY WriteOutcomes DEF Content
<1>5. EventOf[e].subscription # None /\ EventOf[e].customer # None /\ EventOf[e].created \in Nat
  BY <1>2, EventsAssumption
<1>6. row2.subscription # None
  BY <1>4, <1>5
<1>7. /\ row.subscription # None => row2.subscription = row.subscription
      /\ row.customer # None => row2.customer = row.customer
  <2>1. CASE row.subscription = None
    <3>1. row = NoRow BY <1>3, <2>1, UnnamedIsNoRow
    <3> QED BY <2>1, <3>1 DEF NoRow
  <2>2. CASE row.subscription = EventOf[e].subscription
    <3>1. row.customer = EventOf[e].customer BY <1>2, <1>3, <2>2, NamedRowIsOwned
    <3> QED BY <1>4, <2>2, <3>1
  <2> QED BY <1>4, <2>1, <2>2
<1> HIDE DEF row, row2, user, e
<1>8. IdsStay
  <2> SUFFICES ASSUME NEW u \in Users
               PROVE /\ rows[u].subscription # None => rows'[u].subscription = rows[u].subscription
                     /\ rows[u].customer # None => rows'[u].customer = rows[u].customer
    BY DEF IdsStay
  <2> QED BY <1>3, <1>7 DEF row, row2
<1>9. LinkersNameTheirUser' /\ UnlinkableStays' BY <1>1, <1>8, CommitKeepsLinks
<1>10. AppliedIsLinked'
  <2> SUFFICES ASSUME NEW f \in Events, applied'[f] > 0, EventOf[f].kind = "change",
                      EventOf[f].user # None
               PROVE  \/ rows'[EventOf[f].user].subscription # None
                      \/ ~IsCustomerFree(rows', EventOf[f].user, EventOf[f])
    BY DEF AppliedIsLinked, IsCustomerFree
  <2>1. CASE f = e BY <1>6, <2>1 DEF row2, user
  <2>2. CASE applied[f] > 0 BY <1>1, <1>8, <2>2, CommitKeepsLinks
  <2> QED BY <1>2, <2>1, <2>2
<1>11. RowsAreOwned'
  <2> SUFFICES ASSUME NEW u \in Users
               PROVE \/ rows'[u] = NoRow
                     \/ \E g \in Events : /\ rows'[u].subscription = EventOf[g].subscription
                                          /\ rows'[u].customer = EventOf[g].customer
                                          /\ u = EventOf[g].user
    BY DEF RowsAreOwned
  <2>1. CASE u # user \/ rows'[u] = rows[u]
    <3>1. rows'[u] = rows[u] BY <1>3, <2>1
    <3> QED BY <3>1 DEF RowInv, RowsAreOwned
  <2>2. CASE u = user /\ row2 # row
    <3>1. row2.subscription = EventOf[e].subscription /\ row2.customer = EventOf[e].customer
      BY <1>4, <2>2
    <3> QED BY <1>2, <2>2, <3>1 DEF row2, user
  <2> QED BY <2>1, <2>2 DEF row, row2
<1>12. CustomersAreNotShared'
  <2> SUFFICES ASSUME NEW u \in Users, NEW v \in Users, u # v, rows'[u].customer # None
               PROVE  rows'[u].customer # rows'[v].customer
    BY DEF CustomersAreNotShared
  <2>1. CASE u # user /\ v # user
    BY <1>3, <2>1 DEF RowInv, CustomersAreNotShared
  <2>2. CASE u = user
    <3>1. rows'[v] = rows[v] BY <1>3, <2>2
    <3> QED BY <1>1, <2>2, <3>1 DEF KeepsUnique, row2
  <2>3. CASE v = user
    <3>1. rows'[u] = rows[u] BY <1>3, <2>3
    <3> QED BY <1>1, <2>3, <3>1 DEF KeepsUnique, row2
  <2> QED BY <2>1, <2>2, <2>3
<1>13. NewestEventWins'
  <2> SUFFICES ASSUME NEW u \in Users, rows'[u].subscription # None
               PROVE  /\ \A f \in AppliedTo(u)' :
                           EventOf[f].kind = "change" /\ EventOf[f].user # None
                             => EventOf[f].created <= rows'[u].lastEvent
                      /\ \/ rows'[u].lastEvent = 0
                         \/ \E f \in AppliedTo(u)' :
                              /\ EventOf[f].created = rows'[u].lastEvent
                              /\ EventOf[f].status = rows'[u].status
    BY DEF NewestEventWins
  <2>0. \A f \in Events : EventOf[f].created \in Nat BY EventsAssumption
  <2>1. \A f \in AppliedTo(u)' : f \in Events BY DEF AppliedTo
  <2>2. ASSUME rows[u].subscription # None
        PROVE  /\ rows'[u].subscription = rows[u].subscription
               /\ AppliedTo(u) \subseteq AppliedTo(u)'
               /\ \A f \in AppliedTo(u)' : f \in AppliedTo(u) \/ f = e
               /\ \A f \in AppliedTo(u) :
                    EventOf[f].kind = "change" /\ EventOf[f].user # None
                      => EventOf[f].created <= rows[u].lastEvent
               /\ \/ rows[u].lastEvent = 0
                  \/ \E f \in AppliedTo(u) :
                       EventOf[f].created = rows[u].lastEvent /\ EventOf[f].status = rows[u].status
    <3>1. rows'[u].subscription = rows[u].subscription BY <1>8, <2>2 DEF IdsStay
    <3>2. AppliedTo(u)' = {f \in Events : /\ applied'[f] > 0 /\ EventOf[f].kind # "checkout"
                                          /\ EventOf[f].subscription = rows[u].subscription}
      BY <3>1 DEF AppliedTo
    <3>3. AppliedTo(u) \subseteq AppliedTo(u)' /\ \A f \in AppliedTo(u)' : f \in AppliedTo(u) \/ f = e
      BY <1>2, <3>2 DEF AppliedTo
    <3> QED BY <2>2, <3>1, <3>3 DEF RowInv, NewestEventWins
  <2>3. rows[u].lastEvent \in Nat BY DEF LedgerInv, TypeOK, Row
  <2>4. CASE u # user
    <3>1. rows'[u] = rows[u] BY <1>3, <2>4
    <3>2. rows[u].subscription # EventOf[e].subscription
      BY <1>2, <2>4, NamedRowIsOwned DEF user
    <3>3. e \notin AppliedTo(u)' BY <3>1, <3>2 DEF AppliedTo
    <3> QED BY <2>2, <3>1, <3>3
  <2>5. CASE u = user /\ row2 = row
    <3>1. rows'[u] = rows[u] /\ rows[u].subscription # None BY <1>6, <2>5 DEF row, row2
    <3>2. ASSUME e \in AppliedTo(u)', EventOf[e].kind = "change"
          PROVE  EventOf[e].created <= rows[u].lastEvent
      <4>1. row.subscription = EventOf[e].subscription
        BY <2>5, <3>1, <3>2 DEF AppliedTo, row
      <4>2. ~(row.lastEvent <= EventOf[e].created) \/ EventOf[e].created = row.lastEvent
        BY <1>4, <2>5, <3>2, <4>1
      <4> QED BY <1>5, <2>3, <2>5, <4>2 DEF row
    <3> QED BY <2>2, <3>1, <3>2
  <2>6. CASE u = user /\ row2 # row /\ row.subscription = None
    <3>1. row = NoRow BY <1>3, <2>6, UnnamedIsNoRow DEF row
    <3>2. row2.customer = EventOf[e].customer /\ row2.subscription = EventOf[e].subscription
      BY <1>4, <2>6
    <3>3. ASSUME NEW f \in AppliedTo(u)', EventOf[f].kind = "change", EventOf[f].user # None
          PROVE f = e
      <4>1. f \in Events /\ applied'[f] > 0 /\ EventOf[f].subscription = EventOf[e].subscription
        BY <2>6, <3>2 DEF AppliedTo, row2
      <4>2. ~(applied[f] > 0)
        BY <2>6, <3>2, <3>3, <4>1, NothingAppliedBeforeLink DEF Content, row, row2, user, e
      <4> QED BY <1>2, <4>1, <4>2
    <3>4. CASE EventOf[e].kind = "checkout"
      <4>1. row2.lastEvent = 0 BY <1>4, <2>6, <3>1, <3>4 DEF NoRow
      <4>2. \A f \in AppliedTo(u)' : f # e BY <3>4 DEF AppliedTo
      <4> QED BY <2>6, <3>3, <4>1, <4>2 DEF row2
    <3>5. CASE EventOf[e].kind = "change"
      <4>1. row2.lastEvent = EventOf[e].created /\ row2.status = EventOf[e].status
        BY <1>4, <2>6, <3>5
      <4>2. e \in AppliedTo(u)' BY <1>2, <2>6, <3>2, <3>5 DEF AppliedTo, row2
      <4> QED BY <1>5, <2>6, <3>3, <4>1, <4>2 DEF row2
    <3> QED BY <1>3, <3>4, <3>5
  <2>7. CASE u = user /\ row2 # row /\ row.subscription # None
    <3>1. row.subscription = EventOf[e].subscription /\ rows[u].subscription # None
      BY <1>4, <2>7 DEF row
    <3>2. CASE EventOf[e].kind = "checkout"
      <4>1. rows'[u].lastEvent = rows[u].lastEvent /\ rows'[u].status = rows[u].status
        BY <1>4, <2>7, <3>2 DEF row, row2
      <4>2. \A f \in AppliedTo(u)' : f # e BY <3>2 DEF AppliedTo
      <4> QED BY <2>2, <3>1, <4>1, <4>2
    <3>3. CASE EventOf[e].kind = "change"
      <4>1. /\ rows[u].lastEvent <= EventOf[e].created
            /\ rows'[u].lastEvent = EventOf[e].created /\ rows'[u].status = EventOf[e].status
        BY <1>4, <2>7, <3>3 DEF row, row2
      <4>2. e \in AppliedTo(u)'
        BY <1>2, <2>2, <2>7, <3>1, <3>3 DEF AppliedTo, row
      <4>3. \A f \in AppliedTo(u) : f \in Events BY DEF AppliedTo
      <4> QED BY <1>5, <2>0, <2>2, <2>3, <3>1, <4>1, <4>2, <4>3
    <3> QED BY <1>3, <3>2, <3>3
  <2> QED BY <2>4, <2>5, <2>6, <2>7
<1> QED BY <1>8, <1>9, <1>10, <1>11, <1>12, <1>13 DEF RowInv

\* Every step of the system keeps the rows' invariant.
LEMMA RowStep == LedgerInv /\ RowInv /\ [Next]_vars => RowInv'
<1> SUFFICES ASSUME LedgerInv, RowInv, [Next]_vars PROVE RowInv' OBVIOUS
<1>0. pc \in [Deliveries -> Places] BY DEF LedgerInv, TypeOK
<1>1. ASSUME NEW d \in Deliveries, NEW e \in Events, Deliver(d, e) PROVE RowInv'
  BY <1>0, <1>1, OthersKeepRows DEF Deliver, GoTo
<1>2. ASSUME NEW d \in Deliveries, Claim(d) PROVE RowInv'
  <2>1. UNCHANGED <<rows, applied>>
    BY <1>2 DEF Claim, ClaimWebhookEvent, SkipProcessedEvent, RefuseEventInProgress
  <2>2. \A c \in Deliveries : pc'[c] \in {"link", "write", "commit"} =>
          pc'[c] = pc[c] /\ delivered'[c] = delivered[c]
    BY <1>0, <1>2 DEF Claim, ClaimWebhookEvent, SkipProcessedEvent, RefuseEventInProgress, End,
                      GoTo, LedgerInv, TypeOK
  <2> QED BY <2>1, <2>2, OthersKeepRows
<1>3. ASSUME NEW d \in Deliveries, Apply(d) PROVE RowInv'
  <2>1. CASE ViolateUnique(d)
    BY <1>0, <2>1, OthersKeepRows DEF ViolateUnique, GoTo
  <2> QED BY <1>3, <2>1, UpdateKeepsRows, IgnoreKeepsRows, TurnKeepsRows, LockKeepsRows,
             UnlinkableKeepsRows, WriteKeepsRows DEF Apply
<1>4. ASSUME NEW d \in Deliveries,
             MarkEventFailed(d) \/ AnswerReceived(d) \/ FailHandler(d) \/ AbandonDelivery(d)
      PROVE RowInv'
  <2>1. UNCHANGED <<rows, applied>>
    BY <1>4 DEF MarkEventFailed, AnswerReceived, FailHandler, AbandonDelivery
  <2>2. \A c \in Deliveries : pc'[c] \in {"link", "write", "commit"} =>
          pc'[c] = pc[c] /\ delivered'[c] = delivered[c]
    BY <1>0, <1>4 DEF MarkEventFailed, AnswerReceived, FailHandler, AbandonDelivery, End, GoTo,
                      LedgerInv, TypeOK
  <2> QED BY <2>1, <2>2, OthersKeepRows
<1>5. ASSUME NEW e \in Events, DeleteStaleWebhookEvent(e) PROVE RowInv'
  BY <1>5, OthersKeepRows DEF DeleteStaleWebhookEvent
<1>6. CASE Tick BY <1>6, OthersKeepRows DEF Tick
<1>7. CASE UNCHANGED vars BY <1>7, OthersKeepRows DEF vars
<1> QED BY <1>1, <1>2, <1>3, <1>4, <1>5, <1>6, <1>7 DEF Next, Step

\* Both invariants hold in every reachable state, for any events, users and deliveries.
THEOREM Invariance == Spec => [](LedgerInv /\ RowInv)
<1>1. Init => LedgerInv /\ RowInv BY LedgerInit, RowInit
<1>2. LedgerInv /\ RowInv /\ [Next]_vars => LedgerInv' /\ RowInv' BY LedgerStep, RowStep
<1> QED BY <1>1, <1>2, PTL DEF Spec

----------------------------------------------------------------------------
(* The properties of BillingWebhook. *)

\* The ledger, the rows, their locks and the deliveries keep their types.
THEOREM TypeCorrect == Spec => []TypeOK
<1>1. LedgerInv => TypeOK BY DEF LedgerInv
<1> QED BY <1>1, LedgerInvariance, PTL

\* Spec B-21 and B-41: an event's changes commit once, with its processed mark, for any number of
\* deliveries, failures and crashes.
THEOREM EventsApplyOnce == Spec => []AppliedOnce
<1>1. LedgerInv => AppliedOnce BY DEF LedgerInv
<1> QED BY <1>1, LedgerInvariance, PTL

\* Spec B-41: Stripe's 200 means the event has been applied.
THEOREM AcknowledgementsAreTrue == Spec => []AcknowledgedIsApplied
<1>1. LedgerInv => AcknowledgedIsApplied BY DEF LedgerInv
<1> QED BY <1>1, LedgerInvariance, PTL

\* Two users' rows never name one customer, whatever the interleaving of the lookup and the write.
THEOREM CustomersStayTheirUsers == Spec => []CustomersAreNotShared
<1>1. RowInv => CustomersAreNotShared BY DEF RowInv
<1> QED BY <1>1, Invariance, PTL

\* US-BILLING-003: a row shows its subscription's newest applied event, in whatever order the
\* deliveries came.
THEOREM RowsShowNewestEvent == Spec => []NewestEventWins
<1>1. RowInv => NewestEventWins BY DEF RowInv
<1> QED BY <1>1, Invariance, PTL

\* A step keeps the subscription and the customer of every row that has them, and its newest event
\* or a newer one.
LEMMA StepMovesForward ==
    LedgerInv /\ RowInv /\ [Next]_vars =>
        \A u \in Users : rows[u].subscription # None =>
            /\ rows'[u].subscription = rows[u].subscription
            /\ rows'[u].customer = rows[u].customer
            /\ rows'[u].lastEvent >= rows[u].lastEvent
<1> SUFFICES ASSUME LedgerInv, RowInv, [Next]_vars, NEW u \in Users, rows[u].subscription # None
             PROVE  /\ rows'[u].subscription = rows[u].subscription
                    /\ rows'[u].customer = rows[u].customer
                    /\ rows'[u].lastEvent >= rows[u].lastEvent
  OBVIOUS
<1>1. rows[u] \in Row /\ rows[u].lastEvent \in Nat BY DEF LedgerInv, TypeOK, Row
<1>2. CASE rows' = rows BY <1>1, <1>2
<1>3. ASSUME NEW d \in Deliveries, UpdateKnownRow(d)
      PROVE  /\ rows'[u].subscription = rows[u].subscription
             /\ rows'[u].customer = rows[u].customer
             /\ rows'[u].lastEvent >= rows[u].lastEvent
  <2>1. delivered[d] \in Events BY <1>3 DEF UpdateKnownRow, LedgerInv, SlotsAreConsistent
  <2>2. Content(d).created \in Nat BY <2>1, EventsAssumption DEF Content
  <2>3. CASE u \in Matching(rows, Content(d)) BY <1>1, <1>3, <2>2, <2>3, UpdateFacts
  <2>4. CASE u \notin Matching(rows, Content(d)) BY <1>1, <1>3, <2>4, UpdateFacts
  <2> QED BY <2>3, <2>4
<1>4. ASSUME NEW d \in Deliveries, WriteUserRow(d)
      PROVE  /\ rows'[u].subscription = rows[u].subscription
             /\ rows'[u].customer = rows[u].customer
             /\ rows'[u].lastEvent >= rows[u].lastEvent
  <2>1. delivered[d] \in Events BY <1>4 DEF WriteUserRow, LedgerInv, SlotsAreConsistent
  <2>2. Content(d).created \in Nat BY <2>1, EventsAssumption DEF Content
  <2>3. IdsStay BY <1>4, WriteKeepsRows
  <2>4. rows[u] # NoRow BY DEF NoRow
  <2>5. rows[u].customer # None
    BY <2>4, EventsAssumption DEF RowInv, RowsAreOwned
  <2>6. rows'[u].lastEvent >= rows[u].lastEvent
    <3>1. CASE u # Content(d).user
      <4>1. rows'[u] = rows[u] BY <1>4, <3>1, WriteOutcomes
      <4> QED BY <1>1, <4>1
    <3>2. CASE u = Content(d).user
      <4>1. \/ rows'[u] = rows[u]
            \/ rows'[u].lastEvent = rows[u].lastEvent
            \/ rows[u].lastEvent <= Content(d).created /\ rows'[u].lastEvent = Content(d).created
        BY <1>4, <3>2, WriteOutcomes
      <4> QED BY <1>1, <2>2, <4>1
    <3> QED BY <3>1, <3>2
  <2> QED BY <2>3, <2>5, <2>6 DEF IdsStay
<1> QED
  BY <1>2, <1>3, <1>4 DEF Next, Step, Claim, Apply, Deliver, ClaimWebhookEvent, SkipProcessedEvent,
     RefuseEventInProgress, IgnoreEvent, TurnToUser, LockUser, CommitUnlinkable, ViolateUnique,
     MarkEventFailed, AnswerReceived, FailHandler, AbandonDelivery, DeleteStaleWebhookEvent, Tick,
     vars

\* repositories/user_subscriptions.py:67: a late event never points a row back, at another
\* subscription or customer or at an older state.
THEOREM RowsNeverMoveBack == Spec => RowsOnlyMoveForward
<1>1. (LedgerInv /\ RowInv) /\ [Next]_vars =>
        [\A u \in Users : rows[u].subscription # None =>
            /\ rows'[u].subscription = rows[u].subscription
            /\ rows'[u].customer = rows[u].customer
            /\ rows'[u].lastEvent >= rows[u].lastEvent]_vars
  BY StepMovesForward
<1> QED BY <1>1, Invariance, PTL DEF Spec, RowsOnlyMoveForward
=============================================================================
