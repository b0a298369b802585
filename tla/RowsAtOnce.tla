------------------------------ MODULE RowsAtOnce ------------------------------
(***************************************************************************)
(* What the cleanup promises to whoever uses a row: rows that expire, that *)
(* requests hold, renew and delete, and that the cleanup deletes in one    *)
(* step, at an instant at which they are expired and nobody holds them.    *)
(* IdempotencyKeys, BillingWebhook and AuthAccounts take the cleanup for   *)
(* this when they delete a row in a step of its own.  There are no batches,*)
(* snapshots or runs here.                                                 *)
(***************************************************************************)
CONSTANTS
    Rows,         \* places for rows
    Renewable     \* the rows whose expiry a request may move: keys and events

VARIABLES
    state,        \* each row: live, expired, or gone
    held          \* the rows an open transaction of a request has locked

Init ==
    /\ state \in [Rows -> {"live", "expired"}]
    /\ held = {}

Expire(r) == state[r] = "live" /\ state'[r] = "expired" /\ (r \in held' <=> r \in held)

Insert(r) == state[r] = "gone" /\ state'[r] = "live" /\ r \notin held /\ r \notin held'

Hold(r) == state[r] # "gone" /\ r \notin held /\ r \in held' /\ state'[r] = state[r]

\* The transaction that holds r ends, and has left it alone, renewed it or deleted it.
Release(r) ==
    /\ r \in held /\ r \notin held'
    /\ \/ state'[r] = state[r]
       \/ r \in Renewable /\ state'[r] = "live"
       \/ state'[r] = "gone"

CleanUp(r) ==
    /\ state[r] = "expired" /\ r \notin held
    /\ state'[r] = "gone" /\ r \notin held'

Stay(r) == state'[r] = state[r] /\ (r \in held' <=> r \in held)

RowStep(r) == Expire(r) \/ Insert(r) \/ Hold(r) \/ Release(r) \/ CleanUp(r) \/ Stay(r)

\* One commit may clean several rows up, each by a step of its own.
Next == \A r \in Rows : RowStep(r)

Spec == Init /\ [][Next]_<<state, held>>
============================================================================
