----------------------------- MODULE StoredOnce -----------------------------
(***************************************************************************)
(* What an idempotency key promises its clients, without rows, leases or   *)
(* time: the attempts of one generation may each commit, after a failure,  *)
(* until a response is stored; from then on the generation is closed, no   *)
(* attempt joins it or commits in it, and what is replayed is a stored     *)
(* response.                                                               *)
(***************************************************************************)
EXTENDS Naturals

CONSTANTS Requests, None

VARIABLES
    generation,  \* the generation each request runs a handler in, 0 for none
    committed,   \* the requests whose side effect committed
    stored,      \* the requests whose response is stored
    replayOf     \* whose stored response each request was answered with

vars == <<generation, committed, stored, replayOf>>

Init ==
    /\ generation = [r \in Requests |-> 0]
    /\ committed = {}
    /\ stored = {}
    /\ replayOf = [r \in Requests |-> None]

\* No response of this generation is stored yet.
IsOpen(g) == \A s \in stored : generation[s] # g

Begin(r) ==
    /\ generation[r] = 0 /\ replayOf[r] = None
    /\ generation'[r] \in Nat \ {0}
    /\ IsOpen(generation'[r])
    /\ generation' = [generation EXCEPT ![r] = generation'[r]]
    /\ UNCHANGED <<committed, stored, replayOf>>

Commit(r) ==
    /\ generation[r] # 0 /\ r \notin committed
    /\ IsOpen(generation[r])
    /\ committed' = committed \cup {r}
    /\ UNCHANGED <<generation, stored, replayOf>>

Store(r) ==
    /\ generation[r] # 0
    /\ IsOpen(generation[r])
    /\ stored' = stored \cup {r}
    /\ UNCHANGED <<generation, committed, replayOf>>

Replay(r, s) ==
    /\ generation[r] = 0 /\ replayOf[r] = None
    /\ s \in stored
    /\ replayOf' = [replayOf EXCEPT ![r] = s]
    /\ UNCHANGED <<generation, committed, stored>>

Next ==
    \E r \in Requests :
        \/ Begin(r) \/ Commit(r) \/ Store(r)
        \/ \E s \in Requests : Replay(r, s)

Spec == Init /\ [][Next]_vars
============================================================================
