--------------------------- MODULE AccountAtOnce ---------------------------
(***************************************************************************)
(* What the authentication routes promise of one account: each of them     *)
(* takes effect at once.  A password is replaced only by a request that    *)
(* knew it or spent the newest reset link, and the sessions that must not  *)
(* outlive the replacement are gone in the same step.  AuthAccounts, where *)
(* every request is several statements, implements this.                   *)
(***************************************************************************)
CONSTANTS
    Registrations, SignIns, Changes, Resets, \* the requests, named as in AuthAccounts
    Links,      \* the reset links the email jobs may issue
    Questions,  \* what a request may ask
    Unasked,    \* of a request that has not arrived
    Nobody      \* no password, no link

VARIABLES
    password,   \* the account's password, Nobody before it is registered
    sessions,   \* the sessions the account holds, named by the request that opened them
    link,       \* the one reset link that works, or Nobody
    asked       \* what each request asks

vars == <<password, sessions, link, asked>>

Init ==
    /\ password = Nobody /\ sessions = {} /\ link = Nobody
    /\ \A r \in DOMAIN asked : asked[r] = Unasked

Ask(r) ==
    /\ asked[r] = Unasked
    /\ \E question \in Questions : asked' = [asked EXCEPT ![r] = question]
    /\ UNCHANGED <<password, sessions, link>>

Register(r) ==
    /\ password = Nobody
    /\ password' = asked[r].password
    /\ sessions' = sessions \cup {r}
    /\ UNCHANGED <<link, asked>>

\* Signing in also sweeps sessions whose lifetime has passed.
SignIn(r) ==
    /\ password # Nobody /\ asked[r].password = password
    /\ \E swept \in SUBSET sessions : sessions' = (sessions \ swept) \cup {r}
    /\ UNCHANGED <<password, link, asked>>

Change(r) ==
    /\ password # Nobody /\ asked[r].password = password
    /\ password' = asked[r].new
    /\ sessions' = sessions \cap {asked[r].session}
    /\ UNCHANGED <<link, asked>>

Reset(r) ==
    /\ link # Nobody /\ asked[r].link = link
    /\ password' = asked[r].new
    /\ sessions' = {} /\ link' = Nobody
    /\ UNCHANGED asked

Issue(l) ==
    /\ password # Nobody
    /\ link' = l
    /\ UNCHANGED <<password, sessions, asked>>

\* A sign-out, or the end of a session's lifetime.
EndSession(s) ==
    /\ sessions' = sessions \ {s}
    /\ UNCHANGED <<password, link, asked>>

Next ==
    \/ \E r \in DOMAIN asked : Ask(r)
    \/ \E r \in Registrations : Register(r)
    \/ \E r \in SignIns : SignIn(r)
    \/ \E r \in Changes : Change(r)
    \/ \E r \in Resets : Reset(r)
    \/ \E l \in Links : Issue(l)
    \/ \E s \in sessions : EndSession(s)

Spec == Init /\ [][Next]_vars
=============================================================================
