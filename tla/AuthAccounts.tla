---------------------------- MODULE AuthAccounts ----------------------------
(***************************************************************************)
(* One account through the routes that register it, sign it in and out,    *)
(* change its password and recover it by email (routers/auth.py,           *)
(* services/auth/, workers/jobs/send_password_reset_email.py).             *)
(*                                                                         *)
(* A request is one transaction at READ COMMITTED.  Each waits at the row   *)
(* locks the code takes and reads the row it has locked; between two waits *)
(* nothing another transaction does can matter, so the statements from one *)
(* wait to the next are one step, and the last of them commits.  The email *)
(* job is one transaction and then a call of the provider, tried again up  *)
(* to RESET_EMAIL_MAX_TRIES times.                                         *)
(*                                                                         *)
(* A session is named by the request that opened it, a reset link by the   *)
(* job that issued it and the try that did.                                *)
(***************************************************************************)
EXTENDS Naturals, FiniteSets

CONSTANTS
    Registrations, SignIns, Changes, Resets, SignOuts, \* the requests, by route
    Jobs,       \* the password-reset email jobs
    Passwords,
    MaxTries,   \* RESET_EMAIL_MAX_TRIES
    MaxFaults,  \* bound of the model: how many requests and tries fail for no reason of their own
    Nobody      \* no password, no session, no link, no holder of a lock

Requests == Registrations \cup SignIns \cup Changes \cup Resets \cup SignOuts
Actors == Requests \cup Jobs
Openers == Registrations \cup SignIns
Links == Jobs \X (1..MaxTries)

ASSUME ActorsAssumption ==
    /\ Registrations \cap (SignIns \cup Changes \cup Resets \cup SignOuts \cup Jobs) = {}
    /\ SignIns \cap (Changes \cup Resets \cup SignOuts \cup Jobs) = {}
    /\ Changes \cap (Resets \cup SignOuts \cup Jobs) = {}
    /\ Resets \cap (SignOuts \cup Jobs) = {} /\ SignOuts \cap Jobs = {}
    /\ Nobody \notin Actors /\ Nobody \notin Passwords /\ Nobody \notin Links

ASSUME BoundsAssumption == MaxTries \in Nat \ {0} /\ MaxFaults \in Nat

VARIABLES
    user,       \* the users row: its password and how often one was written; version 0 for no row
    inserting,  \* the registration whose inserted row is not committed yet
    userLock,   \* the transaction that holds the users row
    sessions,   \* user_sessions
    expired,    \* the stored sessions whose expires_at has passed
    basis,      \* the version each session's opener, or its password change, proved
    unused,     \* the rows of user_password_resets whose used_at is null
    stale,      \* the unused ones whose expires_at has passed
    stage,      \* where each request and job is
    asked,      \* what each request asks
    seen,       \* the users row as each transaction read it under the lock
    tries,      \* job_try of each job
    mailed,     \* the links the provider accepted
    faults

sessionVars == <<sessions, expired, basis>>
linkVars == <<unused, stale>>
jobVars == <<tries, mailed>>
vars == <<user, inserting, userLock, sessionVars, linkVars, stage, asked, seen, jobVars, faults>>

----------------------------------------------------------------------------

Stages == {"idle", "insert", "inserted", "lock", "locked", "consume", "delete",
           "send", "done", "refused", "failed"}
Ended == {"done", "refused", "failed"}

UserRow == [password : Passwords \cup {Nobody}, version : Nat]
NoUser == [password |-> Nobody, version |-> 0]

Questions == [password : Passwords \cup {Nobody}, new : Passwords \cup {Nobody},
              session : Openers \cup {Nobody}, link : Links \cup {Nobody}]
Unasked == [password |-> Nobody, new |-> Nobody, session |-> Nobody, link |-> Nobody]

TypeOK ==
    /\ user \in UserRow
    /\ inserting \in Registrations \cup {Nobody}
    /\ userLock \in Actors \cup {Nobody}
    /\ sessions \subseteq Openers /\ expired \subseteq sessions
    /\ basis \in [Openers -> Nat]
    /\ unused \subseteq Links /\ stale \subseteq unused
    /\ stage \in [Actors -> Stages]
    /\ asked \in [Requests -> Questions]
    /\ seen \in [Actors -> UserRow]
    /\ tries \in [Jobs -> 0..MaxTries]
    /\ mailed \subseteq Links
    /\ faults \in Nat

Init ==
    /\ user = NoUser /\ inserting = Nobody /\ userLock = Nobody
    /\ sessions = {} /\ expired = {} /\ basis = [s \in Openers |-> 0]
    /\ unused = {} /\ stale = {}
    /\ stage = [a \in Actors |-> "idle"]
    /\ asked = [r \in Requests |-> Unasked]
    /\ seen = [a \in Actors |-> NoUser]
    /\ tries = [j \in Jobs |-> 0] /\ mailed = {}
    /\ faults = 0

GoTo(a, place) == stage' = [stage EXCEPT ![a] = place]

Ask(r, question) == asked' = [asked EXCEPT ![r] = question]

\* The end of a transaction releases the row it holds.
Unlock(a) == userLock' = IF userLock = a THEN Nobody ELSE userLock

KeepSessions(kept) == sessions' = kept /\ expired' = expired \cap kept

KeepLinks(kept) == unused' = kept /\ stale' = stale \cap kept

\* The resets whose transactions have marked the link used and are not over.
Consumers(l) == {p \in Resets : stage[p] \in {"lock", "locked"} /\ asked[p].link = l}

----------------------------------------------------------------------------
(* Row locks. *)

\* Mutant: the row is read without its lock.
MayAlwaysRead == TRUE

\* Postgres lets one transaction at a time hold the row.
IsUserFree == userLock = Nobody

\* SELECT ... FOR UPDATE of the users row, or a reset's UPDATE of it: it waits for the holder and
\* then reads what the holder committed.  With no row yet there is nothing to hold.
LockUser(a) ==
    /\ stage[a] = "lock" /\ IsUserFree
    /\ GoTo(a, "locked")
    /\ userLock' = IF user = NoUser THEN Nobody ELSE a
    /\ seen' = [seen EXCEPT ![a] = user]
    /\ UNCHANGED <<user, inserting, sessionVars, linkVars, asked, jobVars, faults>>

\* The route raises, and get_connection rolls back.
Leave(a, place) ==
    /\ GoTo(a, place) /\ Unlock(a)
    /\ UNCHANGED <<user, inserting, sessionVars, linkVars, asked, seen, jobVars, faults>>

----------------------------------------------------------------------------
(* Registering. *)

AskRegistration(r, p) ==
    /\ stage[r] = "idle"
    /\ GoTo(r, "insert")
    /\ Ask(r, [Unasked EXCEPT !.password = p])
    /\ UNCHANGED <<user, inserting, userLock, sessionVars, linkVars, seen, jobVars, faults>>

\* The unique index on lower(email) makes a second insertion wait for the first one's end.
InsertUser(r) ==
    /\ stage[r] = "insert" /\ inserting = Nobody /\ user = NoUser
    /\ GoTo(r, "inserted")
    /\ inserting' = r
    /\ UNCHANGED <<user, userLock, sessionVars, linkVars, asked, seen, jobVars, faults>>

RefuseDuplicate(r) ==
    /\ stage[r] = "insert" /\ inserting = Nobody /\ user # NoUser
    /\ Leave(r, "refused")

CommitRegistration(r) ==
    /\ stage[r] = "inserted"
    /\ GoTo(r, "done")
    /\ inserting' = Nobody
    /\ user' = [password |-> asked[r].password, version |-> 1]
    /\ sessions' = sessions \cup {r}
    /\ basis' = [basis EXCEPT ![r] = 1]
    /\ UNCHANGED <<expired, userLock, linkVars, asked, seen, jobVars, faults>>

----------------------------------------------------------------------------
(* Signing in, changing the password and signing out. *)

AskSignIn(r, p) ==
    /\ stage[r] = "idle"
    /\ GoTo(r, "lock")
    /\ Ask(r, [Unasked EXCEPT !.password = p])
    /\ UNCHANGED <<user, inserting, userLock, sessionVars, linkVars, seen, jobVars, faults>>

\* verify_password against the hash that was read; an absent account's matches nothing.
Proves(r) == seen[r].password = asked[r].password

RefuseCredentials(r) ==
    /\ stage[r] = "locked" /\ ~Proves(r)
    /\ Leave(r, "refused")

\* The sign-in also deletes the account's expired sessions.
OpenSession(r) ==
    /\ stage[r] = "locked" /\ Proves(r)
    /\ GoTo(r, "done") /\ Unlock(r)
    /\ sessions' = (sessions \ expired) \cup {r} /\ expired' = {}
    /\ basis' = [basis EXCEPT ![r] = seen[r].version]
    /\ UNCHANGED <<user, inserting, linkVars, asked, seen, jobVars, faults>>

\* The cookie is one an opener got; its session is read, and its expiry judged, on arrival.
AskChange(r, s, p, q) ==
    /\ stage[r] = "idle" /\ stage[s] = "done"
    /\ GoTo(r, IF s \in sessions \ expired THEN "lock" ELSE "refused")
    /\ Ask(r, [Unasked EXCEPT !.session = s, !.password = p, !.new = q])
    /\ UNCHANGED <<user, inserting, userLock, sessionVars, linkVars, seen, jobVars, faults>>

Replaced(q) == [password |-> q, version |-> user.version + 1]

\* Mutant: the caller is signed out with the others.
CommitChangeForAll(r) ==
    /\ stage[r] = "locked" /\ Proves(r)
    /\ GoTo(r, "done") /\ Unlock(r)
    /\ user' = Replaced(asked[r].new)
    /\ KeepSessions({})
    /\ UNCHANGED <<inserting, basis, linkVars, asked, seen, jobVars, faults>>

CommitChange(r) ==
    /\ stage[r] = "locked" /\ Proves(r)
    /\ GoTo(r, "done") /\ Unlock(r)
    /\ user' = Replaced(asked[r].new)
    /\ KeepSessions(sessions \cap {asked[r].session})
    /\ basis' = [basis EXCEPT ![asked[r].session] = user.version + 1]
    /\ UNCHANGED <<inserting, linkVars, asked, seen, jobVars, faults>>

\* Logging out answers the same whether or not the cookie names a live session.
AskSignOut(r, s) ==
    /\ stage[r] = "idle" /\ stage[s] = "done"
    /\ GoTo(r, IF s \in sessions \ expired THEN "delete" ELSE "done")
    /\ Ask(r, [Unasked EXCEPT !.session = s])
    /\ UNCHANGED <<user, inserting, userLock, sessionVars, linkVars, seen, jobVars, faults>>

DeleteSession(r) ==
    /\ stage[r] = "delete"
    /\ GoTo(r, "done")
    /\ KeepSessions(sessions \ {asked[r].session})
    /\ UNCHANGED <<user, inserting, userLock, basis, linkVars, asked, seen, jobVars, faults>>

----------------------------------------------------------------------------
(* The reset email, and the reset its link makes. *)

NewLink(j) == <<j, tries[j]>>

\* forgot-password enqueues the job for any address; its first try starts with the lock.
EnqueueJob(j) ==
    /\ stage[j] = "idle"
    /\ GoTo(j, "lock")
    /\ tries' = [tries EXCEPT ![j] = 1]
    /\ UNCHANGED <<user, inserting, userLock, sessionVars, linkVars, asked, seen, mailed, faults>>

SkipUnknown(j) ==
    /\ stage[j] = "locked" /\ seen[j] = NoUser
    /\ Leave(j, "done")

\* Mutant: the earlier reset is left in place.
AddReset(j) ==
    /\ stage[j] = "locked" /\ seen[j] # NoUser
    /\ GoTo(j, "send") /\ Unlock(j)
    /\ unused' = unused \cup {NewLink(j)}
    /\ UNCHANGED <<user, inserting, sessionVars, stale, asked, seen, jobVars, faults>>

\* The DELETE of the unused resets waits for a transaction that has marked one of them used.
ReplaceReset(j) ==
    /\ stage[j] = "locked" /\ seen[j] # NoUser
    /\ \A l \in unused : Consumers(l) = {}
    /\ GoTo(j, "send") /\ Unlock(j)
    /\ unused' = {NewLink(j)} /\ stale' = {}
    /\ UNCHANGED <<user, inserting, sessionVars, asked, seen, jobVars, faults>>

MayRetry(j) == tries[j] < MaxTries

\* Mutant: every try is taken for the same one.
EndTryUncounted(j) == GoTo(j, "lock") /\ UNCHANGED tries

\* A try that raised: arq runs the job again, and the last try's failure is the job's.
EndTry(j) ==
    \/ /\ MayRetry(j)
       /\ GoTo(j, "lock")
       /\ tries' = [tries EXCEPT ![j] = @ + 1]
    \/ /\ ~MayRetry(j)
       /\ GoTo(j, "failed")
       /\ UNCHANGED tries

SendEmail(j) ==
    /\ stage[j] = "send"
    /\ GoTo(j, "done")
    /\ mailed' = mailed \cup {NewLink(j)}
    /\ UNCHANGED <<user, inserting, userLock, sessionVars, linkVars, asked, seen, tries, faults>>

\* The provider refuses the message, or its answer is lost after it accepted the message.
FailSend(j) ==
    /\ stage[j] = "send"
    /\ EndTry(j)
    /\ mailed' \in {mailed, mailed \cup {NewLink(j)}}
    /\ UNCHANGED <<user, inserting, userLock, sessionVars, linkVars, asked, seen, faults>>

\* A person has only the links that were mailed.
AskReset(r, l, q) ==
    /\ stage[r] = "idle" /\ l \in mailed
    /\ GoTo(r, "consume")
    /\ Ask(r, [Unasked EXCEPT !.link = l, !.new = q])
    /\ UNCHANGED <<user, inserting, userLock, sessionVars, linkVars, seen, jobVars, faults>>

\* Mutant: the row is read as unused before it is locked.
MayConsumeAtOnce(r) == TRUE

\* The UPDATE waits for another transaction that has marked the row.
MayConsume(r) == Consumers(asked[r].link) = {}

\* The row is marked used; nobody sees it before the commit.
ConsumeReset(r) ==
    /\ stage[r] = "consume" /\ MayConsume(r)
    /\ asked[r].link \in unused \ stale
    /\ GoTo(r, "lock")
    /\ UNCHANGED <<user, inserting, userLock, sessionVars, linkVars, asked, seen, jobVars, faults>>

RefuseReset(r) ==
    /\ stage[r] = "consume" /\ MayConsume(r)
    /\ asked[r].link \notin unused \ stale
    /\ Leave(r, "refused")

\* The password is written under the row's lock, then every session is deleted.
CommitReset(r) ==
    /\ stage[r] = "locked"
    /\ GoTo(r, "done") /\ Unlock(r)
    /\ user' = Replaced(asked[r].new)
    /\ KeepSessions({})
    /\ KeepLinks(unused \ {asked[r].link})
    /\ UNCHANGED <<inserting, basis, asked, seen, jobVars, faults>>

----------------------------------------------------------------------------
(* What can go wrong with anything, and what time does. *)

IsUnderWay(a) == stage[a] \notin Ended \cup {"idle"}

\* A transaction is rolled back: a failed statement or commit, a timeout, a crash.
AbortRequest(r) ==
    /\ GoTo(r, "failed") /\ Unlock(r)
    /\ inserting' = IF inserting = r THEN Nobody ELSE inserting
    /\ UNCHANGED <<user, sessionVars, linkVars, asked, seen, jobVars>>

AbortTry(j) ==
    /\ EndTry(j) /\ Unlock(j)
    /\ UNCHANGED <<user, inserting, sessionVars, linkVars, asked, seen, mailed>>

Fail(a) ==
    /\ IsUnderWay(a) /\ faults < MaxFaults
    /\ faults' = faults + 1
    /\ \/ a \in Requests /\ AbortRequest(a)
       \/ a \in Jobs /\ stage[a] # "send" /\ AbortTry(a)

\* A reset holds the link and waits for the account, an email job holds the account and waits for
\* the link: Postgres's deadlock detector aborts one of them.
BreakDeadlock(r, j) ==
    /\ stage[r] = "lock" /\ asked[r].link \in unused
    /\ userLock = j /\ stage[j] = "locked"
    /\ AbortRequest(r) \/ AbortTry(j)
    /\ UNCHANGED faults

ExpireSession(s) ==
    /\ s \in sessions \ expired
    /\ expired' = expired \cup {s}
    /\ UNCHANGED <<user, inserting, userLock, sessions, basis, linkVars, stage, asked, seen,
                    jobVars, faults>>

\* The cleanup job.
DeleteExpiredSession(s) ==
    /\ s \in expired
    /\ KeepSessions(sessions \ {s})
    /\ UNCHANGED <<user, inserting, userLock, basis, linkVars, stage, asked, seen, jobVars, faults>>

ExpireLink(l) ==
    /\ l \in unused \ stale
    /\ stale' = stale \cup {l}
    /\ UNCHANGED <<user, inserting, userLock, sessionVars, unused, stage, asked, seen, jobVars,
                    faults>>

----------------------------------------------------------------------------

Arrive ==
    \/ \E r \in Registrations, p \in Passwords : AskRegistration(r, p)
    \/ \E r \in SignIns, p \in Passwords : AskSignIn(r, p)
    \/ \E r \in Changes, s \in Openers, p, q \in Passwords : AskChange(r, s, p, q)
    \/ \E r \in Resets, l \in Links, q \in Passwords : AskReset(r, l, q)
    \/ \E r \in SignOuts, s \in Openers : AskSignOut(r, s)
    \/ \E j \in Jobs : EnqueueJob(j)

Register(r) == InsertUser(r) \/ RefuseDuplicate(r) \/ CommitRegistration(r)
SignIn(r) == LockUser(r) \/ RefuseCredentials(r) \/ OpenSession(r)
Change(r) == LockUser(r) \/ RefuseCredentials(r) \/ CommitChange(r)
Reset(r) == ConsumeReset(r) \/ RefuseReset(r) \/ LockUser(r) \/ CommitReset(r)
RunJob(j) == LockUser(j) \/ SkipUnknown(j) \/ ReplaceReset(j) \/ SendEmail(j) \/ FailSend(j)

Step(a) ==
    \/ a \in Registrations /\ Register(a)
    \/ a \in SignIns /\ SignIn(a)
    \/ a \in Changes /\ Change(a)
    \/ a \in Resets /\ Reset(a)
    \/ a \in SignOuts /\ DeleteSession(a)
    \/ a \in Jobs /\ RunJob(a)

Expire ==
    \/ \E s \in sessions : ExpireSession(s) \/ DeleteExpiredSession(s)
    \/ \E l \in unused : ExpireLink(l)

DetectDeadlock == \E r \in Resets, j \in Jobs : BreakDeadlock(r, j)

Next ==
    \/ Arrive
    \/ \E a \in Actors : Step(a) \/ Fail(a)
    \/ DetectDeadlock
    \/ Expire

Spec == Init /\ [][Next]_vars

\* What has started goes on: the event loop, arq's polling and Postgres's lock queues and deadlock
\* detector see to it.  Nobody has to ask for anything.
FairSpec == Spec /\ \A a \in Actors : WF_vars(Step(a)) /\ WF_vars(DetectDeadlock)

----------------------------------------------------------------------------
(* Properties. *)

\* A stored session was proved against the password the account has now: no sign-in that read the
\* old password outlives the change or the reset that was to end it (sign_in_user.py,
\* change_password.py, reset_password.py).
SessionsAreCurrent == \A s \in sessions : basis[s] = user.version

\* Only one reset link works at a time, however many jobs and retries issue them
\* (issue_password_reset.py, replace_password_reset).
OneLinkWorks == \A k, l \in unused : k = l

\* A link resets the password once: two submissions of one link never both succeed, and nothing
\* makes a spent link work again (consume_password_reset).
LinkWorksOnce ==
    \A r \in Resets : stage[r] = "done" =>
        /\ asked[r].link \notin unused
        /\ \A p \in Resets \ {r} : stage[p] = "done" => asked[p].link # asked[r].link

\* Every request is answered and every email job ends, though resets and email jobs lock the
\* account and its links in opposite orders (reset_password.py, issue_password_reset.py).
EveryRequestEnds == \A a \in Actors : IsUnderWay(a) ~> (stage[a] \in Ended)

\* What send_password_reset_email.py says of its retries: once a job is over, the link that works
\* is not one nobody was sent while one that was sent is dead.
OnlyDeliveredLinkWorks ==
    \A l \in unused : stage[l[1]] \in Ended /\ (\E m \in mailed : m[1] = l[1]) => l \in mailed

\* Every request takes effect at once: AccountAtOnce.
Account == INSTANCE AccountAtOnce WITH
    Questions <- Questions, Unasked <- Unasked,
    password <- user.password,
    link <- IF unused = {} THEN Nobody ELSE CHOOSE l \in unused : TRUE

Refinement == Account!Spec
=============================================================================
