------------------------ MODULE AuthAccounts_proofs ------------------------
(***************************************************************************)
(* Machine-checked proofs about AuthAccounts, for any requests, jobs and   *)
(* passwords: sessions are of the current password, one reset link works   *)
(* at a time and works once, and every request takes effect at once.       *)
(***************************************************************************)
EXTENDS AuthAccounts, TLAPS

\* The holder of the users row read it under the lock, so it knows the row.
HolderKnowsRow ==
    userLock # Nobody =>
        stage[userLock] = "locked" /\ seen[userLock] = user /\ user.version > 0

\* Past the lock a transaction holds the row, unless there was none.
LockedIsHolder ==
    \A a \in Actors : stage[a] = "locked" =>
        userLock = a \/ (seen[a] = NoUser /\ a \notin Resets)

\* While a registration's row is uncommitted there is no account, and no second such row.
OneInsertion ==
    /\ inserting # Nobody => user = NoUser
    /\ \A r \in Registrations : stage[r] = "inserted" => inserting = r

\* Without an account there is nothing of it.
RowComesFirst ==
    /\ user.version = 0 => user = NoUser /\ sessions = {} /\ unused = {}
    /\ user.version > 0 => user.password \in Passwords

\* What has been asked.
QuestionsAreWhole ==
    \A r \in Requests :
        /\ stage[r] = "idle" => asked[r] = Unasked
        /\ stage[r] # "idle" =>
            /\ r \in Registrations \cup SignIns \cup Changes => asked[r].password \in Passwords
            /\ r \in Changes \cup Resets => asked[r].new \in Passwords
            /\ r \in Changes => asked[r].session \in Openers
            /\ r \in Resets => asked[r].link \in mailed

\* A link marked used in an open transaction is still there, and in no other open transaction.
ConsumedIsHeld ==
    \A p \in Resets : stage[p] \in {"lock", "locked"} =>
        /\ asked[p].link \in unused
        /\ \A q \in Resets \ {p} : stage[q] \in {"lock", "locked"} =>
            asked[q].link # asked[p].link

\* A job's links are those of its tries so far, the one under way excluded until it has issued.
LinksAreNumbered ==
    /\ \A j \in Jobs : stage[j] = "idle" <=> tries[j] = 0
    /\ \A l \in unused \cup mailed :
        /\ l[2] <= tries[l[1]]
        /\ stage[l[1]] \in {"lock", "locked"} => l[2] < tries[l[1]]

IInv ==
    /\ TypeOK /\ HolderKnowsRow /\ LockedIsHolder /\ OneInsertion /\ RowComesFirst
    /\ QuestionsAreWhole /\ ConsumedIsHeld /\ LinksAreNumbered
    /\ SessionsAreCurrent /\ OneLinkWorks /\ LinkWorksOnce

----------------------------------------------------------------------------

\* Initially nobody has asked for anything.
LEMMA InitKeeps == Init => IInv
<1> SUFFICES ASSUME Init PROVE IInv OBVIOUS
<1> USE ActorsAssumption, BoundsAssumption DEF Init, NoUser, Unasked, Requests, Actors, Openers
<1>1. TypeOK BY DEF TypeOK, UserRow, Questions, Stages
<1>2. HolderKnowsRow /\ LockedIsHolder /\ OneInsertion
  BY DEF HolderKnowsRow, LockedIsHolder, OneInsertion
<1>3. RowComesFirst /\ QuestionsAreWhole /\ ConsumedIsHeld
  BY DEF RowComesFirst, QuestionsAreWhole, ConsumedIsHeld
<1>4. LinksAreNumbered /\ SessionsAreCurrent /\ OneLinkWorks /\ LinkWorksOnce
  BY DEF LinksAreNumbered, SessionsAreCurrent, OneLinkWorks, LinkWorksOnce
<1> QED BY <1>1, <1>2, <1>3, <1>4 DEF IInv

\* A session or a link reaches the end of its lifetime, or the cleanup job deletes a session.
ExpireSessionsOrLinks ==
    \/ \E s \in sessions : ExpireSession(s) \/ DeleteExpiredSession(s)
    \/ \E l \in unused : ExpireLink(l)

\* A link names its job and the try.
LEMMA LinkParts ==
    ASSUME NEW l \in Links
    PROVE  l[1] \in Jobs /\ l[2] \in 1..MaxTries /\ l = <<l[1], l[2]>>
BY DEF Links

\* A job that has started is at a try, whose link nobody has been sent before it is issued.
LEMMA LinkOfTry ==
    ASSUME IInv, NEW j \in Jobs, stage[j] # "idle"
    PROVE  /\ tries[j] \in 1..MaxTries /\ NewLink(j) \in Links
           /\ stage[j] = "locked" => NewLink(j) \notin unused \cup mailed
<1>1. tries[j] \in 1..MaxTries BY BoundsAssumption DEF IInv, TypeOK, LinksAreNumbered
<1>2. NewLink(j) \in Links BY <1>1 DEF NewLink, Links
<1>3. NewLink(j)[1] = j /\ NewLink(j)[2] = tries[j] BY DEF NewLink
<1>4. ASSUME stage[j] = "locked", NewLink(j) \in unused \cup mailed PROVE FALSE
  BY <1>1, <1>3, <1>4 DEF IInv, LinksAreNumbered
<1> QED BY <1>1, <1>2, <1>4

\* Before the account is registered nothing is.
LEMMA NothingYet ==
    ASSUME IInv, NEW r \in Registrations, stage[r] = "inserted"
    PROVE  /\ inserting = r /\ user = NoUser /\ userLock = Nobody
           /\ sessions = {} /\ expired = {} /\ unused = {}
<1>1. inserting = r /\ r # Nobody
  BY ActorsAssumption DEF IInv, OneInsertion, Actors, Requests
<1>2. user = NoUser /\ user.version = 0 BY <1>1 DEF IInv, OneInsertion, NoUser
<1> QED BY <1>1, <1>2 DEF IInv, RowComesFirst, HolderKnowsRow, TypeOK

\* A request that proved the password, and a reset past the lock, hold the account's row.
LEMMA WriterHoldsRow ==
    ASSUME IInv, NEW r \in SignIns \cup Changes \cup Resets, stage[r] = "locked",
           r \in Resets \/ Proves(r)
    PROVE  /\ userLock = r /\ seen[r] = user
           /\ user.version \in Nat /\ user.version > 0 /\ user.password \in Passwords
           /\ user # NoUser
<1>1. r \in Requests /\ r \in Actors /\ r # Nobody BY ActorsAssumption DEF Requests, Actors
<1>2. userLock = r
  <2>1. CASE r \in Resets BY <2>1, <1>1 DEF IInv, LockedIsHolder
  <2>2. CASE r \notin Resets
    <3>1. asked[r].password \in Passwords BY <2>2, <1>1 DEF IInv, QuestionsAreWhole
    <3>2. seen[r] # NoUser BY <2>2, <3>1, ActorsAssumption DEF Proves, NoUser
    <3> QED BY <3>2, <1>1 DEF IInv, LockedIsHolder
  <2> QED BY <2>1, <2>2
<1>3. seen[r] = user /\ user.version > 0 BY <1>1, <1>2 DEF IInv, HolderKnowsRow
<1>4. user.version \in Nat BY DEF IInv, TypeOK, UserRow
<1> QED BY <1>2, <1>3, <1>4 DEF IInv, RowComesFirst, NoUser

\* A registration arrives.
LEMMA AskRegistrationKeeps ==
    ASSUME IInv, NEW r \in Registrations, NEW p \in Passwords, AskRegistration(r, p)
    PROVE  IInv'
<1> USE ActorsAssumption, BoundsAssumption
        DEF IInv, AskRegistration, GoTo, Ask,
            Requests, Actors, Openers, sessionVars, linkVars, jobVars
<1>1. TypeOK' BY DEF TypeOK, UserRow, NoUser, Questions, Unasked, Stages, Links, Ended
<1>2. HolderKnowsRow' BY DEF HolderKnowsRow, TypeOK
<1>3. LockedIsHolder' BY DEF LockedIsHolder, TypeOK
<1>4. OneInsertion' BY DEF OneInsertion, TypeOK
<1>5. RowComesFirst' BY DEF RowComesFirst, TypeOK
<1>6. QuestionsAreWhole' BY DEF QuestionsAreWhole, TypeOK
<1>7. ConsumedIsHeld' BY DEF ConsumedIsHeld, TypeOK
<1>8. LinksAreNumbered' BY DEF LinksAreNumbered, TypeOK
<1>9. SessionsAreCurrent' BY DEF SessionsAreCurrent, TypeOK
<1>10. OneLinkWorks' BY DEF OneLinkWorks, TypeOK
<1>11. LinkWorksOnce' BY DEF LinkWorksOnce, TypeOK
<1> QED BY <1>1, <1>2, <1>3, <1>4, <1>5, <1>6, <1>7, <1>8, <1>9, <1>10, <1>11

\* A sign-in arrives.
LEMMA AskSignInKeeps ==
    ASSUME IInv, NEW r \in SignIns, NEW p \in Passwords, AskSignIn(r, p)
    PROVE  IInv'
<1> USE ActorsAssumption, BoundsAssumption
        DEF IInv, AskSignIn, GoTo, Ask,
            Requests, Actors, Openers, sessionVars, linkVars, jobVars
<1>1. TypeOK' BY DEF TypeOK, UserRow, NoUser, Questions, Unasked, Stages, Links, Ended
<1>2. HolderKnowsRow' BY DEF HolderKnowsRow, TypeOK
<1>3. LockedIsHolder' BY DEF LockedIsHolder, TypeOK
<1>4. OneInsertion' BY DEF OneInsertion, TypeOK
<1>5. RowComesFirst' BY DEF RowComesFirst, TypeOK
<1>6. QuestionsAreWhole' BY DEF QuestionsAreWhole, TypeOK
<1>7. ConsumedIsHeld' BY DEF ConsumedIsHeld, TypeOK
<1>8. LinksAreNumbered' 
  <2>1. \A i \in Jobs : stage'[i] = stage[i] BY DEF TypeOK
  <2>2. \A l \in unused \cup mailed : l[1] \in Jobs BY LinkParts DEF TypeOK
  <2> QED BY <2>1, <2>2 DEF LinksAreNumbered
<1>9. SessionsAreCurrent' BY DEF SessionsAreCurrent, TypeOK
<1>10. OneLinkWorks' BY DEF OneLinkWorks, TypeOK
<1>11. LinkWorksOnce' BY DEF LinkWorksOnce, TypeOK
<1> QED BY <1>1, <1>2, <1>3, <1>4, <1>5, <1>6, <1>7, <1>8, <1>9, <1>10, <1>11

\* A password change arrives.
LEMMA AskChangeKeeps ==
    ASSUME IInv, NEW r \in Changes, NEW s \in Openers, NEW p \in Passwords, NEW q \in Passwords,
           AskChange(r, s, p, q)
    PROVE  IInv'
<1> USE ActorsAssumption, BoundsAssumption
        DEF IInv, AskChange, GoTo, Ask,
            Requests, Actors, Openers, sessionVars, linkVars, jobVars
<1>1. TypeOK' BY DEF TypeOK, UserRow, NoUser, Questions, Unasked, Stages, Links, Ended
<1>2. HolderKnowsRow' BY DEF HolderKnowsRow, TypeOK
<1>3. LockedIsHolder' BY DEF LockedIsHolder, TypeOK
<1>4. OneInsertion' BY DEF OneInsertion, TypeOK
<1>5. RowComesFirst' BY DEF RowComesFirst, TypeOK
<1>6. QuestionsAreWhole' BY DEF QuestionsAreWhole, TypeOK
<1>7. ConsumedIsHeld' BY DEF ConsumedIsHeld, TypeOK
<1>8. LinksAreNumbered' 
  <2>1. \A i \in Jobs : stage'[i] = stage[i] BY DEF TypeOK
  <2>2. \A l \in unused \cup mailed : l[1] \in Jobs BY LinkParts DEF TypeOK
  <2> QED BY <2>1, <2>2 DEF LinksAreNumbered
<1>9. SessionsAreCurrent' BY DEF SessionsAreCurrent, TypeOK
<1>10. OneLinkWorks' BY DEF OneLinkWorks, TypeOK
<1>11. LinkWorksOnce' BY DEF LinkWorksOnce, TypeOK
<1> QED BY <1>1, <1>2, <1>3, <1>4, <1>5, <1>6, <1>7, <1>8, <1>9, <1>10, <1>11

\* A reset arrives.
LEMMA AskResetKeeps ==
    ASSUME IInv, NEW r \in Resets, NEW l \in Links, NEW q \in Passwords, AskReset(r, l, q)
    PROVE  IInv'
<1> USE ActorsAssumption, BoundsAssumption
        DEF IInv, AskReset, GoTo, Ask,
            Requests, Actors, Openers, sessionVars, linkVars, jobVars
<1>1. TypeOK' BY DEF TypeOK, UserRow, NoUser, Questions, Unasked, Stages, Links, Ended
<1>2. HolderKnowsRow' BY DEF HolderKnowsRow, TypeOK
<1>3. LockedIsHolder' BY DEF LockedIsHolder, TypeOK
<1>4. OneInsertion' BY DEF OneInsertion, TypeOK
<1>5. RowComesFirst' BY DEF RowComesFirst, TypeOK
<1>6. QuestionsAreWhole' BY DEF QuestionsAreWhole, TypeOK
<1>7. ConsumedIsHeld' BY DEF ConsumedIsHeld, TypeOK
<1>8. LinksAreNumbered' BY DEF LinksAreNumbered, TypeOK
<1>9. SessionsAreCurrent' BY DEF SessionsAreCurrent, TypeOK
<1>10. OneLinkWorks' BY DEF OneLinkWorks, TypeOK
<1>11. LinkWorksOnce' BY DEF LinkWorksOnce, TypeOK
<1> QED BY <1>1, <1>2, <1>3, <1>4, <1>5, <1>6, <1>7, <1>8, <1>9, <1>10, <1>11

\* A sign-out arrives.
LEMMA AskSignOutKeeps ==
    ASSUME IInv, NEW r \in SignOuts, NEW s \in Openers, AskSignOut(r, s)
    PROVE  IInv'
<1> USE ActorsAssumption, BoundsAssumption
        DEF IInv, AskSignOut, GoTo, Ask,
            Requests, Actors, Openers, sessionVars, linkVars, jobVars
<1>1. TypeOK' BY DEF TypeOK, UserRow, NoUser, Questions, Unasked, Stages, Links, Ended
<1>2. HolderKnowsRow' BY DEF HolderKnowsRow, TypeOK
<1>3. LockedIsHolder' BY DEF LockedIsHolder, TypeOK
<1>4. OneInsertion' BY DEF OneInsertion, TypeOK
<1>5. RowComesFirst' BY DEF RowComesFirst, TypeOK
<1>6. QuestionsAreWhole' BY DEF QuestionsAreWhole, TypeOK
<1>7. ConsumedIsHeld' BY DEF ConsumedIsHeld, TypeOK
<1>8. LinksAreNumbered' BY DEF LinksAreNumbered, TypeOK
<1>9. SessionsAreCurrent' BY DEF SessionsAreCurrent, TypeOK
<1>10. OneLinkWorks' BY DEF OneLinkWorks, TypeOK
<1>11. LinkWorksOnce' BY DEF LinkWorksOnce, TypeOK
<1> QED BY <1>1, <1>2, <1>3, <1>4, <1>5, <1>6, <1>7, <1>8, <1>9, <1>10, <1>11

\* An email job is enqueued; it has issued no link yet.
LEMMA EnqueueJobKeeps ==
    ASSUME IInv, NEW j \in Jobs, EnqueueJob(j)
    PROVE  IInv'
<1> USE ActorsAssumption, BoundsAssumption
        DEF IInv, EnqueueJob, GoTo,
            Requests, Actors, Openers, sessionVars, linkVars, jobVars
<1>1. TypeOK' BY DEF TypeOK, UserRow, NoUser, Questions, Unasked, Stages, Links, Ended
<1>2. HolderKnowsRow' BY DEF HolderKnowsRow, TypeOK
<1>3. LockedIsHolder' BY DEF LockedIsHolder, TypeOK
<1>4. OneInsertion' BY DEF OneInsertion, TypeOK
<1>5. RowComesFirst' BY DEF RowComesFirst, TypeOK
<1>6. QuestionsAreWhole' BY DEF QuestionsAreWhole, TypeOK
<1>7. ConsumedIsHeld' BY DEF ConsumedIsHeld, TypeOK
<1>8. LinksAreNumbered' 
  <2>1. tries[j] = 0 BY DEF LinksAreNumbered
  <2>2. \A l \in unused \cup mailed : l[1] \in Jobs \ {j} BY <2>1, LinkParts DEF LinksAreNumbered, TypeOK
  <2>3. \A i \in Jobs \ {j} : stage'[i] = stage[i] /\ tries'[i] = tries[i] BY DEF TypeOK
  <2>4. stage'[j] = "lock" /\ tries'[j] = 1 BY DEF TypeOK
  <2> QED BY <2>2, <2>3, <2>4 DEF LinksAreNumbered
<1>9. SessionsAreCurrent' BY DEF SessionsAreCurrent, TypeOK
<1>10. OneLinkWorks' BY DEF OneLinkWorks, TypeOK
<1>11. LinkWorksOnce' BY DEF LinkWorksOnce, TypeOK
<1> QED BY <1>1, <1>2, <1>3, <1>4, <1>5, <1>6, <1>7, <1>8, <1>9, <1>10, <1>11

\* A transaction takes the users row and reads it.
LEMMA LockUserKeeps ==
    ASSUME IInv, NEW a \in Actors, LockUser(a)
    PROVE  IInv'
<1> USE ActorsAssumption, BoundsAssumption
        DEF IInv, LockUser, IsUserFree, GoTo,
            Requests, Actors, Openers, sessionVars, linkVars, jobVars
<1>a. user # NoUser => user.version > 0
  BY DEF RowComesFirst, TypeOK, UserRow
<1>b. stage' = [stage EXCEPT ![a] = "locked"] /\ seen' = [seen EXCEPT ![a] = user]
      /\ user' = user /\ asked' = asked /\ unused' = unused
  OBVIOUS
<1>c. a \in Resets => user # NoUser
  BY DEF ConsumedIsHeld, RowComesFirst, NoUser
<1>1. TypeOK' BY DEF TypeOK, UserRow, NoUser, Questions, Unasked, Stages, Links, Ended
<1>2. HolderKnowsRow' BY <1>a, <1>b DEF HolderKnowsRow, TypeOK
<1>3. LockedIsHolder' 
  <2> SUFFICES ASSUME NEW b \in Actors, stage'[b] = "locked"
               PROVE  userLock' = b \/ (seen'[b] = NoUser /\ b \notin Resets)
    BY DEF LockedIsHolder
  <2>1. CASE b = a BY <2>1, <1>b, <1>c DEF TypeOK
  <2>2. CASE b # a
    <3>1. stage[b] = "locked" /\ seen'[b] = seen[b] BY <2>2, <1>b DEF TypeOK
    <3>2. userLock # b BY DEF IsUserFree
    <3> QED BY <3>1, <3>2 DEF LockedIsHolder
  <2> QED BY <2>1, <2>2
<1>4. OneInsertion' BY DEF OneInsertion, TypeOK
<1>5. RowComesFirst' BY DEF RowComesFirst, TypeOK
<1>6. QuestionsAreWhole' BY DEF QuestionsAreWhole, TypeOK
<1>7. ConsumedIsHeld' BY DEF ConsumedIsHeld, TypeOK
<1>8. LinksAreNumbered' BY DEF LinksAreNumbered, TypeOK
<1>9. SessionsAreCurrent' BY DEF SessionsAreCurrent, TypeOK
<1>10. OneLinkWorks' BY DEF OneLinkWorks, TypeOK
<1>11. LinkWorksOnce' BY DEF LinkWorksOnce, TypeOK
<1> QED BY <1>1, <1>2, <1>3, <1>4, <1>5, <1>6, <1>7, <1>8, <1>9, <1>10, <1>11

\* A registration inserts its row.
LEMMA InsertUserKeeps ==
    ASSUME IInv, NEW r \in Registrations, InsertUser(r)
    PROVE  IInv'
<1> USE ActorsAssumption, BoundsAssumption
        DEF IInv, InsertUser, GoTo,
            Requests, Actors, Openers, sessionVars, linkVars, jobVars
<1>1. TypeOK' BY DEF TypeOK, UserRow, NoUser, Questions, Unasked, Stages, Links, Ended
<1>2. HolderKnowsRow' BY DEF HolderKnowsRow, TypeOK
<1>3. LockedIsHolder' BY DEF LockedIsHolder, TypeOK
<1>4. OneInsertion' BY DEF OneInsertion, TypeOK
<1>5. RowComesFirst' BY DEF RowComesFirst, TypeOK
<1>6. QuestionsAreWhole' BY DEF QuestionsAreWhole, TypeOK
<1>7. ConsumedIsHeld' BY DEF ConsumedIsHeld, TypeOK
<1>8. LinksAreNumbered' BY DEF LinksAreNumbered, TypeOK
<1>9. SessionsAreCurrent' BY DEF SessionsAreCurrent, TypeOK
<1>10. OneLinkWorks' BY DEF OneLinkWorks, TypeOK
<1>11. LinkWorksOnce' BY DEF LinkWorksOnce, TypeOK
<1> QED BY <1>1, <1>2, <1>3, <1>4, <1>5, <1>6, <1>7, <1>8, <1>9, <1>10, <1>11

\* The account's first session is the only one.
LEMMA CommitRegistrationKeeps ==
    ASSUME IInv, NEW r \in Registrations, CommitRegistration(r)
    PROVE  IInv'
<1> USE ActorsAssumption, BoundsAssumption
        DEF IInv, CommitRegistration, GoTo,
            Requests, Actors, Openers, sessionVars, linkVars, jobVars
<1>a. /\ inserting = r /\ user = NoUser /\ userLock = Nobody
      /\ sessions = {} /\ expired = {} /\ unused = {}
  BY NothingYet
<1>b. asked[r].password \in Passwords BY DEF QuestionsAreWhole
<1>c. user' = [password |-> asked[r].password, version |-> 1] /\ sessions' = {r}
      /\ basis'[r] = 1 /\ userLock' = Nobody
  BY <1>a DEF TypeOK
<1>1. TypeOK' BY DEF TypeOK, UserRow, NoUser, Questions, Unasked, Stages, Links, Ended
<1>2. HolderKnowsRow' BY <1>c DEF HolderKnowsRow
<1>3. LockedIsHolder' BY DEF LockedIsHolder, TypeOK
<1>4. OneInsertion' BY DEF OneInsertion, TypeOK
<1>5. RowComesFirst' BY <1>b, <1>c DEF RowComesFirst
<1>6. QuestionsAreWhole' BY DEF QuestionsAreWhole, TypeOK
<1>7. ConsumedIsHeld' BY DEF ConsumedIsHeld, TypeOK
<1>8. LinksAreNumbered' BY DEF LinksAreNumbered, TypeOK
<1>9. SessionsAreCurrent' BY <1>c DEF SessionsAreCurrent
<1>10. OneLinkWorks' BY DEF OneLinkWorks, TypeOK
<1>11. LinkWorksOnce' BY DEF LinkWorksOnce, TypeOK
<1> QED BY <1>1, <1>2, <1>3, <1>4, <1>5, <1>6, <1>7, <1>8, <1>9, <1>10, <1>11

\* A sign-in proved the password the account still has.
LEMMA OpenSessionKeeps ==
    ASSUME IInv, NEW r \in SignIns, OpenSession(r)
    PROVE  IInv'
<1> USE ActorsAssumption, BoundsAssumption
        DEF IInv, OpenSession, Proves, GoTo, Unlock,
            Requests, Actors, Openers, sessionVars, linkVars, jobVars
<1>a. /\ userLock = r /\ seen[r] = user
      /\ user.version \in Nat /\ user.version > 0 /\ user.password \in Passwords
      /\ user # NoUser
  BY WriterHoldsRow
<1>b. userLock' = Nobody /\ user' = user /\ unused' = unused
  BY <1>a
<1>1. TypeOK' BY DEF TypeOK, UserRow, NoUser, Questions, Unasked, Stages, Links, Ended
<1>2. HolderKnowsRow' BY DEF HolderKnowsRow, TypeOK
<1>3. LockedIsHolder' BY DEF LockedIsHolder, TypeOK
<1>4. OneInsertion' BY DEF OneInsertion, TypeOK
<1>5. RowComesFirst' BY <1>a, <1>b DEF RowComesFirst
<1>6. QuestionsAreWhole' BY DEF QuestionsAreWhole, TypeOK
<1>7. ConsumedIsHeld' BY DEF ConsumedIsHeld, TypeOK
<1>8. LinksAreNumbered' BY DEF LinksAreNumbered, TypeOK
<1>9. SessionsAreCurrent' 
  <2>1. basis'[r] = user.version BY <1>a DEF TypeOK
  <2>2. \A s \in sessions \ {r} : basis'[s] = basis[s] BY DEF TypeOK
  <2> QED BY <1>b, <2>1, <2>2 DEF SessionsAreCurrent
<1>10. OneLinkWorks' BY DEF OneLinkWorks, TypeOK
<1>11. LinkWorksOnce' BY DEF LinkWorksOnce, TypeOK
<1> QED BY <1>1, <1>2, <1>3, <1>4, <1>5, <1>6, <1>7, <1>8, <1>9, <1>10, <1>11

\* A change spares only the session that proved the password.
LEMMA CommitChangeKeeps ==
    ASSUME IInv, NEW r \in Changes, CommitChange(r)
    PROVE  IInv'
<1> USE ActorsAssumption, BoundsAssumption
        DEF IInv, CommitChange, Proves, Replaced, KeepSessions, GoTo, Unlock,
            Requests, Actors, Openers, sessionVars, linkVars, jobVars
<1>a. /\ userLock = r /\ seen[r] = user
      /\ user.version \in Nat /\ user.version > 0 /\ user.password \in Passwords
      /\ user # NoUser
  BY WriterHoldsRow
<1>b. asked[r].new \in Passwords BY DEF QuestionsAreWhole
<1>c. user' = [password |-> asked[r].new, version |-> user.version + 1]
      /\ user'.version = user.version + 1 /\ user'.password = asked[r].new
      /\ userLock' = Nobody
  BY <1>a
<1>d. user' \in UserRow BY <1>a, <1>b, <1>c DEF UserRow
<1>e. inserting = Nobody BY <1>a DEF OneInsertion
<1>f. asked[r].session \in Openers BY DEF QuestionsAreWhole
<1>1. TypeOK' 
  <2>1. basis' \in [Openers -> Nat] BY <1>a, <1>f DEF TypeOK
  <2> QED BY <1>c, <1>d, <2>1 DEF TypeOK, Stages
<1>2. HolderKnowsRow' BY <1>c DEF HolderKnowsRow
<1>3. LockedIsHolder' BY DEF LockedIsHolder, TypeOK
<1>4. OneInsertion' BY <1>e DEF OneInsertion, TypeOK
<1>5. RowComesFirst' BY <1>a, <1>b, <1>c DEF RowComesFirst
<1>6. QuestionsAreWhole' BY DEF QuestionsAreWhole, TypeOK
<1>7. ConsumedIsHeld' BY DEF ConsumedIsHeld, TypeOK
<1>8. LinksAreNumbered' BY DEF LinksAreNumbered, TypeOK
<1>9. SessionsAreCurrent' BY DEF SessionsAreCurrent, TypeOK
<1>10. OneLinkWorks' BY DEF OneLinkWorks, TypeOK
<1>11. LinkWorksOnce' BY DEF LinkWorksOnce, TypeOK
<1> QED BY <1>1, <1>2, <1>3, <1>4, <1>5, <1>6, <1>7, <1>8, <1>9, <1>10, <1>11

\* A session is signed out.
LEMMA DeleteSessionKeeps ==
    ASSUME IInv, NEW r \in SignOuts, DeleteSession(r)
    PROVE  IInv'
<1> USE ActorsAssumption, BoundsAssumption
        DEF IInv, DeleteSession, KeepSessions, GoTo,
            Requests, Actors, Openers, sessionVars, linkVars, jobVars
<1>1. TypeOK' BY DEF TypeOK, UserRow, NoUser, Questions, Unasked, Stages, Links, Ended
<1>2. HolderKnowsRow' BY DEF HolderKnowsRow, TypeOK
<1>3. LockedIsHolder' BY DEF LockedIsHolder, TypeOK
<1>4. OneInsertion' BY DEF OneInsertion, TypeOK
<1>5. RowComesFirst' BY DEF RowComesFirst, TypeOK
<1>6. QuestionsAreWhole' BY DEF QuestionsAreWhole, TypeOK
<1>7. ConsumedIsHeld' BY DEF ConsumedIsHeld, TypeOK
<1>8. LinksAreNumbered' BY DEF LinksAreNumbered, TypeOK
<1>9. SessionsAreCurrent' BY DEF SessionsAreCurrent, TypeOK
<1>10. OneLinkWorks' BY DEF OneLinkWorks, TypeOK
<1>11. LinkWorksOnce' BY DEF LinkWorksOnce, TypeOK
<1> QED BY <1>1, <1>2, <1>3, <1>4, <1>5, <1>6, <1>7, <1>8, <1>9, <1>10, <1>11

\* An email job issues a link nobody has seen and retires the others.
LEMMA ReplaceResetKeeps ==
    ASSUME IInv, NEW j \in Jobs, ReplaceReset(j)
    PROVE  IInv'
<1> USE ActorsAssumption, BoundsAssumption
        DEF IInv, ReplaceReset, NewLink, GoTo, Unlock,
            Requests, Actors, Openers, sessionVars, linkVars, jobVars
<1>a. userLock = j /\ j # Nobody BY DEF LockedIsHolder
<1>b. user.version > 0 BY <1>a DEF HolderKnowsRow
<1>c. /\ tries[j] \in 1..MaxTries /\ NewLink(j) \in Links
      /\ NewLink(j) \notin unused \cup mailed
  BY LinkOfTry
<1>d. \A p \in Resets : stage[p] \notin {"lock", "locked"}
  BY DEF ConsumedIsHeld, Consumers
<1>e. /\ stage' = [stage EXCEPT ![j] = "send"] /\ unused' = {NewLink(j)} /\ stale' = {}
      /\ userLock' = Nobody /\ user' = user /\ sessions' = sessions /\ mailed' = mailed
      /\ asked' = asked
  BY <1>a
<1>f. \A r \in Requests : stage'[r] = stage[r] BY <1>e DEF TypeOK
<1>1. TypeOK' BY <1>c, <1>e DEF TypeOK, Stages
<1>2. HolderKnowsRow' BY DEF HolderKnowsRow, TypeOK
<1>3. LockedIsHolder' BY DEF LockedIsHolder, TypeOK
<1>4. OneInsertion' BY DEF OneInsertion, TypeOK
<1>5. RowComesFirst' BY <1>b, <1>e DEF RowComesFirst
<1>6. QuestionsAreWhole' BY DEF QuestionsAreWhole, TypeOK
<1>7. ConsumedIsHeld' BY <1>d, <1>f DEF ConsumedIsHeld
<1>8. LinksAreNumbered' BY DEF LinksAreNumbered, TypeOK
<1>9. SessionsAreCurrent' BY DEF SessionsAreCurrent, TypeOK
<1>10. OneLinkWorks' BY DEF OneLinkWorks, TypeOK
<1>11. LinkWorksOnce' 
  <2>1. \A r \in Resets : stage[r] = "done" => asked[r].link \in mailed BY DEF QuestionsAreWhole
  <2> QED BY <1>c, <1>e, <1>f, <2>1 DEF LinkWorksOnce
<1> QED BY <1>1, <1>2, <1>3, <1>4, <1>5, <1>6, <1>7, <1>8, <1>9, <1>10, <1>11

\* An email goes out.
LEMMA SendEmailKeeps ==
    ASSUME IInv, NEW j \in Jobs, SendEmail(j)
    PROVE  IInv'
<1> USE ActorsAssumption, BoundsAssumption
        DEF IInv, SendEmail, NewLink, GoTo,
            Requests, Actors, Openers, sessionVars, linkVars, jobVars
<1>a. NewLink(j) \in Links BY LinkOfTry
<1>1. TypeOK' BY <1>a DEF TypeOK, Stages, Links
<1>2. HolderKnowsRow' BY DEF HolderKnowsRow, TypeOK
<1>3. LockedIsHolder' BY DEF LockedIsHolder, TypeOK
<1>4. OneInsertion' BY DEF OneInsertion, TypeOK
<1>5. RowComesFirst' BY DEF RowComesFirst, TypeOK
<1>6. QuestionsAreWhole' BY DEF QuestionsAreWhole, TypeOK
<1>7. ConsumedIsHeld' BY DEF ConsumedIsHeld, TypeOK
<1>8. LinksAreNumbered' BY DEF LinksAreNumbered, TypeOK
<1>9. SessionsAreCurrent' BY DEF SessionsAreCurrent, TypeOK
<1>10. OneLinkWorks' BY DEF OneLinkWorks, TypeOK
<1>11. LinkWorksOnce' BY DEF LinkWorksOnce, TypeOK
<1> QED BY <1>1, <1>2, <1>3, <1>4, <1>5, <1>6, <1>7, <1>8, <1>9, <1>10, <1>11

\* An email fails, or seems to.
LEMMA FailSendKeeps ==
    ASSUME IInv, NEW j \in Jobs, FailSend(j)
    PROVE  IInv'
<1> USE ActorsAssumption, BoundsAssumption
        DEF IInv, FailSend, EndTry, MayRetry, NewLink, GoTo,
            Requests, Actors, Openers, sessionVars, linkVars, jobVars
<1>a. NewLink(j) \in Links /\ tries[j] \in 1..MaxTries BY LinkOfTry
<1>b. /\ \A i \in Jobs \ {j} : stage'[i] = stage[i] /\ tries'[i] = tries[i]
      /\ \/ stage'[j] = "lock" /\ tries'[j] = tries[j] + 1
         \/ stage'[j] = "failed" /\ tries'[j] = tries[j]
  BY DEF TypeOK
<1>1. TypeOK' 
  <2>1. tries' \in [Jobs -> 0..MaxTries] BY <1>a DEF TypeOK
  <2>2. stage' \in [Actors -> Stages] BY DEF TypeOK, Stages
  <2>3. mailed' \subseteq Links BY <1>a DEF TypeOK, NewLink
  <2> QED BY <2>1, <2>2, <2>3 DEF TypeOK
<1>2. HolderKnowsRow' BY DEF HolderKnowsRow, TypeOK
<1>3. LockedIsHolder' BY DEF LockedIsHolder, TypeOK
<1>4. OneInsertion' BY DEF OneInsertion, TypeOK
<1>5. RowComesFirst' BY DEF RowComesFirst, TypeOK
<1>6. QuestionsAreWhole' BY DEF QuestionsAreWhole, TypeOK
<1>7. ConsumedIsHeld' BY DEF ConsumedIsHeld, TypeOK
<1>8. LinksAreNumbered' 
  <2>1. \A l \in unused \cup mailed : l[1] \in Jobs /\ l[2] \in Nat BY LinkParts DEF TypeOK
  <2>2. NewLink(j)[1] = j /\ NewLink(j)[2] = tries[j] BY DEF NewLink
  <2>3. unused' = unused /\ mailed' \subseteq mailed \cup {NewLink(j)} BY DEF NewLink
  <2> QED BY <1>a, <1>b, <2>1, <2>2, <2>3 DEF LinksAreNumbered
<1>9. SessionsAreCurrent' BY DEF SessionsAreCurrent, TypeOK
<1>10. OneLinkWorks' BY DEF OneLinkWorks, TypeOK
<1>11. LinkWorksOnce' BY DEF LinkWorksOnce, TypeOK
<1> QED BY <1>1, <1>2, <1>3, <1>4, <1>5, <1>6, <1>7, <1>8, <1>9, <1>10, <1>11

\* A reset marks its link used.
LEMMA ConsumeResetKeeps ==
    ASSUME IInv, NEW r \in Resets, ConsumeReset(r)
    PROVE  IInv'
<1> USE ActorsAssumption, BoundsAssumption
        DEF IInv, ConsumeReset, MayConsume, Consumers, GoTo,
            Requests, Actors, Openers, sessionVars, linkVars, jobVars
<1>1. TypeOK' BY DEF TypeOK, UserRow, NoUser, Questions, Unasked, Stages, Links, Ended
<1>2. HolderKnowsRow' BY DEF HolderKnowsRow, TypeOK
<1>3. LockedIsHolder' BY DEF LockedIsHolder, TypeOK
<1>4. OneInsertion' BY DEF OneInsertion, TypeOK
<1>5. RowComesFirst' BY DEF RowComesFirst, TypeOK
<1>6. QuestionsAreWhole' BY DEF QuestionsAreWhole, TypeOK
<1>7. ConsumedIsHeld' BY DEF ConsumedIsHeld, TypeOK
<1>8. LinksAreNumbered' 
  <2>1. \A i \in Jobs : stage'[i] = stage[i] BY DEF TypeOK
  <2>2. \A l \in unused \cup mailed : l[1] \in Jobs BY LinkParts DEF TypeOK
  <2> QED BY <2>1, <2>2 DEF LinksAreNumbered
<1>9. SessionsAreCurrent' BY DEF SessionsAreCurrent, TypeOK
<1>10. OneLinkWorks' BY DEF OneLinkWorks, TypeOK
<1>11. LinkWorksOnce' BY DEF LinkWorksOnce, TypeOK
<1> QED BY <1>1, <1>2, <1>3, <1>4, <1>5, <1>6, <1>7, <1>8, <1>9, <1>10, <1>11

\* A reset spends its link and ends every session.
LEMMA CommitResetKeeps ==
    ASSUME IInv, NEW r \in Resets, CommitReset(r)
    PROVE  IInv'
<1> USE ActorsAssumption, BoundsAssumption
        DEF IInv, CommitReset, Replaced, KeepSessions, KeepLinks, GoTo, Unlock,
            Requests, Actors, Openers, sessionVars, linkVars, jobVars
<1>a. /\ userLock = r /\ seen[r] = user
      /\ user.version \in Nat /\ user.version > 0 /\ user.password \in Passwords
      /\ user # NoUser
  BY WriterHoldsRow
<1>b. asked[r].new \in Passwords BY DEF QuestionsAreWhole
<1>c. user' = [password |-> asked[r].new, version |-> user.version + 1]
      /\ user'.version = user.version + 1 /\ user'.password = asked[r].new
      /\ userLock' = Nobody
  BY <1>a
<1>d. user' \in UserRow BY <1>a, <1>b, <1>c DEF UserRow
<1>e. inserting = Nobody BY <1>a DEF OneInsertion
<1>f. asked[r].link \in unused BY DEF ConsumedIsHeld
<1>g. stage' = [stage EXCEPT ![r] = "done"] /\ asked' = asked /\ unused' = unused \ {asked[r].link}
  OBVIOUS
<1>1. TypeOK' BY DEF TypeOK, UserRow, NoUser, Questions, Unasked, Stages, Links, Ended
<1>2. HolderKnowsRow' BY <1>c DEF HolderKnowsRow
<1>3. LockedIsHolder' BY DEF LockedIsHolder, TypeOK
<1>4. OneInsertion' BY <1>e DEF OneInsertion, TypeOK
<1>5. RowComesFirst' BY <1>a, <1>b, <1>c DEF RowComesFirst
<1>6. QuestionsAreWhole' BY DEF QuestionsAreWhole, TypeOK
<1>7. ConsumedIsHeld' BY DEF ConsumedIsHeld, TypeOK
<1>8. LinksAreNumbered' BY DEF LinksAreNumbered, TypeOK
<1>9. SessionsAreCurrent' BY DEF SessionsAreCurrent, TypeOK
<1>10. OneLinkWorks' BY DEF OneLinkWorks, TypeOK
<1>11. LinkWorksOnce' 
  <2>1. \A p \in Resets \ {r} : stage'[p] = stage[p] BY <1>g DEF TypeOK
  <2>2. \A p \in Resets \ {r} : stage[p] = "done" => asked[p].link # asked[r].link
    BY <1>f DEF LinkWorksOnce
  <2> QED BY <1>g, <2>1, <2>2 DEF LinkWorksOnce
<1> QED BY <1>1, <1>2, <1>3, <1>4, <1>5, <1>6, <1>7, <1>8, <1>9, <1>10, <1>11

\* A transaction ends with nothing written.
LEMMA LeaveKeeps ==
    ASSUME IInv, NEW a \in Actors, NEW place \in Ended, stage[a] # "idle",
           stage[a] # "inserted", a \in Resets => place # "done", Leave(a, place)
    PROVE  IInv'
<1> USE ActorsAssumption, BoundsAssumption
        DEF IInv, Leave, GoTo, Unlock, Ended,
            Requests, Actors, Openers, sessionVars, linkVars, jobVars
<1>1. TypeOK' BY DEF TypeOK, UserRow, NoUser, Questions, Unasked, Stages, Links, Ended
<1>2. HolderKnowsRow' BY DEF HolderKnowsRow, TypeOK
<1>3. LockedIsHolder' BY DEF LockedIsHolder, TypeOK
<1>4. OneInsertion' BY DEF OneInsertion, TypeOK
<1>5. RowComesFirst' BY DEF RowComesFirst, TypeOK
<1>6. QuestionsAreWhole' BY DEF QuestionsAreWhole, TypeOK
<1>7. ConsumedIsHeld' BY DEF ConsumedIsHeld, TypeOK
<1>8. LinksAreNumbered' BY DEF LinksAreNumbered, TypeOK
<1>9. SessionsAreCurrent' BY DEF SessionsAreCurrent, TypeOK
<1>10. OneLinkWorks' BY DEF OneLinkWorks, TypeOK
<1>11. LinkWorksOnce' BY DEF LinkWorksOnce, TypeOK
<1> QED BY <1>1, <1>2, <1>3, <1>4, <1>5, <1>6, <1>7, <1>8, <1>9, <1>10, <1>11

\* A request's transaction is rolled back.
LEMMA AbortRequestKeeps ==
    ASSUME IInv, NEW r \in Requests, stage[r] # "idle", AbortRequest(r), faults' \in Nat
    PROVE  IInv'
<1> USE ActorsAssumption, BoundsAssumption
        DEF IInv, AbortRequest, GoTo, Unlock,
            Requests, Actors, Openers, sessionVars, linkVars, jobVars
<1>1. TypeOK' BY DEF TypeOK, UserRow, NoUser, Questions, Unasked, Stages, Links, Ended
<1>2. HolderKnowsRow' BY DEF HolderKnowsRow, TypeOK
<1>3. LockedIsHolder' BY DEF LockedIsHolder, TypeOK
<1>4. OneInsertion' BY DEF OneInsertion, TypeOK
<1>5. RowComesFirst' BY DEF RowComesFirst, TypeOK
<1>6. QuestionsAreWhole' BY DEF QuestionsAreWhole, TypeOK
<1>7. ConsumedIsHeld' BY DEF ConsumedIsHeld, TypeOK
<1>8. LinksAreNumbered' BY DEF LinksAreNumbered, TypeOK
<1>9. SessionsAreCurrent' BY DEF SessionsAreCurrent, TypeOK
<1>10. OneLinkWorks' BY DEF OneLinkWorks, TypeOK
<1>11. LinkWorksOnce' BY DEF LinkWorksOnce, TypeOK
<1> QED BY <1>1, <1>2, <1>3, <1>4, <1>5, <1>6, <1>7, <1>8, <1>9, <1>10, <1>11

\* An email job's transaction is rolled back.
LEMMA AbortTryKeeps ==
    ASSUME IInv, NEW j \in Jobs, stage[j] # "idle", AbortTry(j), faults' \in Nat
    PROVE  IInv'
<1> USE ActorsAssumption, BoundsAssumption
        DEF IInv, AbortTry, EndTry, MayRetry, GoTo, Unlock,
            Requests, Actors, Openers, sessionVars, linkVars, jobVars
<1>b. /\ \A i \in Jobs \ {j} : stage'[i] = stage[i] /\ tries'[i] = tries[i]
      /\ \/ stage'[j] = "lock" /\ tries'[j] = tries[j] + 1
         \/ stage'[j] = "failed" /\ tries'[j] = tries[j]
  BY DEF TypeOK
<1>c. tries[j] \in 1..MaxTries BY LinkOfTry
<1>1. TypeOK' BY DEF TypeOK, UserRow, NoUser, Questions, Unasked, Stages, Links, Ended
<1>2. HolderKnowsRow' BY DEF HolderKnowsRow, TypeOK
<1>3. LockedIsHolder' BY DEF LockedIsHolder, TypeOK
<1>4. OneInsertion' BY DEF OneInsertion, TypeOK
<1>5. RowComesFirst' BY DEF RowComesFirst, TypeOK
<1>6. QuestionsAreWhole' BY DEF QuestionsAreWhole, TypeOK
<1>7. ConsumedIsHeld' BY DEF ConsumedIsHeld, TypeOK
<1>8. LinksAreNumbered' 
  <2>1. \A l \in unused \cup mailed : l[1] \in Jobs /\ l[2] \in Nat BY LinkParts DEF TypeOK
  <2>2. unused' = unused /\ mailed' = mailed OBVIOUS
  <2> QED BY <1>b, <1>c, <2>1, <2>2 DEF LinksAreNumbered
<1>9. SessionsAreCurrent' BY DEF SessionsAreCurrent, TypeOK
<1>10. OneLinkWorks' BY DEF OneLinkWorks, TypeOK
<1>11. LinkWorksOnce' BY DEF LinkWorksOnce, TypeOK
<1> QED BY <1>1, <1>2, <1>3, <1>4, <1>5, <1>6, <1>7, <1>8, <1>9, <1>10, <1>11

\* Time passes, and the cleanup job runs.
LEMMA ExpiryKeeps ==
    ASSUME IInv, ExpireSessionsOrLinks
    PROVE  IInv'
<1> USE ActorsAssumption, BoundsAssumption
        DEF IInv, ExpireSessionsOrLinks, ExpireSession, DeleteExpiredSession, ExpireLink, KeepSessions,
            Requests, Actors, Openers, sessionVars, linkVars, jobVars
<1>1. TypeOK' BY DEF TypeOK, UserRow, NoUser, Questions, Unasked, Stages, Links, Ended
<1>2. HolderKnowsRow' BY DEF HolderKnowsRow, TypeOK
<1>3. LockedIsHolder' BY DEF LockedIsHolder, TypeOK
<1>4. OneInsertion' BY DEF OneInsertion, TypeOK
<1>5. RowComesFirst' BY DEF RowComesFirst, TypeOK
<1>6. QuestionsAreWhole' BY DEF QuestionsAreWhole, TypeOK
<1>7. ConsumedIsHeld' BY DEF ConsumedIsHeld, TypeOK
<1>8. LinksAreNumbered' BY DEF LinksAreNumbered, TypeOK
<1>9. SessionsAreCurrent' BY DEF SessionsAreCurrent, TypeOK
<1>10. OneLinkWorks' BY DEF OneLinkWorks, TypeOK
<1>11. LinkWorksOnce' BY DEF LinkWorksOnce, TypeOK
<1> QED BY <1>1, <1>2, <1>3, <1>4, <1>5, <1>6, <1>7, <1>8, <1>9, <1>10, <1>11

\* Every step keeps the invariant.
LEMMA StepKeeps ==
    ASSUME IInv, Next
    PROVE  IInv'
<1> USE DEF Requests, Actors
<1>1. CASE Arrive
  BY <1>1, AskRegistrationKeeps, AskSignInKeeps, AskChangeKeeps, AskResetKeeps, AskSignOutKeeps,
     EnqueueJobKeeps DEF Arrive
<1>2. ASSUME NEW a \in Actors, Step(a) PROVE IInv'
  <2>1. CASE a \in Registrations /\ Register(a)
    <3>1. CASE RefuseDuplicate(a)
      <4>1. stage[a] = "insert" /\ Leave(a, "refused") /\ a \notin Resets
        BY <2>1, <3>1, ActorsAssumption DEF RefuseDuplicate
      <4> QED BY <4>1, LeaveKeeps DEF Ended
    <3> QED BY <2>1, <3>1, InsertUserKeeps, CommitRegistrationKeeps DEF Register
  <2>2. ASSUME LockUser(a) PROVE IInv' BY <2>2, LockUserKeeps
  <2>3. ASSUME a \in SignIns \cup Changes, RefuseCredentials(a) PROVE IInv'
    <3>1. stage[a] = "locked" /\ Leave(a, "refused") /\ a \notin Resets
      BY <2>3, ActorsAssumption DEF RefuseCredentials
    <3> QED BY <3>1, LeaveKeeps DEF Ended
  <2>4. CASE a \in SignIns /\ SignIn(a) BY <2>2, <2>3, <2>4, OpenSessionKeeps DEF SignIn
  <2>5. CASE a \in Changes /\ Change(a) BY <2>2, <2>3, <2>5, CommitChangeKeeps DEF Change
  <2>6. CASE a \in Resets /\ Reset(a)
    <3>1. CASE RefuseReset(a)
      <4>1. stage[a] = "consume" /\ Leave(a, "refused") BY <3>1 DEF RefuseReset
      <4> QED BY <4>1, LeaveKeeps DEF Ended
    <3> QED BY <2>2, <2>6, <3>1, ConsumeResetKeeps, CommitResetKeeps DEF Reset
  <2>7. CASE a \in SignOuts /\ DeleteSession(a) BY <2>7, DeleteSessionKeeps
  <2>8. CASE a \in Jobs /\ RunJob(a)
    <3>1. CASE SkipUnknown(a)
      <4>1. stage[a] = "locked" /\ Leave(a, "done") /\ a \notin Resets
        BY <2>8, <3>1, ActorsAssumption DEF SkipUnknown
      <4> QED BY <4>1, LeaveKeeps DEF Ended
    <3> QED BY <2>2, <2>8, <3>1, ReplaceResetKeeps, SendEmailKeeps, FailSendKeeps DEF RunJob
  <2> QED BY <1>2, <2>1, <2>4, <2>5, <2>6, <2>7, <2>8 DEF Step
<1>3. ASSUME NEW a \in Actors, Fail(a) PROVE IInv'
  <2>1. faults' \in Nat /\ stage[a] # "idle" BY <1>3 DEF Fail, IsUnderWay, IInv, TypeOK
  <2>2. CASE a \in Requests /\ AbortRequest(a) BY <2>1, <2>2, AbortRequestKeeps
  <2>3. CASE a \in Jobs /\ stage[a] # "send" /\ AbortTry(a)
    BY <2>1, <2>3, AbortTryKeeps
  <2> QED BY <1>3, <2>2, <2>3 DEF Fail
<1>4. ASSUME NEW r \in Resets, NEW j \in Jobs, BreakDeadlock(r, j) PROVE IInv'
  <2>1. faults' \in Nat /\ stage[r] = "lock" /\ stage[j] = "locked"
    BY <1>4 DEF BreakDeadlock, IInv, TypeOK
  <2> QED BY <1>4, <2>1, AbortRequestKeeps, AbortTryKeeps DEF BreakDeadlock
<1>5. CASE Expire
  <2>1. ExpireSessionsOrLinks BY <1>5 DEF Expire, ExpireSessionsOrLinks
  <2> QED BY <2>1, ExpiryKeeps
<1> QED BY <1>1, <1>2, <1>3, <1>4, <1>5 DEF Next, DetectDeadlock

\* A step that changes nothing keeps the invariant.
LEMMA StutterKeeps ==
    ASSUME IInv, UNCHANGED vars
    PROVE  IInv'
<1> USE DEF IInv, vars, sessionVars, linkVars, jobVars
<1>1. TypeOK' BY DEF TypeOK
<1>2. HolderKnowsRow' /\ LockedIsHolder' /\ OneInsertion' /\ RowComesFirst'
  BY DEF HolderKnowsRow, LockedIsHolder, OneInsertion, RowComesFirst
<1>3. QuestionsAreWhole' BY DEF QuestionsAreWhole
<1>4. ConsumedIsHeld' /\ LinksAreNumbered' BY DEF ConsumedIsHeld, LinksAreNumbered
<1>5. SessionsAreCurrent' /\ OneLinkWorks' BY DEF SessionsAreCurrent, OneLinkWorks
<1>6. LinkWorksOnce' BY DEF LinkWorksOnce
<1> QED BY <1>1, <1>2, <1>3, <1>4, <1>5, <1>6

----------------------------------------------------------------------------
(* The theorems. *)

\* The invariant the others rest on.
THEOREM Invariance == Spec => []IInv
<1>1. IInv /\ [Next]_vars => IInv' BY StepKeeps, StutterKeeps
<1> QED BY <1>1, InitKeeps, PTL DEF Spec

\* Every variable keeps its type.
THEOREM TypeCorrect == Spec => []TypeOK
BY Invariance, PTL DEF IInv

\* No session outlives the password it was proved against: whatever order sign-ins, changes and
\* resets interleave in, each stored session is of the current password.
THEOREM SessionsStayCurrent == Spec => []SessionsAreCurrent
BY Invariance, PTL DEF IInv

\* However many email jobs and retries run side by side, one reset link works.
THEOREM OneLinkAtATime == Spec => []OneLinkWorks
BY Invariance, PTL DEF IInv

\* A reset link succeeds once, whoever submits it again and whatever is issued after it.
THEOREM LinksWorkOnce == Spec => []LinkWorksOnce
BY Invariance, PTL DEF IInv

----------------------------------------------------------------------------
(* Every request takes effect at once: AuthAccounts implements AccountAtOnce. *)

\* The one link that works, as AccountAtOnce knows it.
TheLink == IF unused = {} THEN Nobody ELSE CHOOSE l \in unused : TRUE

\* It is whichever link is unused.
LEMMA TheLinkIsUnused ==
    ASSUME IInv
    PROVE  /\ unused = {} => TheLink = Nobody
           /\ \A l \in unused : TheLink = l /\ unused = {l} /\ l # Nobody
<1>1. ASSUME NEW l \in unused PROVE TheLink = l /\ unused = {l} /\ l # Nobody
  <2>1. (CHOOSE k \in unused : TRUE) \in unused BY <1>1
  <2>2. \A k \in unused : k = l BY <1>1 DEF IInv, OneLinkWorks
  <2> QED BY <1>1, <2>1, <2>2, ActorsAssumption DEF TheLink, IInv, TypeOK
<1> QED BY <1>1 DEF TheLink

\* A request that arrives asks something.
LEMMA ArriveMapsToAsk ==
    ASSUME IInv, Arrive
    PROVE  Account!Next \/ UNCHANGED Account!vars
<1> USE DEF sessionVars, linkVars, jobVars, Account!vars
<1>1. ASSUME NEW r \in Requests, NEW question \in Questions, stage[r] = "idle",
             Ask(r, question), UNCHANGED <<user, sessions, unused>>
      PROVE  Account!Next
  <2>1. asked[r] = Unasked /\ r \in DOMAIN asked
    BY <1>1 DEF IInv, TypeOK, QuestionsAreWhole
  <2>2. UNCHANGED <<user.password, sessions, TheLink>> BY <1>1 DEF TheLink
  <2>3. Account!Ask(r) BY <1>1, <2>1, <2>2 DEF Account!Ask, Ask, TheLink
  <2> QED BY <2>1, <2>3 DEF Account!Next
<1> USE DEF Requests, Openers, Questions, Unasked
<1>2. ASSUME NEW r \in Registrations, NEW p \in Passwords, AskRegistration(r, p) PROVE Account!Next
  BY <1>1, <1>2 DEF AskRegistration
<1>3. ASSUME NEW r \in SignIns, NEW p \in Passwords, AskSignIn(r, p) PROVE Account!Next
  BY <1>1, <1>3 DEF AskSignIn
<1>4. ASSUME NEW r \in Changes, NEW s \in Openers, NEW p \in Passwords, NEW q \in Passwords,
             AskChange(r, s, p, q)
      PROVE Account!Next
  BY <1>1, <1>4 DEF AskChange
<1>5. ASSUME NEW r \in Resets, NEW l \in Links, NEW q \in Passwords, AskReset(r, l, q)
      PROVE Account!Next
  BY <1>1, <1>5 DEF AskReset
<1>6. ASSUME NEW r \in SignOuts, NEW s \in Openers, AskSignOut(r, s) PROVE Account!Next
  BY <1>1, <1>6 DEF AskSignOut
<1>7. ASSUME NEW j \in Jobs, EnqueueJob(j) PROVE UNCHANGED Account!vars BY <1>7 DEF EnqueueJob
<1> QED BY <1>2, <1>3, <1>4, <1>5, <1>6, <1>7 DEF Arrive

\* The account's first row and session appear together.
LEMMA CommitRegistrationMaps ==
    ASSUME IInv, NEW r \in Registrations, CommitRegistration(r)
    PROVE  Account!Next
<1>1. user = NoUser BY NothingYet DEF CommitRegistration
<1>2. user.password = Nobody /\ user'.password = asked[r].password
  BY <1>1 DEF NoUser, CommitRegistration
<1>3. Account!Register(r)
  BY <1>2 DEF Account!Register, CommitRegistration, linkVars
<1> QED BY <1>3 DEF Account!Next

\* A sign-in takes effect when it commits, holding the row it verified.
LEMMA OpenSessionMaps ==
    ASSUME IInv, NEW r \in SignIns, OpenSession(r)
    PROVE  Account!Next
<1>1. seen[r] = user /\ user.password \in Passwords BY WriterHoldsRow DEF OpenSession
<1>2. user.password # Nobody /\ asked[r].password = user.password
  BY <1>1, ActorsAssumption DEF OpenSession, Proves
<1>3. expired \in SUBSET sessions BY DEF IInv, TypeOK
<1>4. Account!SignIn(r) BY <1>2, <1>3 DEF Account!SignIn, OpenSession, linkVars
<1> QED BY <1>4 DEF Account!Next

\* So does a password change.
LEMMA CommitChangeMaps ==
    ASSUME IInv, NEW r \in Changes, CommitChange(r)
    PROVE  Account!Next
<1>1. seen[r] = user /\ user.password \in Passwords BY WriterHoldsRow DEF CommitChange
<1>2. user.password # Nobody /\ asked[r].password = user.password
  BY <1>1, ActorsAssumption DEF CommitChange, Proves
<1>3. user'.password = asked[r].new BY DEF CommitChange, Replaced
<1>4. Account!Change(r) BY <1>2, <1>3 DEF Account!Change, CommitChange, KeepSessions, linkVars
<1> QED BY <1>4 DEF Account!Next

\* And a reset, whose link is still the one that works.
LEMMA CommitResetMaps ==
    ASSUME IInv, NEW r \in Resets, CommitReset(r)
    PROVE  Account!Next
<1>1. asked[r].link \in unused BY DEF IInv, ConsumedIsHeld, CommitReset
<1>2. TheLink = asked[r].link /\ unused = {asked[r].link} /\ asked[r].link # Nobody
  BY <1>1, TheLinkIsUnused
<1>3. unused' = {} BY <1>2 DEF CommitReset, KeepLinks
<1>4. TheLink' = Nobody BY <1>3 DEF TheLink
<1>5. user'.password = asked[r].new BY DEF CommitReset, Replaced
<1>6. Account!Reset(r)
  BY <1>2, <1>4, <1>5 DEF Account!Reset, TheLink, CommitReset, KeepSessions
<1> QED BY <1>6 DEF Account!Next

\* An email job's commit replaces the link that works.
LEMMA ReplaceResetMaps ==
    ASSUME IInv, NEW j \in Jobs, ReplaceReset(j)
    PROVE  Account!Next
<1>1. NewLink(j) \in Links BY LinkOfTry DEF ReplaceReset
<1>2. userLock = j /\ j # Nobody
  BY ActorsAssumption DEF IInv, LockedIsHolder, ReplaceReset, Actors
<1>3. user.password \in Passwords BY <1>2 DEF IInv, HolderKnowsRow, RowComesFirst
<1>4. user.password # Nobody BY <1>3, ActorsAssumption
<1>5. TheLink' = NewLink(j)
  <2>1. unused' = {NewLink(j)} BY DEF ReplaceReset
  <2> QED BY <2>1 DEF TheLink
<1>6. Account!Issue(NewLink(j))
  BY <1>4, <1>5 DEF Account!Issue, TheLink, ReplaceReset, sessionVars
<1> QED BY <1>1, <1>6 DEF Account!Next

\* Initial states map to initial states, and every step to a step or a stutter.
THEOREM ImplementsAccountAtOnce == Spec => Refinement
<1>1. Init => Account!Init
  BY DEF Init, Account!Init, NoUser
<1>2. IInv /\ [Next]_vars => [Account!Next]_(Account!vars)
  <2> SUFFICES ASSUME IInv, [Next]_vars PROVE Account!Next \/ UNCHANGED Account!vars OBVIOUS
  <2> USE DEF sessionVars, linkVars, jobVars
  <2>1. CASE UNCHANGED vars BY <2>1 DEF vars, Account!vars
  <2>2. CASE Arrive BY <2>2, ArriveMapsToAsk
  <2>3. ASSUME NEW a \in Actors, Step(a) PROVE Account!Next \/ UNCHANGED Account!vars
    <3>1. ASSUME NEW b, LockUser(b) PROVE UNCHANGED Account!vars
      BY <3>1 DEF LockUser, Account!vars
    <3>2. ASSUME NEW b, NEW place, Leave(b, place) PROVE UNCHANGED Account!vars
      BY <3>2 DEF Leave, Account!vars
    <3>3. CASE a \in Registrations /\ Register(a)
      <4>1. CASE InsertUser(a) BY <4>1 DEF InsertUser, Account!vars
      <4> QED BY <3>2, <3>3, <4>1, CommitRegistrationMaps DEF Register, RefuseDuplicate
    <3>4. CASE a \in SignIns /\ SignIn(a)
      BY <3>1, <3>2, <3>4, OpenSessionMaps DEF SignIn, RefuseCredentials
    <3>5. CASE a \in Changes /\ Change(a)
      BY <3>1, <3>2, <3>5, CommitChangeMaps DEF Change, RefuseCredentials
    <3>6. CASE a \in Resets /\ Reset(a)
      <4>1. CASE ConsumeReset(a) BY <4>1 DEF ConsumeReset, Account!vars
      <4> QED BY <3>1, <3>2, <3>6, <4>1, CommitResetMaps DEF Reset, RefuseReset
    <3>7. CASE a \in SignOuts /\ DeleteSession(a)
      <4>1. sessions' = sessions \ {asked[a].session} BY <3>7 DEF DeleteSession, KeepSessions
      <4>2. CASE asked[a].session \in sessions
        BY <3>7, <4>1, <4>2 DEF DeleteSession, Account!Next, Account!EndSession
      <4>3. CASE asked[a].session \notin sessions
        BY <3>7, <4>1, <4>3 DEF DeleteSession, Account!vars
      <4> QED BY <4>2, <4>3
    <3>8. CASE a \in Jobs /\ RunJob(a)
      <4>1. CASE SendEmail(a) BY <4>1 DEF SendEmail, Account!vars
      <4>2. CASE FailSend(a) BY <4>2 DEF FailSend, Account!vars
      <4> QED BY <3>1, <3>2, <3>8, <4>1, <4>2, ReplaceResetMaps DEF RunJob, SkipUnknown
    <3> QED BY <2>3, <3>3, <3>4, <3>5, <3>6, <3>7, <3>8 DEF Step
  <2>4. ASSUME NEW b, AbortRequest(b) \/ AbortTry(b) PROVE UNCHANGED Account!vars
    <3>1. CASE AbortRequest(b) BY <3>1 DEF AbortRequest, Account!vars
    <3>2. CASE AbortTry(b) BY <3>2 DEF AbortTry, Account!vars
    <3> QED BY <2>4, <3>1, <3>2
  <2>5. ASSUME NEW a \in Actors, Fail(a) PROVE UNCHANGED Account!vars
    BY <2>4, <2>5 DEF Fail
  <2>6. CASE DetectDeadlock BY <2>4, <2>6 DEF DetectDeadlock, BreakDeadlock
  <2>7. CASE Expire
    <3>1. ASSUME NEW s \in sessions, ExpireSession(s) PROVE UNCHANGED Account!vars
      BY <3>1 DEF ExpireSession, Account!vars
    <3>2. ASSUME NEW s \in sessions, DeleteExpiredSession(s) PROVE Account!Next
      BY <3>2 DEF DeleteExpiredSession, KeepSessions, Account!Next, Account!EndSession
    <3>3. ASSUME NEW l \in unused, ExpireLink(l) PROVE UNCHANGED Account!vars
      BY <3>3 DEF ExpireLink, Account!vars
    <3> QED BY <2>7, <3>1, <3>2, <3>3 DEF Expire
  <2> QED BY <2>1, <2>2, <2>3, <2>5, <2>6, <2>7 DEF Next
<1> QED BY <1>1, <1>2, Invariance, PTL DEF Spec, Account!Spec, Refinement

----------------------------------------------------------------------------
(* Why every request and job ends: the safety half of EveryRequestEnds. *)

\* The most steps from each place to the end of a try.
StepsToGo(place) ==
    IF place = "idle" THEN 5
    ELSE IF place = "consume" THEN 4
    ELSE IF place = "lock" THEN 3
    ELSE IF place \in {"locked", "insert"} THEN 2
    ELSE IF place \in {"inserted", "delete", "send"} THEN 1
    ELSE 0

\* The same, with the tries a job has left.
LeftToDo(a) ==
    StepsToGo(stage[a]) + (IF a \in Jobs /\ stage[a] \notin Ended THEN 4 * (MaxTries - tries[a]) ELSE 0)

\* An actor's place and its tries are as they were.
Stays(a) == stage'[a] = stage[a] /\ (a \in Jobs => tries'[a] = tries[a])

\* Every step of a request or a job, a failed one included, brings it nearer its end: retries and
\* aborted deadlocks never send it round for good.
EveryStepAdvances == [][\A a \in Actors : Stays(a) \/ LeftToDo(a)' < LeftToDo(a)]_vars

\* Where the actors of each route can be.
RouteStages(a) ==
    IF a \in Registrations THEN {"insert", "inserted"}
    ELSE IF a \in SignIns \cup Changes THEN {"lock", "locked"}
    ELSE IF a \in Resets THEN {"consume", "lock", "locked"}
    ELSE IF a \in SignOuts THEN {"delete"}
    ELSE {"lock", "locked", "send"}

PlacesAreRoutes == \A a \in Actors : stage[a] \in {"idle"} \cup Ended \cup RouteStages(a)

\* The guard of what an actor under way does next, as its place has it.
MayGoOn(a) ==
    CASE stage[a] = "insert" -> inserting = Nobody
      [] stage[a] = "lock" -> IsUserFree
      [] stage[a] = "consume" -> MayConsume(a)
      [] stage[a] = "locked" /\ a \in Jobs ->
            seen[a] = NoUser \/ \A l \in unused : Consumers(l) = {}
      [] OTHER -> TRUE

\* What the deadlock detector looks for, as in BreakDeadlock.
IsDeadlocked(r, j) ==
    /\ stage[r] = "lock" /\ asked[r].link \in unused
    /\ userLock = j /\ stage[j] = "locked"

\* Nobody waits in vain: whoever is under way, somebody can go on, or the waits are the one circle
\* of a reset and an email job, which Postgres breaks.
SomebodyGoesOn ==
    (\E a \in Actors : IsUnderWay(a)) =>
        \/ \E a \in Actors : IsUnderWay(a) /\ MayGoOn(a)
        \/ \E r \in Resets, j \in Jobs : IsDeadlocked(r, j)

\* The row that makes registrations wait is of one that is about to commit.
InserterIsInserting == inserting # Nobody => stage[inserting] = "inserted"

WaitInv == IInv /\ PlacesAreRoutes /\ InserterIsInserting

\* An actor that turns to a place nearer the end advances, and the others stay.
LEMMA GoToAdvances ==
  ASSUME TypeOK, NEW a \in Actors, NEW b \in Actors, NEW place, GoTo(b, place), tries' = tries,
         StepsToGo(place) < StepsToGo(stage[b])
  PROVE  Stays(a) \/ LeftToDo(a)' < LeftToDo(a)
<1>1. stage' = [stage EXCEPT ![b] = place] /\ stage \in [Actors -> Stages]
  BY DEF GoTo, TypeOK
<1>2. CASE a # b
  BY <1>1, <1>2 DEF Stays
<1>3. CASE a = b
  <2>1. stage[a] \notin Ended
    BY <1>3 DEF StepsToGo, Ended
  <2>2. stage'[a] = place
    BY <1>1, <1>3
  <2>3. a \in Jobs => tries[a] \in 0..MaxTries
    BY DEF TypeOK
  <2> QED BY <1>3, <2>1, <2>2, <2>3, BoundsAssumption DEF LeftToDo, StepsToGo
<1> QED BY <1>2, <1>3

\* A try that ends before its job does leaves a try fewer.
LEMMA EndTryAdvances ==
  ASSUME TypeOK, NEW a \in Actors, NEW j \in Jobs, EndTry(j), stage[j] \in {"lock", "locked", "send"}
  PROVE  Stays(a) \/ LeftToDo(a)' < LeftToDo(a)
<1>0. /\ stage \in [Actors -> Stages] /\ tries \in [Jobs -> 0..MaxTries]
      /\ j \in Actors /\ MaxTries \in Nat
  BY BoundsAssumption DEF TypeOK, Actors
<1>1. CASE MayRetry(j)
  <2>1. stage' = [stage EXCEPT ![j] = "lock"] /\ tries' = [tries EXCEPT ![j] = @ + 1]
    BY <1>1 DEF EndTry, GoTo
  <2>2. CASE a # j
    BY <1>0, <2>1, <2>2 DEF Stays
  <2>3. CASE a = j
    <3>1. stage'[j] = "lock" /\ tries'[j] = tries[j] + 1 /\ tries[j] \in 0..MaxTries
      BY <1>0, <2>1
    <3> QED BY <1>0, <2>3, <3>1 DEF LeftToDo, StepsToGo, Ended
  <2> QED BY <2>2, <2>3
<1>2. CASE ~MayRetry(j)
  <2>1. GoTo(j, "failed") /\ tries' = tries
    BY <1>2 DEF EndTry
  <2>2. StepsToGo("failed") < StepsToGo(stage[j])
    BY DEF StepsToGo
  <2> QED BY <1>0, <2>1, <2>2, GoToAdvances
<1> QED BY <1>1, <1>2

\* Whatever step is taken, every actor stays or advances.
LEMMA StepAdvances ==
  ASSUME IInv, PlacesAreRoutes, [Next]_vars, NEW a \in Actors
  PROVE  Stays(a) \/ LeftToDo(a)' < LeftToDo(a)
<1> DEFINE Advances == Stays(a) \/ LeftToDo(a)' < LeftToDo(a)
<1>t. TypeOK BY DEF IInv
<1>a. /\ Registrations \subseteq Actors /\ SignIns \subseteq Actors /\ Changes \subseteq Actors
      /\ Resets \subseteq Actors /\ SignOuts \subseteq Actors /\ Jobs \subseteq Actors
  BY DEF Actors, Requests
<1>b. ASSUME NEW b \in Actors, NEW place, GoTo(b, place), tries' = tries,
             StepsToGo(place) < StepsToGo(stage[b])
      PROVE  Advances
  BY <1>t, <1>b, GoToAdvances
<1>c. ASSUME stage' = stage, tries' = tries PROVE Advances
  BY <1>c DEF Stays
<1> SUFFICES Advances BY DEF Advances
<1> HIDE DEF Advances
<1>1. CASE Arrive
  <2>1. ASSUME NEW j \in Jobs, EnqueueJob(j) PROVE Advances
    <3>1. /\ stage' = [stage EXCEPT ![j] = "lock"] /\ tries' = [tries EXCEPT ![j] = 1]
          /\ stage[j] = "idle" /\ tries[j] = 0 /\ stage \in [Actors -> Stages]
          /\ tries \in [Jobs -> 0..MaxTries] /\ MaxTries \in Nat \ {0}
      BY <2>1, <1>t, BoundsAssumption DEF EnqueueJob, GoTo, TypeOK, IInv, LinksAreNumbered
    <3>2. CASE a # j
      BY <1>a, <3>1, <3>2 DEF Stays, Advances
    <3>3. CASE a = j
      <4>1. stage'[j] = "lock" /\ tries'[j] = 1
        BY <1>a, <3>1
      <4> QED BY <3>1, <3>3, <4>1 DEF LeftToDo, StepsToGo, Ended, Advances
    <3> QED BY <3>2, <3>3
  <2>2. ASSUME NEW r \in Requests, stage[r] = "idle",
               NEW place \in {"insert", "lock", "refused", "delete", "done", "consume"},
               GoTo(r, place), tries' = tries
        PROVE  Advances
    <3>1. StepsToGo(place) < StepsToGo("idle")
      BY DEF StepsToGo
    <3> QED BY <1>b, <2>2, <3>1 DEF Actors
  <2>3. ASSUME NEW r \in Registrations, NEW p \in Passwords, AskRegistration(r, p) PROVE Advances
    BY <2>2, <2>3 DEF AskRegistration, Requests, jobVars
  <2>4. ASSUME NEW r \in SignIns, NEW p \in Passwords, AskSignIn(r, p) PROVE Advances
    BY <2>2, <2>4 DEF AskSignIn, Requests, jobVars
  <2>5. ASSUME NEW r \in Changes, NEW s \in Openers, NEW p \in Passwords, NEW q \in Passwords,
               AskChange(r, s, p, q)
        PROVE  Advances
    <3>1. CASE s \in sessions \ expired
      BY <2>2, <2>5, <3>1 DEF AskChange, Requests, jobVars
    <3>2. CASE s \notin sessions \ expired
      BY <2>2, <2>5, <3>2 DEF AskChange, Requests, jobVars
    <3> QED BY <3>1, <3>2
  <2>6. ASSUME NEW r \in Resets, NEW l \in Links, NEW q \in Passwords, AskReset(r, l, q)
        PROVE  Advances
    BY <2>2, <2>6 DEF AskReset, Requests, jobVars
  <2>7. ASSUME NEW r \in SignOuts, NEW s \in Openers, AskSignOut(r, s) PROVE Advances
    <3>1. CASE s \in sessions \ expired
      BY <2>2, <2>7, <3>1 DEF AskSignOut, Requests, jobVars
    <3>2. CASE s \notin sessions \ expired
      BY <2>2, <2>7, <3>2 DEF AskSignOut, Requests, jobVars
    <3> QED BY <3>1, <3>2
  <2> QED BY <1>1, <2>1, <2>3, <2>4, <2>5, <2>6, <2>7 DEF Arrive
<1>2. ASSUME NEW b \in Actors, Step(b) PROVE Advances
  <2>1. ASSUME NEW j \in Jobs, FailSend(j) PROVE Advances
    BY <2>1, <1>t, EndTryAdvances DEF FailSend, Advances
  <2>2. ASSUME NEW place \in {"done", "refused", "failed"}, GoTo(b, place), tries' = tries,
               stage[b] \in {"insert", "inserted", "locked", "delete", "send", "consume"}
        PROVE  Advances
    <3>1. StepsToGo(place) < StepsToGo(stage[b])
      BY <2>2 DEF StepsToGo
    <3> QED BY <1>b, <2>2, <3>1
  <2>3. CASE LockUser(b)
    <3>1. StepsToGo("locked") < StepsToGo("lock")
      BY DEF StepsToGo
    <3> QED BY <1>b, <2>3, <3>1 DEF LockUser, jobVars
  <2>4. CASE InsertUser(b)
    <3>1. StepsToGo("inserted") < StepsToGo("insert")
      BY DEF StepsToGo
    <3> QED BY <1>b, <2>4, <3>1 DEF InsertUser, jobVars
  <2>5. CASE ConsumeReset(b)
    <3>1. StepsToGo("lock") < StepsToGo("consume")
      BY DEF StepsToGo
    <3> QED BY <1>b, <2>5, <3>1 DEF ConsumeReset, jobVars
  <2>6. CASE ReplaceReset(b)
    <3>1. StepsToGo("send") < StepsToGo("locked")
      BY DEF StepsToGo
    <3> QED BY <1>b, <2>6, <3>1 DEF ReplaceReset, jobVars
  <2>7. CASE RefuseDuplicate(b) \/ RefuseCredentials(b) \/ RefuseReset(b) \/ SkipUnknown(b)
    BY <2>2, <2>7 DEF RefuseDuplicate, RefuseCredentials, RefuseReset, SkipUnknown, Leave, jobVars
  <2>8. CASE CommitRegistration(b) \/ OpenSession(b) \/ CommitChange(b) \/ CommitReset(b)
             \/ DeleteSession(b) \/ SendEmail(b)
    BY <2>2, <2>8 DEF CommitRegistration, OpenSession, CommitChange, CommitReset, DeleteSession,
       SendEmail, jobVars
  <2> QED BY <1>2, <2>1, <2>3, <2>4, <2>5, <2>6, <2>7, <2>8
          DEF Step, Register, SignIn, Change, Reset, RunJob
<1>3. ASSUME NEW r \in Requests, IsUnderWay(r), AbortRequest(r) PROVE Advances
  <2>1. StepsToGo("failed") < StepsToGo(stage[r])
    BY <1>3, <1>t DEF StepsToGo, IsUnderWay, Ended, TypeOK, Stages, Actors
  <2> QED BY <1>b, <1>3, <2>1 DEF AbortRequest, jobVars, Actors
<1>4. ASSUME NEW j \in Jobs, IsUnderWay(j), AbortTry(j) PROVE Advances
  <2>1. stage[j] \in {"lock", "locked", "send"}
    BY <1>4, ActorsAssumption DEF PlacesAreRoutes, RouteStages, IsUnderWay, Actors, Requests
  <2> QED BY <1>t, <1>4, <2>1, EndTryAdvances DEF AbortTry, Advances
<1>5. ASSUME NEW b \in Actors, Fail(b) PROVE Advances
  BY <1>3, <1>4, <1>5 DEF Fail
<1>6. CASE DetectDeadlock
  <2>1. PICK r \in Resets, j \in Jobs : BreakDeadlock(r, j)
    BY <1>6 DEF DetectDeadlock
  <2>2. IsUnderWay(r) /\ IsUnderWay(j) /\ r \in Requests
    BY <2>1 DEF BreakDeadlock, IsUnderWay, Ended, Requests
  <2>3. CASE AbortRequest(r)
    BY <1>3, <2>2, <2>3
  <2>4. CASE AbortTry(j)
    BY <1>4, <2>2, <2>4
  <2> QED BY <2>1, <2>3, <2>4 DEF BreakDeadlock
<1>7. CASE Expire
  <2>1. stage' = stage /\ tries' = tries
    BY <1>7 DEF Expire, ExpireSession, DeleteExpiredSession, ExpireLink, jobVars
  <2> QED BY <1>c, <2>1
<1>8. CASE UNCHANGED vars
  BY <1>c, <1>8 DEF vars, jobVars
<1> QED BY <1>1, <1>2, <1>5, <1>6, <1>7, <1>8 DEF Next

\* What an actor's route is, as PlacesAreRoutes tells them apart.
LEMMA Routes ==
  ASSUME NEW a \in Actors
  PROVE  /\ a \in Registrations => RouteStages(a) = {"insert", "inserted"}
         /\ a \in SignIns \cup Changes => RouteStages(a) = {"lock", "locked"}
         /\ a \in Resets => RouteStages(a) = {"consume", "lock", "locked"}
         /\ a \in SignOuts => RouteStages(a) = {"delete"}
         /\ a \in Jobs => RouteStages(a) = {"lock", "locked", "send"}
BY ActorsAssumption DEF RouteStages

\* An actor goes to a place of its route, or ends.
LEMMA GoToKeepsRoutes ==
  ASSUME TypeOK, PlacesAreRoutes, NEW a \in Actors, NEW place \in Ended \cup RouteStages(a),
         GoTo(a, place)
  PROVE  PlacesAreRoutes'
<1>1. stage' = [stage EXCEPT ![a] = place] /\ stage \in [Actors -> Stages]
  BY DEF GoTo, TypeOK
<1> SUFFICES ASSUME NEW b \in Actors
             PROVE  stage'[b] \in {"idle"} \cup Ended \cup RouteStages(b)
  BY DEF PlacesAreRoutes
<1>2. stage[b] \in {"idle"} \cup Ended \cup RouteStages(b)
  BY DEF PlacesAreRoutes
<1> QED BY <1>1, <1>2

\* A try that ends leaves its job on its route.
LEMMA EndTryKeepsRoutes ==
  ASSUME TypeOK, PlacesAreRoutes, NEW j \in Jobs, EndTry(j)
  PROVE  PlacesAreRoutes'
<1>1. j \in Actors /\ RouteStages(j) = {"lock", "locked", "send"}
  BY Routes DEF Actors
<1>2. CASE MayRetry(j)
  <2>1. GoTo(j, "lock")
    BY <1>2 DEF EndTry
  <2> QED BY <1>1, <2>1, GoToKeepsRoutes
<1>3. CASE ~MayRetry(j)
  <2>1. GoTo(j, "failed")
    BY <1>3 DEF EndTry
  <2> QED BY <1>1, <2>1, GoToKeepsRoutes DEF Ended
<1> QED BY <1>2, <1>3

\* Every step keeps every actor on its route.
LEMMA RoutesKeep ==
  ASSUME TypeOK, PlacesAreRoutes, [Next]_vars
  PROVE  PlacesAreRoutes'
<1>a. /\ Registrations \subseteq Actors /\ SignIns \subseteq Actors /\ Changes \subseteq Actors
      /\ Resets \subseteq Actors /\ SignOuts \subseteq Actors /\ Jobs \subseteq Actors
  BY DEF Actors, Requests
<1>b. ASSUME NEW b \in Actors, NEW place \in Ended \cup RouteStages(b), GoTo(b, place)
      PROVE  PlacesAreRoutes'
  BY <1>b, GoToKeepsRoutes
<1>c. ASSUME NEW b \in Actors, NEW place \in Ended, GoTo(b, place) PROVE PlacesAreRoutes'
  BY <1>b, <1>c
<1>d. ASSUME stage' = stage PROVE PlacesAreRoutes'
  BY <1>d DEF PlacesAreRoutes
<1>e. "done" \in Ended /\ "refused" \in Ended /\ "failed" \in Ended
  BY DEF Ended
<1>1. CASE Arrive
  <2>1. ASSUME NEW r \in Registrations, NEW p \in Passwords, AskRegistration(r, p)
        PROVE  PlacesAreRoutes'
    BY <1>a, <1>b, <2>1, Routes DEF AskRegistration
  <2>2. ASSUME NEW r \in SignIns, NEW p \in Passwords, AskSignIn(r, p) PROVE PlacesAreRoutes'
    BY <1>a, <1>b, <2>2, Routes DEF AskSignIn
  <2>3. ASSUME NEW r \in Changes, NEW s \in Openers, NEW p \in Passwords, NEW q \in Passwords,
               AskChange(r, s, p, q)
        PROVE  PlacesAreRoutes'
    <3>1. GoTo(r, "lock") \/ GoTo(r, "refused")
      BY <2>3 DEF AskChange
    <3> QED BY <1>a, <1>b, <1>c, <1>e, <2>3, <3>1, Routes
  <2>4. ASSUME NEW r \in Resets, NEW l \in Links, NEW q \in Passwords, AskReset(r, l, q)
        PROVE  PlacesAreRoutes'
    BY <1>a, <1>b, <2>4, Routes DEF AskReset
  <2>5. ASSUME NEW r \in SignOuts, NEW s \in Openers, AskSignOut(r, s) PROVE PlacesAreRoutes'
    <3>1. GoTo(r, "delete") \/ GoTo(r, "done")
      BY <2>5 DEF AskSignOut
    <3> QED BY <1>a, <1>b, <1>c, <1>e, <2>5, <3>1, Routes
  <2>6. ASSUME NEW j \in Jobs, EnqueueJob(j) PROVE PlacesAreRoutes'
    BY <1>a, <1>b, <2>6, Routes DEF EnqueueJob
  <2> QED BY <1>1, <2>1, <2>2, <2>3, <2>4, <2>5, <2>6 DEF Arrive
<1>2. ASSUME NEW a \in Actors, Step(a) PROVE PlacesAreRoutes'
  <2>1. CASE LockUser(a) /\ a \in SignIns \cup Changes \cup Resets \cup Jobs
    BY <1>b, <2>1, Routes DEF LockUser
  <2>2. CASE InsertUser(a) /\ a \in Registrations
    BY <1>b, <2>2, Routes DEF InsertUser
  <2>3. CASE ConsumeReset(a) /\ a \in Resets
    BY <1>b, <2>3, Routes DEF ConsumeReset
  <2>4. CASE ReplaceReset(a) /\ a \in Jobs
    BY <1>b, <2>4, Routes DEF ReplaceReset
  <2>5. CASE RefuseDuplicate(a) \/ RefuseCredentials(a) \/ RefuseReset(a) \/ SkipUnknown(a)
    <3>1. GoTo(a, "refused") \/ GoTo(a, "done")
      BY <2>5 DEF RefuseDuplicate, RefuseCredentials, RefuseReset, SkipUnknown, Leave
    <3> QED BY <1>c, <1>e, <3>1
  <2>6. CASE CommitRegistration(a) \/ OpenSession(a) \/ CommitChange(a) \/ CommitReset(a)
             \/ DeleteSession(a) \/ SendEmail(a)
    <3>1. GoTo(a, "done")
      BY <2>6 DEF CommitRegistration, OpenSession, CommitChange, CommitReset, DeleteSession, SendEmail
    <3> QED BY <1>c, <1>e, <3>1
  <2>7. CASE FailSend(a) /\ a \in Jobs
    BY <2>7, EndTryKeepsRoutes DEF FailSend
  <2> QED BY <1>2, <2>1, <2>2, <2>3, <2>4, <2>5, <2>6, <2>7
          DEF Step, Register, SignIn, Change, Reset, RunJob
<1>3. ASSUME NEW r \in Requests, AbortRequest(r) PROVE PlacesAreRoutes'
  BY <1>c, <1>e, <1>3 DEF AbortRequest, Actors
<1>4. ASSUME NEW j \in Jobs, AbortTry(j) PROVE PlacesAreRoutes'
  BY <1>4, EndTryKeepsRoutes DEF AbortTry
<1>5. ASSUME NEW a \in Actors, Fail(a) PROVE PlacesAreRoutes'
  BY <1>3, <1>4, <1>5 DEF Fail
<1>6. CASE DetectDeadlock
  BY <1>3, <1>4, <1>6 DEF DetectDeadlock, BreakDeadlock, Requests
<1>7. CASE Expire
  <2>1. stage' = stage
    BY <1>7 DEF Expire, ExpireSession, DeleteExpiredSession, ExpireLink
  <2> QED BY <1>d, <2>1
<1>8. CASE UNCHANGED vars
  BY <1>d, <1>8 DEF vars
<1> QED BY <1>1, <1>2, <1>5, <1>6, <1>7, <1>8 DEF Next

\* Only the registration that inserts the row, and its end, change who is inserting.
LEMMA InserterKeeps ==
  ASSUME TypeOK, PlacesAreRoutes, InserterIsInserting, [Next]_vars
  PROVE  InserterIsInserting'
<1>a. Requests \subseteq Actors /\ Jobs \subseteq Actors
  BY DEF Actors
<1>b. ASSUME NEW b \in Actors, NEW place, stage[b] # "inserted", GoTo(b, place), inserting' = inserting
      PROVE  InserterIsInserting'
  BY <1>b DEF GoTo, TypeOK, InserterIsInserting, Actors, Requests
<1>c. ASSUME stage' = stage, inserting' = inserting PROVE InserterIsInserting'
  BY <1>c DEF InserterIsInserting
<1>d. ASSUME NEW j \in Jobs, EndTry(j), stage[j] # "inserted", inserting' = inserting
      PROVE  InserterIsInserting'
  <2>1. GoTo(j, "lock") \/ GoTo(j, "failed")
    BY <1>d DEF EndTry
  <2> QED BY <1>a, <1>b, <1>d, <2>1
<1>1. CASE Arrive
  <2>1. ASSUME NEW r \in Requests, NEW place, stage[r] = "idle", GoTo(r, place), inserting' = inserting
        PROVE  InserterIsInserting'
    BY <1>a, <1>b, <2>1
  <2>2. ASSUME NEW r \in Registrations, NEW p \in Passwords, AskRegistration(r, p)
        PROVE  InserterIsInserting'
    BY <2>1, <2>2 DEF AskRegistration, Requests
  <2>3. ASSUME NEW r \in SignIns, NEW p \in Passwords, AskSignIn(r, p) PROVE InserterIsInserting'
    BY <2>1, <2>3 DEF AskSignIn, Requests
  <2>4. ASSUME NEW r \in Changes, NEW s \in Openers, NEW p \in Passwords, NEW q \in Passwords,
               AskChange(r, s, p, q)
        PROVE  InserterIsInserting'
    BY <2>1, <2>4 DEF AskChange, Requests
  <2>5. ASSUME NEW r \in Resets, NEW l \in Links, NEW q \in Passwords, AskReset(r, l, q)
        PROVE  InserterIsInserting'
    BY <2>1, <2>5 DEF AskReset, Requests
  <2>6. ASSUME NEW r \in SignOuts, NEW s \in Openers, AskSignOut(r, s) PROVE InserterIsInserting'
    BY <2>1, <2>6 DEF AskSignOut, Requests
  <2>7. ASSUME NEW j \in Jobs, EnqueueJob(j) PROVE InserterIsInserting'
    BY <1>a, <1>b, <2>7 DEF EnqueueJob
  <2> QED BY <1>1, <2>2, <2>3, <2>4, <2>5, <2>6, <2>7 DEF Arrive
<1>2. ASSUME NEW a \in Actors, Step(a) PROVE InserterIsInserting'
  <2>1. CASE InsertUser(a)
    BY <2>1 DEF InsertUser, GoTo, TypeOK, InserterIsInserting
  <2>2. CASE CommitRegistration(a)
    BY <2>2 DEF CommitRegistration, InserterIsInserting
  <2>3. CASE LockUser(a)
    BY <1>b, <2>3 DEF LockUser
  <2>4. CASE ConsumeReset(a)
    BY <1>b, <2>4 DEF ConsumeReset
  <2>5. CASE ReplaceReset(a)
    BY <1>b, <2>5 DEF ReplaceReset
  <2>6. CASE RefuseDuplicate(a) \/ RefuseCredentials(a) \/ RefuseReset(a) \/ SkipUnknown(a)
    BY <1>b, <2>6 DEF RefuseDuplicate, RefuseCredentials, RefuseReset, SkipUnknown, Leave
  <2>7. CASE OpenSession(a) \/ CommitChange(a) \/ CommitReset(a) \/ DeleteSession(a) \/ SendEmail(a)
    BY <1>b, <2>7 DEF OpenSession, CommitChange, CommitReset, DeleteSession, SendEmail
  <2>8. CASE FailSend(a) /\ a \in Jobs
    BY <1>d, <2>8 DEF FailSend
  <2> QED BY <1>2, <2>1, <2>2, <2>3, <2>4, <2>5, <2>6, <2>7, <2>8
          DEF Step, Register, SignIn, Change, Reset, RunJob
<1>3. ASSUME NEW r \in Requests, AbortRequest(r) PROVE InserterIsInserting'
  BY <1>a, <1>3 DEF AbortRequest, GoTo, TypeOK, InserterIsInserting, Actors, Requests
<1>4. ASSUME NEW j \in Jobs, AbortTry(j) PROVE InserterIsInserting'
  <2>1. stage[j] # "inserted"
    BY <1>a, Routes DEF PlacesAreRoutes, Ended
  <2> QED BY <1>d, <1>4, <2>1 DEF AbortTry
<1>5. ASSUME NEW a \in Actors, Fail(a) PROVE InserterIsInserting'
  BY <1>3, <1>4, <1>5 DEF Fail
<1>6. CASE DetectDeadlock
  BY <1>3, <1>4, <1>6 DEF DetectDeadlock, BreakDeadlock, Requests
<1>7. CASE Expire
  <2>1. stage' = stage /\ inserting' = inserting
    BY <1>7 DEF Expire, ExpireSession, DeleteExpiredSession, ExpireLink
  <2> QED BY <1>c, <2>1
<1>8. CASE UNCHANGED vars
  BY <1>c, <1>8 DEF vars
<1> QED BY <1>1, <1>2, <1>5, <1>6, <1>7, <1>8 DEF Next

\* If nobody under way could go on, the wait would be for a row an inserter is about to commit, or
\* for the account's holder, and the holder an email job waiting for a reset that waits for it.
LEMMA SomebodyCan ==
  ASSUME WaitInv
  PROVE  SomebodyGoesOn
<1> SUFFICES ASSUME NEW b \in Actors, IsUnderWay(b),
                    \A a \in Actors : IsUnderWay(a) => ~MayGoOn(a)
             PROVE  \E r \in Resets, j \in Jobs : IsDeadlocked(r, j)
  BY DEF SomebodyGoesOn
<1>t. TypeOK /\ PlacesAreRoutes /\ Nobody \notin Actors
  BY ActorsAssumption DEF WaitInv, IInv
<1>0. /\ \A a \in Actors : stage[a] \notin {"inserted", "delete", "send"}
      /\ \A a \in Actors \ Jobs : stage[a] # "locked"
  BY DEF MayGoOn, IsUnderWay, Ended
<1>1. inserting = Nobody
  BY <1>t, <1>0 DEF WaitInv, InserterIsInserting, TypeOK, Actors, Requests
<1>2. \A a \in Actors : stage[a] # "insert"
  BY <1>1 DEF MayGoOn, IsUnderWay, Ended
<1>r. Resets \subseteq Actors \ Jobs
  BY ActorsAssumption DEF Actors, Requests
<1>3. userLock # Nobody
  <2> SUFFICES ASSUME userLock = Nobody PROVE FALSE
    OBVIOUS
  <2>1. \A a \in Actors : stage[a] # "lock"
    BY DEF MayGoOn, IsUserFree, IsUnderWay, Ended
  <2>2. \A l : Consumers(l) = {}
    BY <1>0, <1>r, <2>1 DEF Consumers
  <2>3. \A a \in Actors : stage[a] # "consume"
    BY <2>2 DEF MayGoOn, MayConsume, IsUnderWay, Ended
  <2>4. stage[b] = "locked"
    BY <1>t, <1>0, <1>2, <2>1, <2>3 DEF TypeOK, Stages, IsUnderWay, Ended
  <2> QED BY <2>2, <2>4 DEF MayGoOn
<1>4. stage[userLock] = "locked" /\ userLock \in Actors
  BY <1>t, <1>3 DEF WaitInv, IInv, HolderKnowsRow, TypeOK
<1>5. userLock \in Jobs
  BY <1>0, <1>4
<1>6. PICK l \in unused : Consumers(l) # {}
  BY <1>4, <1>5 DEF MayGoOn, IsUnderWay, Ended
<1>7. PICK p \in Resets : stage[p] \in {"lock", "locked"} /\ asked[p].link = l
  BY <1>6 DEF Consumers
<1>8. IsDeadlocked(p, userLock)
  BY <1>0, <1>r, <1>4, <1>6, <1>7 DEF IsDeadlocked
<1> QED BY <1>5, <1>8

----------------------------------------------------------------------------

\* Every step brings its request or job nearer the end, which is never more than
\* 5 + 4 * MaxTries steps away, however often tries fail and deadlocks are broken.
THEOREM EveryoneAdvances ==
    Spec => EveryStepAdvances /\ [](\A a \in Actors : LeftToDo(a) \in 0..(5 + 4 * MaxTries))
<1>1. Init => PlacesAreRoutes
  BY DEF Init, PlacesAreRoutes
<1>2. IInv /\ PlacesAreRoutes /\ [Next]_vars => PlacesAreRoutes'
  BY RoutesKeep DEF IInv
<1>3. IInv => \A a \in Actors : LeftToDo(a) \in 0..(5 + 4 * MaxTries)
  <2> SUFFICES ASSUME IInv, NEW a \in Actors PROVE LeftToDo(a) \in 0..(5 + 4 * MaxTries)
    OBVIOUS
  <2>1. StepsToGo(stage[a]) \in 0..5
    BY DEF StepsToGo
  <2>2. a \in Jobs => tries[a] \in 0..MaxTries
    BY DEF IInv, TypeOK
  <2> QED BY <2>1, <2>2, BoundsAssumption DEF LeftToDo
<1>4. IInv /\ PlacesAreRoutes /\ [Next]_vars =>
        [\A a \in Actors : Stays(a) \/ LeftToDo(a)' < LeftToDo(a)]_vars
  BY StepAdvances
<1> QED BY <1>1, <1>2, <1>3, <1>4, Invariance, PTL DEF Spec, EveryStepAdvances

\* Whoever is under way, somebody can take the next step, or Postgres has the one deadlock there
\* can be to break.
THEOREM NobodyWaitsInVain == Spec => []SomebodyGoesOn
<1>1. Init => PlacesAreRoutes /\ InserterIsInserting
  BY DEF Init, PlacesAreRoutes, InserterIsInserting
<1>2. IInv /\ PlacesAreRoutes /\ InserterIsInserting /\ [Next]_vars =>
        PlacesAreRoutes' /\ InserterIsInserting'
  BY RoutesKeep, InserterKeeps DEF IInv
<1>3. IInv /\ PlacesAreRoutes /\ InserterIsInserting => SomebodyGoesOn
  BY SomebodyCan DEF WaitInv
<1> QED BY <1>1, <1>2, <1>3, Invariance, PTL DEF Spec
=============================================================================
