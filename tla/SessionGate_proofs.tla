------------------------- MODULE SessionGate_proofs -------------------------
(***************************************************************************)
(* Machine-checked proofs about SessionGate, for any sessions, clocks and  *)
(* bounds: a sign-out is final, an ended session is turned away, an outage *)
(* signs nobody out, and an unasked trust is bounded by the window.        *)
(***************************************************************************)
EXTENDS SessionGate, TLAPS

IsArriving == page \in {"loading", "arriving"}

\* While the server renders nothing else goes on in the tab.
RenderComesFirst ==
    IsArriving => target \in Pages /\ request = NoRequest /\ mutation = NoMutation /\ ~hopeless

IsBorn(c) == c # None => life[c] \in {"live", "dead"}

\* Every session the browser names was created by the backend.
SessionsAreBorn ==
    /\ IsBorn(cookie) /\ IsBorn(request.cookie) /\ IsBorn(mutation.session)
    /\ \A s \in Sessions : life[s] # "dead" => deadFor[s] = 0

\* An answered mutation has taken place.
AnsweredIsDone ==
    /\ IsAnswered("signIn") => mutation.session \in Sessions \ departed
    /\ IsAnswered("signOut") => ~IsLive(mutation.session)

DepartedAreDead == \A s \in departed : life[s] = "dead"

\* What the backend has said of the outstanding request.
AnswersAreTrue ==
    /\ request.answer = "user" => request.cookie \in Sessions \ departed
    /\ request.answer = "unauthorized" => ~IsLive(request.cookie)

\* A gate that asked in vain waits for its own request.
HopelessHasAsked ==
    hopeless =>
        /\ target # "none" /\ request # NoRequest
        /\ ~IsLive(cookie) /\ ~IsLive(request.cookie) /\ request.answer # "user"

\* What the server rendered was live then, and has been over for no longer than it is old.
RenderedIsAsOld ==
    /\ entry.isServers => entry.session # None
    /\ page = "arriving" /\ entry.session # None => entry.isServers
    /\ entry.isServers =>
         IsBorn(entry.session) /\ deadFor[entry.session] <= entry.age

IInv ==
    /\ TypeOK /\ RenderComesFirst /\ SessionsAreBorn /\ AnsweredIsDone /\ DepartedAreDead
    /\ AnswersAreTrue /\ HopelessHasAsked /\ RenderedIsAsOld /\ SignOutIsFinal

----------------------------------------------------------------------------

\* What the tab starts with, and what it is given, is of its type.
LEMMA ValuesAreTyped ==
    /\ NoEntry \in Entries /\ NoRequest \in Requests /\ NoMutation \in Mutations
    /\ \A c \in Sessions \cup {None} :
        /\ \A isServers \in BOOLEAN : Fetched(c, isServers) \in Entries
        /\ Sent(c) \in Requests
BY GateAssumption
DEF NoEntry, NoRequest, NoMutation, Fetched, Sent, Entries, Requests, Mutations

\* A full page load starts the tab over.
LEMMA LoadPageKeeps == ASSUME IInv, NEW p \in Pages, LoadPage(p) PROVE IInv'
<1> USE DEF IInv, TypeOK, LoadPage, Move, NoEntry, NoRequest, NoMutation, backendVars
<1>1. BackendTypeOK'
  BY GateAssumption DEF BackendTypeOK
<1>2. TabTypeOK'
  BY ValuesAreTyped DEF TabTypeOK, Pages, Protected, BackendTypeOK
<1>3. RenderComesFirst'
  BY DEF RenderComesFirst, IsArriving, Pages, Protected
<1>4. SessionsAreBorn'
  BY DEF SessionsAreBorn, IsBorn
<1>5. AnsweredIsDone'
  BY DEF AnsweredIsDone, IsAnswered, IsLive
<1>6. AnswersAreTrue'
  BY DEF AnswersAreTrue, IsLive
<1>7. HopelessHasAsked'
  BY DEF HopelessHasAsked, IsLive
<1>8. RenderedIsAsOld'
  BY DEF RenderedIsAsOld, IsBorn
<1>9. SignOutIsFinal'
  BY GateAssumption DEF SignOutIsFinal, BackendTypeOK, TabTypeOK, Pages, Entries, Requests,
     Mutations, Protected
<1>10. DepartedAreDead'
  BY DEF DepartedAreDead
<1> QED BY <1>1, <1>2, <1>3, <1>4, <1>5, <1>6, <1>7, <1>8, <1>9, <1>10

\* Hydration shows the page or opens a gate for it.
LEMMA HydrateKeeps == ASSUME IInv, Hydrate PROVE IInv'
<1> USE DEF IInv, TypeOK, Hydrate, HasRecentServerSession, GateFor, backendVars, BrowserAge,
    NoRequest, Sent, IsLive
<1>1. TabTypeOK'
  BY ValuesAreTyped DEF TabTypeOK, Pages, Protected, RenderComesFirst, IsArriving, NoMutation,
     BackendTypeOK
<1>2. RenderComesFirst'
  BY DEF RenderComesFirst, IsArriving, Pages, NoMutation, Protected
<1>3. SessionsAreBorn'
  BY DEF SessionsAreBorn, IsBorn
<1>4. AnswersAreTrue'
  BY DEF AnswersAreTrue
<1>5. HopelessHasAsked'
  <2>1. CASE UNCHANGED <<request, hopeless>>
    BY <2>1 DEF HopelessHasAsked, RenderComesFirst, IsArriving
  <2>2. CASE GateFor(target, cookie, request)
    <3>1. request' = Sent(cookie) /\ target' \in Pages
      BY <2>2 DEF RenderComesFirst, IsArriving
    <3>2. hopeless' => ~IsLive(cookie)
      BY <2>2 DEF HopelessHasAsked
    <3> QED BY <3>1, <3>2 DEF HopelessHasAsked, Pages, Protected
  <2> QED BY <2>1, <2>2
<1>6. RenderedIsAsOld'
  BY DEF RenderedIsAsOld, IsBorn
<1>7. BackendTypeOK' /\ AnsweredIsDone' /\ DepartedAreDead' /\ SignOutIsFinal'
  BY DEF BackendTypeOK, AnsweredIsDone, IsAnswered, DepartedAreDead, SignOutIsFinal
<1> QED BY <1>1, <1>2, <1>3, <1>4, <1>5, <1>6, <1>7

\* A navigation only opens a gate.
LEMMA NavigateKeeps == ASSUME IInv, NEW p \in Pages, Navigate(p) PROVE IInv'
<1> USE DEF IInv, TypeOK, Navigate, Move, IsRunning, GoTo, GateFor, backendVars, Pages, NoRequest,
    Sent, IsLive, Protected
<1>1. BackendTypeOK'
  BY GateAssumption DEF BackendTypeOK
<1>2. TabTypeOK'
  BY ValuesAreTyped DEF TabTypeOK, BackendTypeOK
<1>3. RenderComesFirst'
  BY DEF RenderComesFirst, IsArriving, NoMutation
<1>4. SessionsAreBorn'
  BY DEF SessionsAreBorn, IsBorn
<1>5. AnswersAreTrue'
  BY DEF AnswersAreTrue
<1>6. HopelessHasAsked'
  <2>1. CASE hopeless' = FALSE
    BY <2>1 DEF HopelessHasAsked
  <2>2. CASE GateFor(p, cookie, request)
    <3>1. target' # "none" /\ request' # NoRequest
      BY <2>2
    <3>2. hopeless' => request' = Sent(cookie) /\ ~IsLive(cookie)
      BY <2>2
    <3>3. IsLive(cookie)' <=> IsLive(cookie)
      OBVIOUS
    <3> QED BY <3>1, <3>2, <3>3 DEF HopelessHasAsked
  <2> QED BY <2>1, <2>2
<1>7. AnsweredIsDone' /\ DepartedAreDead' /\ RenderedIsAsOld' /\ SignOutIsFinal'
  BY DEF AnsweredIsDone, IsAnswered, DepartedAreDead, RenderedIsAsOld, IsBorn, SignOutIsFinal
<1> QED BY <1>1, <1>2, <1>3, <1>4, <1>5, <1>6, <1>7

\* The focus only sends a request.
LEMMA FocusWindowKeeps == ASSUME IInv, FocusWindow PROVE IInv'
<1> USE DEF IInv, TypeOK, FocusWindow, Move, Protected, IsStale, BrowserAge, NoRequest, Sent,
    backendVars
<1>1. BackendTypeOK'
  BY GateAssumption DEF BackendTypeOK
<1>2. TabTypeOK'
  BY ValuesAreTyped DEF TabTypeOK, Pages, BackendTypeOK
<1>3. RenderComesFirst'
  BY DEF RenderComesFirst, IsArriving, Pages, NoMutation
<1>4. SessionsAreBorn'
  BY DEF SessionsAreBorn, IsBorn
<1>5. AnswersAreTrue'
  BY DEF AnswersAreTrue, IsLive
<1>6. HopelessHasAsked'
  BY DEF HopelessHasAsked, IsLive
<1>7. AnsweredIsDone' /\ DepartedAreDead' /\ RenderedIsAsOld' /\ SignOutIsFinal'
  BY DEF AnsweredIsDone, IsAnswered, IsLive, DepartedAreDead, RenderedIsAsOld, IsBorn,
     SignOutIsFinal
<1> QED BY <1>1, <1>2, <1>3, <1>4, <1>5, <1>6, <1>7

\* The backend says what is so.
LEMMA EvaluateKeeps == ASSUME IInv, Evaluate PROVE IInv'
<1> USE DEF IInv, TypeOK, Evaluate, NoRequest, Answers, backendVars, IsLive
<1>1. TabTypeOK'
  BY ValuesAreTyped DEF TabTypeOK, Pages, Requests, Protected, BackendTypeOK
<1>2. RenderComesFirst'
  BY DEF RenderComesFirst, IsArriving, Pages, NoMutation, Protected
<1>3. SessionsAreBorn'
  BY DEF SessionsAreBorn, IsBorn
<1>4. AnswersAreTrue'
  BY DEF AnswersAreTrue, BackendTypeOK, TabTypeOK, Pages, Entries, Requests, Mutations, Protected,
     DepartedAreDead
<1>5. HopelessHasAsked'
  BY DEF HopelessHasAsked
<1>6. /\ BackendTypeOK' /\ AnsweredIsDone' /\ DepartedAreDead' /\ RenderedIsAsOld'
     /\ SignOutIsFinal'
  BY DEF BackendTypeOK, AnsweredIsDone, IsAnswered, DepartedAreDead, RenderedIsAsOld, IsBorn,
     SignOutIsFinal
<1> QED BY <1>1, <1>2, <1>3, <1>4, <1>5, <1>6

\* A retry asks again, with the cookie of its moment.
LEMMA RetryKeeps == ASSUME IInv, Retry PROVE IInv'
<1> USE DEF IInv, TypeOK, Retry, ShouldRetry, backendVars
<1>1. TabTypeOK'
  BY GateAssumption, ValuesAreTyped DEF TabTypeOK, Pages, Requests, Protected, BackendTypeOK
<1>2. RenderComesFirst'
  BY DEF RenderComesFirst, IsArriving, Pages, NoRequest, NoMutation, Protected
<1>3. SessionsAreBorn'
  BY DEF SessionsAreBorn, IsBorn
<1>4. AnswersAreTrue'
  BY DEF AnswersAreTrue, IsLive
<1>5. HopelessHasAsked'
  BY DEF HopelessHasAsked, NoRequest, IsLive, BackendTypeOK, TabTypeOK, Pages, Entries, Requests,
     Mutations, Protected
<1>6. /\ BackendTypeOK' /\ AnsweredIsDone' /\ DepartedAreDead' /\ RenderedIsAsOld'
     /\ SignOutIsFinal'
  BY DEF BackendTypeOK, AnsweredIsDone, IsAnswered, IsLive, DepartedAreDead, RenderedIsAsOld,
     IsBorn, SignOutIsFinal
<1> QED BY <1>1, <1>2, <1>3, <1>4, <1>5, <1>6

\* A mutation submitted has not taken place.
LEMMA SubmitSignInKeeps == ASSUME IInv, SubmitSignIn PROVE IInv'
<1> USE DEF IInv, TypeOK, SubmitSignIn, Move, NoMutation, backendVars
<1>1. BackendTypeOK'
  BY GateAssumption DEF BackendTypeOK
<1>2. TabTypeOK'
  BY ValuesAreTyped DEF TabTypeOK, Pages, Mutations, Protected, BackendTypeOK
<1>3. RenderComesFirst'
  BY DEF RenderComesFirst, IsArriving, Pages, NoRequest, Protected
<1>4. SessionsAreBorn'
  BY DEF SessionsAreBorn, IsBorn
<1>5. AnsweredIsDone'
  BY DEF AnsweredIsDone, IsAnswered, IsLive
<1>6. /\ DepartedAreDead' /\ AnswersAreTrue' /\ HopelessHasAsked' /\ RenderedIsAsOld'
     /\ SignOutIsFinal'
  BY DEF DepartedAreDead, AnswersAreTrue, IsLive, HopelessHasAsked, NoRequest, RenderedIsAsOld,
     IsBorn, SignOutIsFinal
<1> QED BY <1>1, <1>2, <1>3, <1>4, <1>5, <1>6

\* A mutation submitted has not taken place.
LEMMA SubmitSignOutKeeps == ASSUME IInv, SubmitSignOut PROVE IInv'
<1> USE DEF IInv, TypeOK, SubmitSignOut, Move, Protected, NoMutation, backendVars
<1>1. BackendTypeOK'
  BY GateAssumption DEF BackendTypeOK
<1>2. TabTypeOK'
  BY ValuesAreTyped DEF TabTypeOK, Pages, Mutations, BackendTypeOK
<1>3. RenderComesFirst'
  BY DEF RenderComesFirst, IsArriving, Pages, NoRequest
<1>4. SessionsAreBorn'
  BY DEF SessionsAreBorn, IsBorn
<1>5. AnsweredIsDone'
  BY DEF AnsweredIsDone, IsAnswered, IsLive
<1>6. /\ DepartedAreDead' /\ AnswersAreTrue' /\ HopelessHasAsked' /\ RenderedIsAsOld'
     /\ SignOutIsFinal'
  BY DEF DepartedAreDead, AnswersAreTrue, IsLive, HopelessHasAsked, NoRequest, RenderedIsAsOld,
     IsBorn, SignOutIsFinal
<1> QED BY <1>1, <1>2, <1>3, <1>4, <1>5, <1>6

\* A session that is opened is one nobody has named.
LEMMA CommitSignInKeeps == ASSUME IInv, NEW s \in Sessions, CommitSignIn(s) PROVE IInv'
<1> USE DEF IInv, TypeOK, CommitSignIn, IsSent
<1>1. BackendTypeOK'
  BY DEF BackendTypeOK
<1>2. TabTypeOK'
  BY ValuesAreTyped DEF TabTypeOK, Pages, Mutations, Protected, BackendTypeOK
<1>3. RenderComesFirst'
  BY DEF RenderComesFirst, IsArriving, Pages, NoRequest, NoMutation, Protected
<1>4. SessionsAreBorn'
  BY DEF SessionsAreBorn, IsBorn, BackendTypeOK, TabTypeOK, Pages, Entries, Requests, Mutations,
     Protected
<1>5. AnsweredIsDone'
  BY DEF AnsweredIsDone, IsAnswered, IsLive, DepartedAreDead
<1>6. DepartedAreDead'
  BY DEF DepartedAreDead
<1>7. AnswersAreTrue'
  BY DEF AnswersAreTrue, IsLive, SessionsAreBorn, IsBorn
<1>8. HopelessHasAsked'
  BY DEF HopelessHasAsked, NoRequest, IsLive, SessionsAreBorn, IsBorn
<1>9. RenderedIsAsOld'
  BY DEF RenderedIsAsOld, IsBorn
<1>10. SignOutIsFinal'
  BY DEF SignOutIsFinal
<1> QED BY <1>1, <1>2, <1>3, <1>4, <1>5, <1>6, <1>7, <1>8, <1>9, <1>10

\* A session that is closed stays closed.
LEMMA CommitSignOutKeeps == ASSUME IInv, CommitSignOut PROVE IInv'
<1> USE DEF IInv, TypeOK, CommitSignOut, IsSent, Revoked, IsLive
<1>1. BackendTypeOK'
  BY GateAssumption DEF BackendTypeOK
<1>2. TabTypeOK'
  BY ValuesAreTyped DEF TabTypeOK, Pages, Mutations, Protected, BackendTypeOK
<1>3. RenderComesFirst'
  BY DEF RenderComesFirst, IsArriving, Pages, NoRequest, NoMutation, Protected
<1>4. SessionsAreBorn'
  BY DEF SessionsAreBorn, IsBorn, BackendTypeOK, TabTypeOK, Pages, Entries, Requests, Mutations,
     Protected
<1>5. AnsweredIsDone'
  BY DEF AnsweredIsDone, IsAnswered, BackendTypeOK, TabTypeOK, Pages, Entries, Requests,
     Mutations, Protected
<1>6. DepartedAreDead'
  BY DEF DepartedAreDead, BackendTypeOK, TabTypeOK, Pages, Entries, Requests, Mutations, Protected
<1>7. AnswersAreTrue'
  BY DEF AnswersAreTrue, BackendTypeOK, TabTypeOK, Pages, Entries, Requests, Mutations, Protected
<1>8. HopelessHasAsked'
  BY DEF HopelessHasAsked, NoRequest, BackendTypeOK, TabTypeOK, Pages, Entries, Requests,
     Mutations, Protected
<1>9. RenderedIsAsOld'
  BY DEF RenderedIsAsOld, IsBorn, BackendTypeOK, TabTypeOK, Pages, Entries, Requests, Mutations,
     Protected
<1>10. SignOutIsFinal'
  BY DEF SignOutIsFinal
<1> QED BY <1>1, <1>2, <1>3, <1>4, <1>5, <1>6, <1>7, <1>8, <1>9, <1>10

\* A failed mutation leaves no trace in the tab.
LEMMA FailMutationKeeps == ASSUME IInv, FailMutation PROVE IInv'
<1> USE DEF IInv, TypeOK, FailMutation, NoMutation, backendVars
<1>1. TabTypeOK'
  BY ValuesAreTyped DEF TabTypeOK, Pages, Protected, BackendTypeOK
<1>2. RenderComesFirst'
  BY DEF RenderComesFirst, IsArriving, Pages, NoRequest, Protected
<1>3. SessionsAreBorn'
  BY DEF SessionsAreBorn, IsBorn
<1>4. AnsweredIsDone'
  BY DEF AnsweredIsDone, IsAnswered, IsLive
<1>5. /\ BackendTypeOK' /\ DepartedAreDead' /\ AnswersAreTrue' /\ HopelessHasAsked'
     /\ RenderedIsAsOld' /\ SignOutIsFinal'
  BY DEF BackendTypeOK, DepartedAreDead, AnswersAreTrue, IsLive, HopelessHasAsked, NoRequest,
     RenderedIsAsOld, IsBorn, SignOutIsFinal
<1> QED BY <1>1, <1>2, <1>3, <1>4, <1>5

\* The sign-in writes the session it opened.
LEMMA ReceiveSignInKeeps == ASSUME IInv, ReceiveSignIn PROVE IInv'
<1> USE DEF IInv, TypeOK, ReceiveSignIn, IsAnswered, Fetched, NoMutation, GoTo, GateFor,
    backendVars, NoRequest, Sent, IsLive
<1>1. BackendTypeOK'
  BY GateAssumption DEF BackendTypeOK, TabTypeOK, Pages, Entries, Requests, Mutations, Protected
<1>2. TabTypeOK'
  BY ValuesAreTyped DEF TabTypeOK, Pages, Mutations, Protected, BackendTypeOK
<1>3. RenderComesFirst'
  BY DEF RenderComesFirst, IsArriving, Pages, Protected
<1>4. SessionsAreBorn'
  BY DEF SessionsAreBorn, IsBorn
<1>5. AnsweredIsDone'
  BY DEF AnsweredIsDone
<1>6. AnswersAreTrue'
  BY DEF AnswersAreTrue
<1>7. HopelessHasAsked'
  <2>1. hopeless' => ~IsLive(mutation.session) /\ request = NoRequest
    OBVIOUS
  <2>2. ~IsLive(mutation.session) => ~IsLive(mutation.session)'
    OBVIOUS
  <2> QED BY <2>1, <2>2 DEF HopelessHasAsked
<1>8. RenderedIsAsOld'
  BY DEF RenderedIsAsOld, IsBorn, RenderComesFirst, IsArriving, Pages, Protected
<1>9. SignOutIsFinal'
  BY DEF SignOutIsFinal, AnsweredIsDone
<1>10. DepartedAreDead'
  BY DEF DepartedAreDead
<1> QED BY <1>1, <1>2, <1>3, <1>4, <1>5, <1>6, <1>7, <1>8, <1>9, <1>10

\* The sign-out leaves nothing of the session it closed.
LEMMA ReceiveSignOutKeeps == ASSUME IInv, ReceiveSignOut PROVE IInv'
<1> USE DEF IInv, TypeOK, ReceiveSignOut, IsAnswered, NoEntry, NoMutation, GoTo, GateFor,
    AfterRemoval, backendVars, NoRequest, Sent, IsLive
<1>1. BackendTypeOK'
  BY GateAssumption DEF BackendTypeOK
<1>2. TabTypeOK'
  BY ValuesAreTyped DEF TabTypeOK, Pages, Mutations, Protected, BackendTypeOK
<1>3. RenderComesFirst'
  BY DEF RenderComesFirst, IsArriving, Pages, Protected
<1>4. SessionsAreBorn'
  BY DEF SessionsAreBorn, IsBorn
<1>5. AnsweredIsDone'
  BY DEF AnsweredIsDone
<1>6. DepartedAreDead'
  BY DEF DepartedAreDead, AnsweredIsDone, SessionsAreBorn, IsBorn
<1>7. AnswersAreTrue'
  BY DEF AnswersAreTrue
<1>8. HopelessHasAsked'
  BY DEF HopelessHasAsked
<1>9. RenderedIsAsOld'
  BY DEF RenderedIsAsOld, IsBorn
<1>10. SignOutIsFinal'
  BY GateAssumption DEF SignOutIsFinal, BackendTypeOK, TabTypeOK, Pages, Entries, Requests,
     Mutations, Protected
<1> QED BY <1>1, <1>2, <1>3, <1>4, <1>5, <1>6, <1>7, <1>8, <1>9, <1>10

\* Sessions end elsewhere.
LEMMA RevokeKeeps == ASSUME IInv, NEW s \in Sessions, Revoke(s) PROVE IInv'
<1> USE DEF IInv, TypeOK, Revoke, Move, IsLive, Revoked, tabVars
<1>1. BackendTypeOK'
  BY GateAssumption DEF BackendTypeOK
<1>2. TabTypeOK'
  BY ValuesAreTyped DEF TabTypeOK, Pages, Protected, BackendTypeOK
<1>3. RenderComesFirst'
  BY DEF RenderComesFirst, IsArriving, Pages, NoRequest, NoMutation, Protected
<1>4. SessionsAreBorn'
  BY DEF SessionsAreBorn, IsBorn, BackendTypeOK, TabTypeOK, Pages, Entries, Requests, Mutations,
     Protected
<1>5. AnsweredIsDone'
  BY DEF AnsweredIsDone, IsAnswered, BackendTypeOK, TabTypeOK, Pages, Entries, Requests,
     Mutations, Protected
<1>6. DepartedAreDead'
  BY DEF DepartedAreDead, BackendTypeOK, TabTypeOK, Pages, Entries, Requests, Mutations, Protected
<1>7. AnswersAreTrue'
  BY DEF AnswersAreTrue, BackendTypeOK, TabTypeOK, Pages, Entries, Requests, Mutations, Protected
<1>8. HopelessHasAsked'
  BY DEF HopelessHasAsked, NoRequest, BackendTypeOK, TabTypeOK, Pages, Entries, Requests,
     Mutations, Protected
<1>9. RenderedIsAsOld'
  BY DEF RenderedIsAsOld, IsBorn, BackendTypeOK, TabTypeOK, Pages, Entries, Requests, Mutations,
     Protected
<1>10. SignOutIsFinal'
  BY DEF SignOutIsFinal
<1> QED BY <1>1, <1>2, <1>3, <1>4, <1>5, <1>6, <1>7, <1>8, <1>9, <1>10

\* Another tab brings a session nobody here has named.
LEMMA SignInElsewhereKeeps == ASSUME IInv, NEW s \in Sessions, SignInElsewhere(s) PROVE IInv'
<1> USE DEF IInv, TypeOK, SignInElsewhere, Move
<1>1. BackendTypeOK'
  BY GateAssumption DEF BackendTypeOK
<1>2. TabTypeOK'
  BY ValuesAreTyped DEF TabTypeOK, Pages, Protected, BackendTypeOK
<1>3. RenderComesFirst'
  BY DEF RenderComesFirst, IsArriving, Pages, NoRequest, NoMutation, Protected
<1>4. SessionsAreBorn'
  BY DEF SessionsAreBorn, IsBorn, BackendTypeOK, TabTypeOK, Pages, Entries, Requests, Mutations,
     Protected
<1>5. AnsweredIsDone'
  BY DEF AnsweredIsDone, IsAnswered, IsLive, SessionsAreBorn, IsBorn
<1>6. DepartedAreDead'
  BY DEF DepartedAreDead
<1>7. AnswersAreTrue'
  BY DEF AnswersAreTrue, IsLive, SessionsAreBorn, IsBorn
<1>8. HopelessHasAsked'
  BY DEF HopelessHasAsked, NoRequest, IsLive
<1>9. RenderedIsAsOld'
  BY DEF RenderedIsAsOld, IsBorn
<1>10. SignOutIsFinal'
  BY DEF SignOutIsFinal
<1> QED BY <1>1, <1>2, <1>3, <1>4, <1>5, <1>6, <1>7, <1>8, <1>9, <1>10

\* Nothing revoked grows older than what was rendered before.
LEMMA TickKeeps == ASSUME IInv, Tick PROVE IInv'
<1> USE DEF IInv, TypeOK, Tick, Older
<1>1. BackendTypeOK'
  BY GateAssumption DEF BackendTypeOK
<1>2. TabTypeOK'
  BY GateAssumption, ValuesAreTyped DEF TabTypeOK, Pages, Entries, Protected, BackendTypeOK
<1>3. SessionsAreBorn'
  BY DEF SessionsAreBorn, IsBorn
<1>4. RenderedIsAsOld'
  BY DEF RenderedIsAsOld, IsBorn, BackendTypeOK, TabTypeOK, Pages, Entries, Requests, Mutations,
     Protected
<1>5. SignOutIsFinal'
  BY DEF SignOutIsFinal
<1>6. /\ RenderComesFirst' /\ AnsweredIsDone' /\ DepartedAreDead' /\ AnswersAreTrue'
     /\ HopelessHasAsked'
  BY DEF RenderComesFirst, IsArriving, Pages, NoRequest, NoMutation, Protected, AnsweredIsDone,
     IsAnswered, IsLive, DepartedAreDead, AnswersAreTrue, HopelessHasAsked
<1> QED BY <1>1, <1>2, <1>3, <1>4, <1>5, <1>6

\* What the server may render: nothing, or the live session of the cookie.
LEMMA RenderedIsLive ==
    ASSUME IInv, NEW answer \in Answers(cookie), RenderOnServer(answer)
    PROVE  /\ entry' \in {entry, NoEntry}
               \/ (entry' = Fetched(cookie, TRUE) /\ cookie \in Sessions /\ life[cookie] = "live")
           /\ page' = "arriving" => entry' \in {NoEntry, Fetched(cookie, TRUE)}
           /\ \/ page' = "error" /\ target' = "none"
              \/ IsArriving' /\ target' \in Pages
<1>1. page = "loading" /\ target \in Pages
  BY DEF RenderOnServer, IInv, RenderComesFirst, IsArriving
<1>2. answer = "user" => cookie \in Sessions /\ life[cookie] = "live"
  BY DEF Answers, IsLive, IInv, TypeOK, BackendTypeOK
<1>3. Destination(target, Outcome(answer), cookie) \in Pages \cup {"aborted"}
  BY <1>1 DEF Answers, Destination, RedirectIfSession, RequireSession, RequireAdmin, Outcome,
     Pages, Protected
<1> QED BY <1>1, <1>2, <1>3 DEF RenderOnServer, IsArriving, Pages, Protected

\* A render shows only what the gates let by.
LEMMA RenderKeeps == ASSUME IInv, Render PROVE IInv'
<1>1. PICK answer \in Answers(cookie) : RenderOnServer(answer)
  BY DEF Render
<1> USE RenderedIsLive, <1>1 DEF IInv, TypeOK, RenderOnServer
<1>2. TabTypeOK'
  BY ValuesAreTyped DEF TabTypeOK, Pages
<1>3. RenderComesFirst'
  BY DEF RenderComesFirst, IsArriving
<1>4. HopelessHasAsked'
  BY DEF HopelessHasAsked, RenderComesFirst, IsArriving
<1>5. RenderedIsAsOld'
  <2>1. CASE entry' = entry
    BY <2>1 DEF RenderedIsAsOld, IsBorn, Fetched, NoEntry, backendVars
  <2>2. CASE entry' = NoEntry
    BY <2>2 DEF RenderedIsAsOld, NoEntry
  <2>3. CASE entry' = Fetched(cookie, TRUE) /\ cookie \in Sessions /\ life[cookie] = "live"
    BY <2>3, GateAssumption DEF RenderedIsAsOld, SessionsAreBorn, IsBorn, Fetched, backendVars
  <2> QED BY <2>1, <2>2, <2>3
<1>6. SignOutIsFinal'
  BY GateAssumption DEF SignOutIsFinal, DepartedAreDead, TabTypeOK, Fetched, NoEntry
<1>7. BackendTypeOK' /\ SessionsAreBorn' /\ AnsweredIsDone' /\ DepartedAreDead' /\ AnswersAreTrue'
  BY DEF BackendTypeOK, backendVars, SessionsAreBorn, IsBorn, AnsweredIsDone, IsAnswered, IsLive,
     DepartedAreDead, AnswersAreTrue
<1> QED BY <1>2, <1>3, <1>4, <1>5, <1>6, <1>7

\* A gate lets by, sends to a page of its own, or aborts, and only 401 makes it send to the login
\* page; an aborted navigation arrives nowhere new.
LEMMA GatesDecide ==
    ASSUME NEW p \in Pages, NEW answer, NEW c
    PROVE  LET destination == Destination(p, Outcome(answer), c)
           IN /\ destination \in Pages \cup {"aborted"}
              /\ Arrival(destination) \in Pages \cup {"error", page}
              /\ answer # "user" => destination \in {"login", "aborted"}
              /\ p # "login" /\ destination = "login" => answer = "unauthorized"
              /\ destination = "aborted" => answer # "unauthorized"
BY DEF Destination, RedirectIfSession, RequireSession, RequireAdmin, Outcome, Arrival, Pages,
   Protected

\* An answer fills the entry with what the backend said, and the gate waits no more, or anew.
LEMMA DeliverKeeps == ASSUME IInv, Deliver PROVE IInv'
<1> USE DEF IInv, TypeOK, Deliver
<1>1. ~IsArriving
  BY DEF RenderComesFirst, NoRequest
<1>2. request' = NoRequest \/ request' = Sent(cookie)
  BY DEF GateFor
<1>3. entry' = [entry EXCEPT !.status = "error"]
      \/ (request.answer = "user" /\ entry' = Fetched(request.cookie, FALSE))
  OBVIOUS
<1>4. TabTypeOK'
  <2>1. page' \in Pages \cup {"error"} \cup {page} /\ target' \in Pages \cup {"none"}
    <3>1. CASE target = "none"
      BY <3>1 DEF TabTypeOK
    <3>2. CASE target \in Pages
      BY <3>2, GatesDecide DEF GateFor, IsOver, Pages, Protected
    <3> QED BY <3>1, <3>2 DEF TabTypeOK
  <2>2. entry' \in Entries
    BY <1>3, ValuesAreTyped DEF TabTypeOK, Entries, AnswersAreTrue
  <2>3. hopeless' \in BOOLEAN
    BY DEF TabTypeOK, GateFor
  <2> QED BY <1>2, <2>1, <2>2, <2>3, ValuesAreTyped DEF TabTypeOK, BackendTypeOK
<1>5. ~IsArriving'
  <2>1. page' \in Pages \cup {"error", page}
    BY GatesDecide DEF TabTypeOK
  <2> QED BY <1>1, <2>1 DEF IsArriving, Pages, Protected
<1>6. SessionsAreBorn' /\ AnswersAreTrue'
  BY <1>2 DEF SessionsAreBorn, IsBorn, AnswersAreTrue, Sent, NoRequest, backendVars
<1>7. HopelessHasAsked'
  <2>1. CASE UNCHANGED <<page, target, hopeless>> /\ target = "none"
    BY <2>1 DEF HopelessHasAsked
  <2>2. CASE hopeless' = FALSE
    BY <2>2 DEF HopelessHasAsked
  <2>3. CASE \E p : p # "none" /\ GateFor(p, cookie, NoRequest)
    <3>1. request' = Sent(cookie) /\ target' # "none" /\ (hopeless' => ~IsLive(cookie))
      BY <2>3 DEF GateFor
    <3> QED BY <3>1 DEF HopelessHasAsked, Sent, NoRequest, IsLive, backendVars
  <2>4. Destination(target, Outcome(request.answer), request.cookie) # "none" \/ target = "none"
    BY DEF Destination, RedirectIfSession, RequireSession, RequireAdmin, Outcome
  <2> QED BY <2>1, <2>2, <2>3, <2>4
<1>8. RenderedIsAsOld'
  BY <1>3, <1>5 DEF IsArriving, RenderedIsAsOld, IsBorn, Fetched, backendVars, TabTypeOK, Entries
<1>9. SignOutIsFinal'
  BY <1>3 DEF SignOutIsFinal, AnswersAreTrue, Fetched, TabTypeOK, Entries
<1>10. BackendTypeOK' /\ AnsweredIsDone' /\ DepartedAreDead'
  BY DEF BackendTypeOK, backendVars, AnsweredIsDone, IsAnswered, IsLive, DepartedAreDead
<1> QED BY <1>4, <1>5, <1>6, <1>7, <1>8, <1>9, <1>10 DEF RenderComesFirst

----------------------------------------------------------------------------

\* A visitor opens a page: nothing has been asked, and the cookie names a live session or none.
LEMMA InitEstablishes == Init => IInv
<1> SUFFICES ASSUME Init PROVE IInv OBVIOUS
<1>1. TypeOK
  <2>1. BackendTypeOK BY GateAssumption DEF Init, BackendTypeOK
  <2>2. TabTypeOK BY ValuesAreTyped DEF Init, TabTypeOK
  <2> QED BY <2>1, <2>2 DEF TypeOK
<1>2. RenderComesFirst /\ AnsweredIsDone /\ AnswersAreTrue /\ HopelessHasAsked /\ RenderedIsAsOld
  BY DEF Init, RenderComesFirst, AnsweredIsDone, IsAnswered, AnswersAreTrue, HopelessHasAsked,
     RenderedIsAsOld, NoRequest, NoMutation, NoEntry
<1>3. SessionsAreBorn /\ DepartedAreDead /\ SignOutIsFinal
  BY DEF Init, SessionsAreBorn, IsBorn, DepartedAreDead, SignOutIsFinal, NoRequest, NoMutation,
     NoEntry
<1> QED BY <1>1, <1>2, <1>3 DEF IInv

\* No step leaves the invariant.
LEMMA NextKeeps == IInv /\ [Next]_vars => IInv'
<1> SUFFICES ASSUME IInv, [Next]_vars PROVE IInv' OBVIOUS
<1>1. CASE UNCHANGED vars
  BY <1>1 DEF vars, backendVars, tabVars, IInv, TypeOK, BackendTypeOK, TabTypeOK, RenderComesFirst,
     IsArriving, SessionsAreBorn, IsBorn, AnsweredIsDone, IsAnswered, IsLive, DepartedAreDead,
     AnswersAreTrue, HopelessHasAsked, RenderedIsAsOld, SignOutIsFinal
<1>2. CASE Settle
  BY <1>2, RenderKeeps, HydrateKeeps, EvaluateKeeps, RetryKeeps, DeliverKeeps DEF Settle
<1>3. CASE Mutate
  BY <1>3, SubmitSignInKeeps, SubmitSignOutKeeps, CommitSignInKeeps, CommitSignOutKeeps,
     FailMutationKeeps, ReceiveSignInKeeps, ReceiveSignOutKeeps DEF Mutate
<1>4. ASSUME NEW p \in Pages, LoadPage(p) \/ Navigate(p) PROVE IInv'
  BY <1>4, LoadPageKeeps, NavigateKeeps
<1>5. ASSUME NEW s \in Sessions, Revoke(s) \/ SignInElsewhere(s) PROVE IInv'
  BY <1>5, RevokeKeeps, SignInElsewhereKeeps
<1> QED BY <1>1, <1>2, <1>3, <1>4, <1>5, FocusWindowKeeps, TickKeeps DEF Next

\* The inductive invariant: what the tab holds and waits for agrees with what the backend has said.
THEOREM Invariance == Spec => []IInv
BY InitEstablishes, NextKeeps, PTL DEF Spec

\* The state keeps its type for any sessions, clocks and bounds.
THEOREM TypeCorrect == Spec => []TypeOK
<1>1. IInv => TypeOK BY DEF IInv
<1> QED BY <1>1, Invariance, PTL

\* Once this tab has signed out of a session no late answer brings it back.
THEOREM SignOutsAreFinal == Spec => []SignOutIsFinal
<1>1. IInv => SignOutIsFinal BY DEF IInv
<1> QED BY <1>1, Invariance, PTL

----------------------------------------------------------------------------
(* What no step may do. *)

\* An answered mutation is over once it is received.
LEMMA ReceivedIsOver == ReceiveSignIn \/ ReceiveSignOut => ~GoesOnByItself
<1>1. IsAnswered("signIn") \/ IsAnswered("signOut") => mutation.kind # "none"
  BY DEF IsAnswered
<1>2. ReceiveSignIn \/ ReceiveSignOut => mutation' = NoMutation
  BY DEF ReceiveSignIn, ReceiveSignOut
<1>3. NoMutation.kind = "none"
  BY DEF NoMutation
<1> QED BY <1>1, <1>2, <1>3 DEF ReceiveSignIn, ReceiveSignOut, GoesOnByItself

\* A gate that asked when the visitor's session was over never lets them in: at most they stay where
\* they were, without a success of the session query, while the backend cannot say.
THEOREM RevokedAreTurnedAway == Spec => RevokedIsTurnedAway
<1>1. ASSUME IInv, [Next]_vars, hopeless, target # "none", target' = "none", GoesOnByItself,
             page' \in Protected
      PROVE  page' = page /\ entry'.status = "error" /\ request.answer # "unauthorized"
  <2>1. ~IsArriving /\ target \in Pages /\ entry \in Entries
    BY <1>1 DEF IInv, RenderComesFirst, TypeOK, TabTypeOK
  <2>2. CASE Deliver
    <3> DEFINE destination == Destination(target, Outcome(request.answer), request.cookie)
    <3>1. request.answer # "user" /\ entry' = [entry EXCEPT !.status = "error"]
      BY <1>1, <2>2 DEF Deliver, IInv, HopelessHasAsked
    <3>2. destination \in {"login", "aborted"}
      BY <2>1, <3>1, GatesDecide
    <3>3. page' = Arrival(destination)
      BY <1>1, <2>2, <3>2 DEF Deliver, GateFor
    <3>4. destination = "aborted" => request.answer # "unauthorized"
      BY <2>1, GatesDecide
    <3>5. destination = "aborted" /\ page' = page
      BY <1>1, <3>2, <3>3 DEF Arrival, Protected
    <3> QED BY <2>1, <3>1, <3>4, <3>5 DEF Entries
  <2>3. ~Render /\ ~Hydrate
    BY <2>1 DEF Render, RenderOnServer, Hydrate, IsArriving
  <2>4. \A p \in Pages : ~LoadPage(p) /\ ~Navigate(p)
    BY <1>1, GateAssumption DEF LoadPage, Navigate, Move, GoesOnByItself, IInv, TypeOK,
       BackendTypeOK
  <2>5. ~ReceiveSignIn /\ ~ReceiveSignOut
    BY <1>1, ReceivedIsOver
  <2>6. CASE UNCHANGED target
    BY <1>1, <2>6
  <2>7. Next => Deliver \/ UNCHANGED target
    BY <2>3, <2>4, <2>5 DEF Next, Settle, Mutate, Evaluate, Retry, SubmitSignIn, SubmitSignOut,
       CommitSignIn, CommitSignOut, FailMutation, FocusWindow, Revoke, SignInElsewhere, Tick,
       tabVars
  <2> QED BY <1>1, <2>2, <2>6, <2>7 DEF vars, tabVars
<1>2. IInv /\ [Next]_vars =>
        (hopeless /\ target # "none" /\ target' = "none" /\ GoesOnByItself =>
           \/ page' \notin Protected
           \/ page' = page /\ entry'.status = "error" /\ request.answer # "unauthorized")
  BY <1>1
<1> QED BY <1>2, Invariance, PTL DEF Spec, RevokedIsTurnedAway

\* A backend that is down, or refuses for another reason, signs nobody out.
THEOREM OutagesSignNobodyOut == Spec => OutageSignsNobodyOut
<1>1. ASSUME IInv, [Next]_vars, IsBounced
      PROVE  ~IsLive(IF page = "loading" THEN cookie ELSE request.cookie)
  <2>1. /\ target \in Protected /\ target # "login" /\ page # "login"
        /\ target' = "login" \/ page' = "login"
        /\ GoesOnByItself
    BY <1>1 DEF IsBounced, Protected
  <2>2. CASE Render
    BY <1>1, <2>1, <2>2 DEF Render, RenderOnServer, Answers, Destination, RedirectIfSession,
       RequireSession, RequireAdmin, Outcome, IsLive, Protected
  <2>3. CASE Deliver
    <3> DEFINE destination == Destination(target, Outcome(request.answer), request.cookie)
    <3>1. destination = "login"
      BY <2>1, <2>3 DEF Deliver, GateFor, Arrival
    <3>2. request.answer = "unauthorized"
      BY <2>1, <3>1, GatesDecide DEF Pages
    <3>3. page # "loading"
      BY <1>1, <3>2 DEF IInv, RenderComesFirst, IsArriving, NoRequest
    <3> QED BY <1>1, <3>2, <3>3 DEF IInv, AnswersAreTrue
  <2>4. ~Hydrate
    BY <2>1 DEF Hydrate, GateFor
  <2>5. \A p \in Pages : ~LoadPage(p) /\ ~Navigate(p)
    BY <1>1, <2>1, GateAssumption DEF LoadPage, Navigate, Move, GoesOnByItself, IInv, TypeOK,
       BackendTypeOK
  <2>6. ~ReceiveSignIn /\ ~ReceiveSignOut
    BY <2>1, ReceivedIsOver
  <2>7. Next => Render \/ Deliver \/ UNCHANGED <<page, target>>
    BY <2>4, <2>5, <2>6 DEF Next, Settle, Mutate, Evaluate, Retry, SubmitSignIn, SubmitSignOut,
       CommitSignIn, CommitSignOut, FailMutation, FocusWindow, Revoke, SignInElsewhere, Tick,
       tabVars
  <2> QED BY <1>1, <2>1, <2>2, <2>3, <2>7 DEF vars, tabVars
<1> QED BY <1>1, Invariance, PTL DEF Spec, OutageSignsNobodyOut

\* A page shown without asking was signed in at most a window ago, by clocks that may disagree.
THEOREM TrustStaysBounded == Spec => TrustIsBounded
<1>1. ASSUME IInv, [Next]_vars, page = "arriving", page' \in Protected, target' = "none"
      PROVE  IsLive(entry.session) \/ deadFor[entry.session] < Window + Behind(skew)
  <2>1. Next => Hydrate \/ UNCHANGED page \/ \E p \in Pages : LoadPage(p)
    <3>1. ~Deliver /\ ~Render
      <4>1. request.answer = "none"
        BY <1>1 DEF IInv, RenderComesFirst, IsArriving, NoRequest
      <4> QED BY <1>1, <4>1 DEF Deliver, Render, RenderOnServer
    <3>2. \A p \in Pages : ~Navigate(p)
      BY <1>1 DEF Navigate, IsRunning, Pages, Protected
    <3> QED BY <3>1, <3>2 DEF Next, Settle, Mutate, Evaluate, Retry, SubmitSignIn, SubmitSignOut,
      CommitSignIn, CommitSignOut, FailMutation, ReceiveSignIn, ReceiveSignOut, FocusWindow,
      Revoke, SignInElsewhere, Tick, tabVars
  <2>2. CASE Hydrate
    <3>1. HasRecentServerSession
      BY <1>1, <2>2 DEF Hydrate, GateFor, Protected, IInv, RenderComesFirst, IsArriving, Pages
    <3>2. entry.isServers /\ IsBorn(entry.session) /\ deadFor[entry.session] <= entry.age
      BY <1>1, <3>1 DEF HasRecentServerSession, IInv, RenderedIsAsOld
    <3>3. entry.age + skew < Window
      BY <3>1, <3>2 DEF HasRecentServerSession, BrowserAge
    <3>4. deadFor[entry.session] \in Int /\ entry.age \in Int /\ skew \in Int /\ Window \in Int
      BY <1>1, <3>1, GateAssumption DEF HasRecentServerSession, IInv, TypeOK, BackendTypeOK,
         TabTypeOK, Entries
    <3> QED BY <3>2, <3>3, <3>4 DEF Behind
  <2>3. CASE UNCHANGED page
    BY <1>1, <2>3 DEF Protected
  <2>4. CASE \E p \in Pages : LoadPage(p)
    BY <1>1, <2>4 DEF LoadPage, Protected
  <2> QED BY <1>1, <2>1, <2>2, <2>3, <2>4 DEF vars, tabVars
<1> QED BY <1>1, Invariance, PTL DEF Spec, TrustIsBounded
=============================================================================
