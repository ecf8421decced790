----------------------------- MODULE F2fJourney -----------------------------
(***************************************************************************)
(* The whole journey of a session: the API, the Yoti callbacks and the     *)
(* expiry schedule interleaved on the same tables, and what holds of it.   *)
(***************************************************************************)
EXTENDS JourneyApi, YotiCallbacks, ExpiredSessions

Init == ServiceInit

Next == ServiceNext \/ ApiNext \/ CallbackNext \/ ExpiryNext

Spec == Init /\ [][Next]_vars

\* The schedule keeps running and its Lambda finishes; the indexes catch up.
\* Nothing is assumed of users, of Yoti, or of the clock.
Fairness ==
  /\ WF_vars(ExpiryQuery)
  /\ \A s \in Sessions : /\ WF_vars(ExpiryNotify(s))
                         /\ WF_vars(ExpiryMark(s))
                         /\ WF_vars(Propagate(s))

FairSpec == Spec /\ Fairness

-----------------------------------------------------------------------------
(* Safety, whatever the interleaving, the lag of the reads and the faults. *)

Credentials == {m \in toCore : m.kind = "credential"}

Audited(event, s) == [event |-> event, sid |-> s] \in audit

LetterStarted(s) == \E letter \in letters :
  letter.sid = s /\ yoti[letter.yotiSessionId].owner = s

\* A credential reaches IPV Core only for a session whose documents were
\* reported uploaded in an F2F_DOCUMENT_UPLOADED event: that event is sent before
\* F2F_YOTI_SESSION_COMPLETE is written, and nothing else writes that state.
CredentialAfterUpload ==
  \A m \in Credentials : Audited("F2F_DOCUMENT_UPLOADED", m.sid)

\* The credential made from a Yoti session goes to the user that Yoti session was
\* opened for, whatever callbacks, retries and document selections interleave.
CredentialForOwner ==
  \A m \in Credentials : yoti[m.yotiSessionId].owner = m.sid

\* A session in F2F_CREDENTIAL_ISSUED has had a credential sent to IPV Core.
IssuedMeansSent ==
  \A s \in Sessions :
    session[s].authSessionState = "F2F_CREDENTIAL_ISSUED" =>
      \E m \in Credentials : m.sid = s

\* An authorization code exists only for a user whose instructions letter was
\* started, for a Yoti session that is theirs: /documentSelection starts the letter
\* before it writes the state /authorization asks for.
CodeAfterLetter ==
  \A c \in Codes : codes[c] # None => LetterStarted(codes[c])

\* A token request ends up on the session its code was generated for, although
\* the code is looked up in an index that may be behind the table.
TokenForCodeOwner ==
  \A i \in Invocations :
    At(i, "token:update") => codes[invocation[i].code] = invocation[i].sid

\* The Yoti sessions of two letters were both opened for s.
InstructedTwice(s) ==
  \E a, b \in letters :
    /\ a.yotiSessionId # b.yotiSessionId
    /\ yoti[a.yotiSessionId].owner = s /\ yoti[b.yotiSessionId].owner = s

\* A document selection that comes late starts a journey again: its code, visit or
\* credential is behind it, or its Yoti session is replaced.
StartsAgain(s) ==
  \/ /\ session[s].authSessionState \in
          {"F2F_AUTH_CODE_ISSUED", "F2F_ACCESS_TOKEN_ISSUED", "F2F_POST_OFFICE_VISITED",
           "F2F_YOTI_SESSION_COMPLETE", "F2F_CREDENTIAL_ISSUED"}
     /\ session'[s].authSessionState = "F2F_YOTI_SESSION_CREATED"
  \/ /\ session[s].yotiSessionId # None
     /\ session'[s].yotiSessionId \notin {session[s].yotiSessionId, None}

\* No journey starts again unless its user was given two letters: whatever overlaps,
\* fails or lags, the write that takes a row back is of a second document selection,
\* never the same one over what has happened since. updateSessionWithYotiIdAndStatus
\* has no condition that says so.
RestartMeansTwoLetters ==
  [][\A s \in Sessions : StartsAgain(s) => InstructedTwice(s)]_vars

\* IPV Core is told that the time to visit has run out only of sessions created
\* more than YotiSessionTtl days ago.
ExpiredOnlyWhenOld ==
  \A m \in toCore :
    /\ m.kind = "expired"
    /\ session[m.sid].createdDate # None
    => session[m.sid].createdDate + YotiSessionTtl < now

\* The service keeps the promise of ServicePromise, step by step.
Promise == INSTANCE ServicePromise WITH
  owner      <- [y \in YotiSessions |-> yoti[y].owner],
  instructed <- {letter.sid : letter \in letters},
  authorised <- codes,
  uploaded   <- {s \in Sessions : Audited("F2F_DOCUMENT_UPLOADED", s)},
  delivered  <- {[sid |-> m.sid, yotiSessionId |-> m.yotiSessionId] : m \in Credentials}

\* Codes, uploads and credentials follow each other as IPV Core is promised: every
\* step of the handlers is a step of ServicePromise or leaves it alone.
KeepsPromise == Promise!PromiseSpec

-----------------------------------------------------------------------------
(* What it takes more to hold.                                             *)

\* IPV Core gets a credential or an error for a Yoti session, never both. It takes
\* a session_completion message that is not delivered twice.
AnswerIsFinal ==
  \A m \in Credentials, n \in toCore :
    n.kind = "error" => n.yotiSessionId # m.yotiSessionId

\* A code is exchanged once. It takes a single invocation at a time and a table
\* that reads see at once: the update that removes the code has no condition.
CodeExchangedOnce == \A c \in Codes : tokens[c] <= 1

\* A journey opens one Yoti session. It takes the same, and no failed call.
OneYotiSession ==
  \A y, z \in YotiSessions :
    yoti[y].owner # None /\ yoti[y].owner = yoti[z].owner => y = z

\* The stages of a journey; an aborted or expired session is past all others.
Stage ==
  [F2F_SESSION_CREATED |-> 0, F2F_YOTI_SESSION_CREATED |-> 1,
   F2F_AUTH_CODE_ISSUED |-> 2, F2F_ACCESS_TOKEN_ISSUED |-> 3,
   F2F_POST_OFFICE_VISITED |-> 4, F2F_YOTI_SESSION_COMPLETE |-> 5,
   F2F_CREDENTIAL_ISSUED |-> 6, F2F_CRI_SESSION_ABORTED |-> 7,
   F2F_SESSION_EXPIRED |-> 7]

\* Only a Yoti callback takes a session to an earlier stage, or out of an abort or
\* an expiry: the endpoints look at the state first. Again for one invocation at a
\* time and consistent reads, and while no sweep overlaps it.
OnlyCallbacksGoBack ==
  [][\A s \in Sessions :
       LET before == session[s].authSessionState
           after  == session'[s].authSessionState
       IN  before # None /\ after # None /\ Stage[after] < Stage[before]
             => after \in {"F2F_POST_OFFICE_VISITED", "F2F_YOTI_SESSION_COMPLETE",
                           "F2F_CREDENTIAL_ISSUED"}]_vars

\* The Yoti session of a row never changes or disappears while the row exists,
\* when one invocation runs at a time and reads are consistent.
YotiSessionIsStable ==
  [][\A s \in Sessions :
       session[s].yotiSessionId # None /\ session'[s] # NoRow
         => session'[s].yotiSessionId = session[s].yotiSessionId]_vars

\* A session marked expired has been reported to IPV Core, when no call fails.
MarkedMeansReported ==
  \A s \in Sessions : session[s].expiredNotificationSent =>
    [kind |-> "expired", sid |-> s, yotiSessionId |-> None] \in toCore

\* The schedule gets to every overdue session, unless something else moves it on.
OverdueIsSwept ==
  \A s \in Sessions : Overdue(session[s]) ~> ~Overdue(session[s])

\* And IPV Core hears of it, or the session was moved on by something else.
OverdueIsReported ==
  \A s \in Sessions :
    Overdue(session[s]) ~>
      \/ [kind |-> "expired", sid |-> s, yotiSessionId |-> None] \in toCore
      \/ session[s].authSessionState \notin SweptStates \cup {"F2F_SESSION_EXPIRED"}

-----------------------------------------------------------------------------
(* What the repository says and the code does not do.                      *)

\* getSessionByYotiId: "Session with has expired" when expiryDate has passed.
ExpiredIsRefusedToCallbacks ==
  [][\A i \in Invocations :
       /\ IsIdle(i)
       /\ invocation'[i].at \in {"visit:update", "thankYou:audit", "completion:yoti"}
       => ~Expired(session[invocation'[i].sid])]_vars

\* ExpiredSessionsProcessor tells IPV Core "Time given to visit PO has expired".
ExpiredMeansTimeIsOver ==
  \A m \in toCore : m.kind = "expired" =>
    \A y \in YotiSessions : yoti[y].owner = m.sid => YotiDeadline(y) < now
=============================================================================
