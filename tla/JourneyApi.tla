----------------------------- MODULE JourneyApi -----------------------------
(***************************************************************************)
(* The endpoints the user's browser and IPV Core call: POST /session,      *)
(* POST /documentSelection, GET /authorization, POST /token and            *)
(* POST /abort. A request that is refused before it wrote anything changes *)
(* no state and is no step here.                                           *)
(***************************************************************************)
EXTENDS F2fService

-----------------------------------------------------------------------------
(* SessionRequestProcessor.processRequest                                  *)

\* The signed request is valid: a fresh id, and its row in the session table.
SessionCreate(i, s) ==
  /\ IsIdle(i)
  /\ client[s] = "none"
  /\ createAuthSession(s)
  /\ client' = [client EXCEPT ![s] = "pending"]
  /\ invocation' = [invocation EXCEPT ![i] =
                      [Idle EXCEPT !.at = "session:person", !.sid = s]]
  /\ UNCHANGED <<now, person, codes, tokens, yotiVars, expiry, sinks, faults>>

\* The person row, F2F_CRI_START, and 200 with the session id.
SessionSavePerson(i) ==
  LET s == invocation[i].sid IN
  /\ At(i, "session:person")
  /\ person' = [person EXCEPT ![s] = [claims |-> TRUE, pdfPreference |-> None]]
  /\ SendToTxmaOrLog(s, {"F2F_CRI_START"})
  /\ client' = [client EXCEPT ![s] = "known"]
  /\ Return(i)
  /\ UNCHANGED <<now, session, stale, codes, tokens, yotiVars, expiry, toCore>>

-----------------------------------------------------------------------------
(* DocumentSelectionRequestProcessor.processRequest                        *)

\* getSessionById: the version read decides the rest. A missing row is not
\* refused yet; an expired one is.
DocSelectRead(i, s, pref) ==
  /\ IsIdle(i)
  /\ client[s] = "known"
  /\ \E row \in Visible(s) :
       /\ ~Expired(row)
       /\ invocation' = [invocation EXCEPT ![i] =
                           [Idle EXCEPT !.at = "docSelect:preference", !.sid = s,
                                        !.row = row, !.pdfPreference = pref]]
  /\ UNCHANGED <<now, tables, clientVars, yotiVars, expiry, sinks, faults>>

\* Mutant: the Yoti session already there is not looked at.
MayCreateYotiSessionAgain(row) == row.authSessionState # None

\* The condition under which a Yoti session is created, on the row read before.
MayCreateYotiSession(row) ==
  /\ row.authSessionState = "F2F_SESSION_CREATED"
  /\ row.yotiSessionId = None

\* Mutant: the preference of the request is forgotten on the way.
DocSelectPreferenceForgets(i) ==
  LET s == invocation[i].sid IN
  /\ At(i, "docSelect:preference")
  /\ person' = [person EXCEPT ![s].pdfPreference = invocation[i].pdfPreference]
  /\ IF person[s].claims /\ MayCreateYotiSession(invocation[i].row)
       THEN invocation' = [invocation EXCEPT ![i] =
                             [Idle EXCEPT !.at = "docSelect:yoti", !.sid = s]]
       ELSE Return(i)
  /\ UNCHANGED <<now, session, stale, clientVars, yotiVars, expiry, sinks, faults>>

\* saveUserPdfPreferences writes, whatever the state of the session; only then
\* are the person row, the session row and its state looked at.
DocSelectPreference(i) ==
  LET s == invocation[i].sid IN
  /\ At(i, "docSelect:preference")
  /\ person' = [person EXCEPT ![s].pdfPreference = invocation[i].pdfPreference]
  /\ IF person[s].claims /\ MayCreateYotiSession(invocation[i].row)
       THEN invocation' = [invocation EXCEPT ![i].at = "docSelect:yoti",
                                             ![i].row = NoRow]
       ELSE Return(i)
  /\ UNCHANGED <<now, session, stale, clientVars, yotiVars, expiry, sinks, faults>>

\* createSessionGenerateInstructions: Yoti opens a session; if reading it back
\* or generating the instructions then fails, it stays open and unused.
DocSelectYoti(i, y) ==
  /\ At(i, "docSelect:yoti")
  /\ yoti[y].owner = None
  /\ yoti' = [yoti EXCEPT ![y] = [owner |-> invocation[i].sid,
                                  createdDate |-> now, progress |-> "open"]]
  /\ \/ /\ invocation' = [invocation EXCEPT ![i].at = "docSelect:letter",
                                            ![i].yotiSessionId = y]
        /\ UNCHANGED faults
     \/ Return(i) /\ Fault
  /\ UNCHANGED <<now, tables, clientVars, letters, callbacks, expiry, sinks>>

\* Mutant: a letter that cannot be started is logged, and the user let through.
DocSelectLetterOrLog(i) ==
  /\ At(i, "docSelect:letter")
  /\ \/ /\ letters' = letters \cup {[sid |-> invocation[i].sid,
                                     yotiSessionId |-> invocation[i].yotiSessionId,
                                     pdfPreference |-> invocation[i].pdfPreference]}
        /\ UNCHANGED faults
     \/ Fault /\ UNCHANGED letters
  /\ Goto(i, "docSelect:yotiId")
  /\ UNCHANGED <<now, tables, clientVars, yoti, callbacks, expiry, sinks>>

\* startStateMachine, before the session row knows the Yoti session.
DocSelectLetter(i) ==
  /\ At(i, "docSelect:letter")
  /\ letters' = letters \cup {[sid |-> invocation[i].sid,
                               yotiSessionId |-> invocation[i].yotiSessionId,
                               pdfPreference |-> invocation[i].pdfPreference]}
  /\ Goto(i, "docSelect:yotiId")
  /\ UNCHANGED <<now, tables, clientVars, yoti, callbacks, expiry, sinks, faults>>

DocSelectYotiId(i) ==
  /\ At(i, "docSelect:yotiId")
  /\ updateSessionWithYotiIdAndStatus(invocation[i].sid, invocation[i].yotiSessionId)
  /\ Goto(i, "docSelect:ttl")
  /\ UNCHANGED <<now, person, clientVars, yotiVars, expiry, sinks, faults>>

DocSelectTtl(i) ==
  /\ At(i, "docSelect:ttl")
  /\ updateSessionTtl(invocation[i].sid)
  /\ Goto(i, "docSelect:document")
  /\ UNCHANGED <<now, person, clientVars, yotiVars, expiry, sinks, faults>>

\* documentUsed, F2F_YOTI_START and 200.
DocSelectDocument(i) ==
  /\ At(i, "docSelect:document")
  /\ addUsersSelectedDocument(invocation[i].sid)
  /\ SendToTxmaOrLog(invocation[i].sid, {"F2F_YOTI_START"})
  /\ Return(i)
  /\ UNCHANGED <<now, person, clientVars, yotiVars, expiry, toCore>>

-----------------------------------------------------------------------------
(* AuthorizationRequestProcessor.processRequest                            *)

\* Mutant: the state of the session is not checked.
AuthorizationReadAnyState(i, s) ==
  /\ IsIdle(i)
  /\ client[s] = "known"
  /\ \E row \in Visible(s) : SessionById(s, row)
  /\ invocation' = [invocation EXCEPT ![i] =
                      [Idle EXCEPT !.at = "authorization:code", !.sid = s]]
  /\ UNCHANGED <<now, tables, clientVars, yotiVars, expiry, sinks, faults>>

AuthorizationRead(i, s) ==
  /\ IsIdle(i)
  /\ client[s] = "known"
  /\ \E row \in Visible(s) :
       SessionById(s, row) /\ row.authSessionState = "F2F_YOTI_SESSION_CREATED"
  /\ invocation' = [invocation EXCEPT ![i] =
                      [Idle EXCEPT !.at = "authorization:code", !.sid = s]]
  /\ UNCHANGED <<now, tables, clientVars, yotiVars, expiry, sinks, faults>>

AuthorizationCode(i, c) ==
  LET s == invocation[i].sid IN
  /\ At(i, "authorization:code")
  /\ codes[c] = None
  /\ codes' = [codes EXCEPT ![c] = s]
  /\ setAuthorizationCode(s, c)
  /\ SendToTxmaOrLog(s, {"F2F_CRI_AUTH_CODE_ISSUED", "F2F_CRI_END"})
  /\ Return(i)
  /\ UNCHANGED <<now, person, client, tokens, yotiVars, expiry, toCore>>

-----------------------------------------------------------------------------
(* AccessTokenRequestProcessor.processRequest. The expiry date stored with *)
(* the code is read by nothing.                                            *)

TokenRead(i, c) ==
  /\ IsIdle(i)
  /\ codes[c] # None /\ tokens[c] < MaxTokens
  /\ \E s \in Sessions : \E row \in Visible(s) :
       /\ SessionByAuthorizationCode(c, s, row)
       /\ row.authSessionState = "F2F_AUTH_CODE_ISSUED"
       /\ invocation' = [invocation EXCEPT ![i] =
                           [Idle EXCEPT !.at = "token:update", !.sid = s, !.code = c]]
  /\ UNCHANGED <<now, tables, clientVars, yotiVars, expiry, sinks, faults>>

\* Mutant: the token is handed out and the row forgotten.
TokenUpdateForgetsRow(i) ==
  /\ At(i, "token:update")
  /\ tokens' = [tokens EXCEPT ![invocation[i].code] = @ + 1]
  /\ Return(i)
  /\ UNCHANGED <<now, tables, client, codes, yotiVars, expiry, sinks, faults>>

\* The token, signed before, is handed out once the row is updated.
TokenUpdate(i) ==
  /\ At(i, "token:update")
  /\ updateSessionWithAccessTokenDetails(invocation[i].sid)
  /\ tokens' = [tokens EXCEPT ![invocation[i].code] = @ + 1]
  /\ Return(i)
  /\ UNCHANGED <<now, person, client, codes, yotiVars, expiry, sinks, faults>>

-----------------------------------------------------------------------------
(* AbortRequestProcessor.processRequest                                    *)

AbortRead(i, s) ==
  /\ IsIdle(i)
  /\ client[s] = "known"
  /\ \E row \in Visible(s) :
       SessionById(s, row) /\ row.authSessionState # "F2F_CRI_SESSION_ABORTED"
  /\ invocation' = [invocation EXCEPT ![i] =
                      [Idle EXCEPT !.at = "abort:update", !.sid = s]]
  /\ UNCHANGED <<now, tables, clientVars, yotiVars, expiry, sinks, faults>>

AbortUpdate(i) ==
  /\ At(i, "abort:update")
  /\ updateSessionAuthState(invocation[i].sid, "F2F_CRI_SESSION_ABORTED")
  /\ SendToTxmaOrLog(invocation[i].sid, {"F2F_CRI_SESSION_ABORTED"})
  /\ Return(i)
  /\ UNCHANGED <<now, person, clientVars, yotiVars, expiry, toCore>>

-----------------------------------------------------------------------------
ApiNext ==
  \E i \in Invocations :
    \/ \E s \in Sessions :
         \/ SessionCreate(i, s) \/ AuthorizationRead(i, s) \/ AbortRead(i, s)
         \/ \E pref \in PdfPreferences : DocSelectRead(i, s, pref)
    \/ SessionSavePerson(i)
    \/ DocSelectPreference(i) \/ DocSelectLetter(i) \/ DocSelectYotiId(i)
    \/ DocSelectTtl(i) \/ DocSelectDocument(i)
    \/ \E y \in YotiSessions : DocSelectYoti(i, y)
    \/ \E c \in Codes : AuthorizationCode(i, c) \/ TokenRead(i, c)
    \/ TokenUpdate(i)
    \/ AbortUpdate(i)
=============================================================================
