----------------------------- MODULE ExpiryProofs -----------------------------
(***************************************************************************)
(* Proofs about what F2fJourney does to the attributes of a row that are   *)
(* written once, for any sets of ids, lag, faults and periods; and what    *)
(* follows of the expiry schedule: nobody is reported too early, and until *)
(* the first failure nobody is marked who was not reported.                *)
(***************************************************************************)
EXTENDS F2fProofs

-----------------------------------------------------------------------------
(* A step of the journey gives no row a new date and marks nobody as       *)
(* reminded; only the row of a new session gets a date.                    *)

\* A write keeps the date of the last version, or loses it with the row.
DatesStay ==
  \A s \in Sessions : \A row \in Visible(s)' :
    row \in Visible(s) \/ row.createdDate \in {None, session[s].createdDate}

FlagsStay ==
  \A s \in Sessions : session'[s].reminderEmailSent => session[s].reminderEmailSent

NoWrite == UNCHANGED <<session, stale>>

LEMMA NoWriteStays == NoWrite => DatesStay /\ FlagsStay
BY DEF NoWrite, DatesStay, FlagsStay, Visible

LEMMA PutKeepsFlag ==
  ASSUME TypeOK, NEW s \in Sessions, NEW row, Put(s, row),
         row.reminderEmailSent => session[s].reminderEmailSent
  PROVE  FlagsStay
BY DEF Put, TypeOK, FlagsStay

LEMMA PutKeepsDate ==
  ASSUME TypeOK, NEW s \in Sessions, NEW row, Put(s, row),
         row.createdDate \in {None, session[s].createdDate}
  PROVE  DatesStay
<1>1. \A t \in Sessions : Visible(t)' \subseteq Visible(t) \cup (IF t = s THEN {row} ELSE {})
  BY DEF Put, TypeOK, Visible
<1> QED BY <1>1 DEF DatesStay

\* The updates of a row that may be there already, and its deletion.
Update(s) ==
  \/ updateSessionTtl(s) \/ addUsersSelectedDocument(s)
  \/ updateSessionWithAccessTokenDetails(s)
  \/ \E y \in YotiSessions : updateSessionWithYotiIdAndStatus(s, y)
  \/ \E c \in Codes : setAuthorizationCode(s, c)
  \/ \E state \in AuthSessionState : updateSessionAuthState(s, state)
  \/ Put(s, NoRow)

\* What these and the schedule's update leave as it is.
Keeps(s) ==
  /\ \A t \in Sessions : t # s => session'[t] = session[t]
  /\ \/ session'[s] = NoRow
     \/ /\ session'[s].createdDate = session[s].createdDate
        /\ session'[s].reminderEmailSent = session[s].reminderEmailSent

LEMMA PutWrites ==
  ASSUME TypeOK, NEW s \in Sessions, NEW row, Put(s, row)
  PROVE  session'[s] = row /\ \A t \in Sessions : t # s => session'[t] = session[t]
BY DEF TypeOK, Put

LEMMA PutKeeps ==
  ASSUME TypeOK, NEW s \in Sessions, NEW row, Put(s, row),
         row.createdDate = session[s].createdDate,
         row.reminderEmailSent = session[s].reminderEmailSent
  PROVE  /\ Keeps(s)
         /\ session'[s].expiredNotificationSent = row.expiredNotificationSent
BY PutWrites DEF Keeps

LEMMA UpdateKeeps ==
  ASSUME TypeOK, NEW s \in Sessions
  PROVE  /\ Update(s) =>
              /\ Keeps(s)
              /\ session'[s].expiredNotificationSent => session[s].expiredNotificationSent
         /\ markSessionAsExpired(s) => Keeps(s)
<1>1. session[s] \in Row
  BY DEF TypeOK
<1>2. ASSUME Put(s, NoRow)
      PROVE  Keeps(s) /\ ~session'[s].expiredNotificationSent
  BY <1>2, PutWrites DEF Keeps, NoRow
<1> USE <1>1, PutKeeps DEF Row
<1>3. ASSUME updateSessionTtl(s) \/ addUsersSelectedDocument(s)
      PROVE  /\ Keeps(s)
             /\ session'[s].expiredNotificationSent = session[s].expiredNotificationSent
  BY <1>3 DEF updateSessionTtl, addUsersSelectedDocument
<1>4. ASSUME updateSessionWithAccessTokenDetails(s)
      PROVE  /\ Keeps(s)
             /\ session'[s].expiredNotificationSent = session[s].expiredNotificationSent
  <2> DEFINE row == [session[s] EXCEPT !.authorizationCode = None,
                                       !.authSessionState = "F2F_ACCESS_TOKEN_ISSUED"]
  <2>1. /\ row.createdDate = session[s].createdDate
        /\ row.reminderEmailSent = session[s].reminderEmailSent
        /\ row.expiredNotificationSent = session[s].expiredNotificationSent
    OBVIOUS
  <2>2. Put(s, row)
    BY <1>4 DEF updateSessionWithAccessTokenDetails
  <2> HIDE DEF row
  <2> QED BY <2>1, <2>2
<1>5. ASSUME \E y \in YotiSessions : updateSessionWithYotiIdAndStatus(s, y)
      PROVE  /\ Keeps(s)
             /\ session'[s].expiredNotificationSent = session[s].expiredNotificationSent
  <2>1. PICK y \in YotiSessions : updateSessionWithYotiIdAndStatus(s, y)
    BY <1>5
  <2> DEFINE row == [session[s] EXCEPT !.yotiSessionId = y,
                                       !.authSessionState = "F2F_YOTI_SESSION_CREATED"]
  <2>2. /\ row.createdDate = session[s].createdDate
        /\ row.reminderEmailSent = session[s].reminderEmailSent
        /\ row.expiredNotificationSent = session[s].expiredNotificationSent
    OBVIOUS
  <2>3. Put(s, row)
    BY <2>1 DEF updateSessionWithYotiIdAndStatus
  <2> HIDE DEF row
  <2> QED BY <2>2, <2>3
<1>6. ASSUME \E c \in Codes : setAuthorizationCode(s, c)
      PROVE  /\ Keeps(s)
             /\ session'[s].expiredNotificationSent = session[s].expiredNotificationSent
  <2>1. PICK c \in Codes : setAuthorizationCode(s, c)
    BY <1>6
  <2> DEFINE row == [session[s] EXCEPT !.authorizationCode = c,
                                       !.authSessionState = "F2F_AUTH_CODE_ISSUED"]
  <2>2. /\ row.createdDate = session[s].createdDate
        /\ row.reminderEmailSent = session[s].reminderEmailSent
        /\ row.expiredNotificationSent = session[s].expiredNotificationSent
    OBVIOUS
  <2>3. Put(s, row)
    BY <2>1 DEF setAuthorizationCode
  <2> HIDE DEF row
  <2> QED BY <2>2, <2>3
<1>7. ASSUME \E state \in AuthSessionState : updateSessionAuthState(s, state)
      PROVE  /\ Keeps(s)
             /\ session'[s].expiredNotificationSent = session[s].expiredNotificationSent
  BY <1>7 DEF updateSessionAuthState
<1>8. ASSUME markSessionAsExpired(s) PROVE Keeps(s)
  BY <1>8 DEF markSessionAsExpired
<1> QED BY <1>2, <1>3, <1>4, <1>5, <1>6, <1>7, <1>8 DEF Update

LEMMA UpdateStays ==
  ASSUME TypeOK, NEW s \in Sessions, Update(s) \/ markSessionAsExpired(s)
  PROVE  DatesStay /\ FlagsStay
<1>1. FlagsStay
  BY UpdateKeeps DEF Keeps, FlagsStay, NoRow
<1>2. PICK row : Put(s, row)
  BY DEF Update, updateSessionTtl, addUsersSelectedDocument,
         updateSessionWithAccessTokenDetails, updateSessionWithYotiIdAndStatus,
         setAuthorizationCode, updateSessionAuthState, markSessionAsExpired
<1>3. session'[s] = row
  BY <1>2, PutWrites
<1>4. row.createdDate \in {None, session[s].createdDate}
  BY <1>3, UpdateKeeps DEF Keeps, NoRow
<1> QED BY <1>1, <1>2, <1>4, PutKeepsDate

LEMMA CreateKeepsFlags ==
  ASSUME TypeOK, NEW s \in Sessions, createAuthSession(s)
  PROVE  FlagsStay
BY PutKeepsFlag DEF createAuthSession, NoRow

\* The session of an invocation that is under way.
LEMMA SidTyped ==
  ASSUME Backed, NEW i \in Invocations, invocation[i].at # "idle"
  PROVE  invocation[i].sid \in Sessions
BY DEF Backed, InvocationBacked, InvocationTyped

Creates == \E i \in Invocations, s \in Sessions : SessionCreate(i, s)

LEMMA ApiWrites ==
  ASSUME Backed, ApiNext
  PROVE  NoWrite \/ Creates \/ \E s \in Sessions : Update(s)
<1>1. PICK i \in Invocations :
        \/ \E s \in Sessions :
             \/ SessionCreate(i, s) \/ AuthorizationRead(i, s) \/ AbortRead(i, s)
             \/ \E pref \in PdfPreferences : DocSelectRead(i, s, pref)
        \/ SessionSavePerson(i)
        \/ DocSelectPreference(i) \/ DocSelectLetter(i) \/ DocSelectYotiId(i)
        \/ DocSelectTtl(i) \/ DocSelectDocument(i)
        \/ \E y \in YotiSessions : DocSelectYoti(i, y)
        \/ \E c \in Codes : AuthorizationCode(i, c) \/ TokenRead(i, c)
        \/ TokenUpdate(i)
        \/ AbortUpdate(i)
  BY DEF ApiNext
<1>2. ASSUME NEW s \in Sessions, SessionCreate(i, s) PROVE Creates
  BY <1>2 DEF Creates
<1>3. CASE DocSelectYotiId(i)
  <2>1. invocation[i].yotiSessionId \in YotiSessions
    BY <1>3 DEF DocSelectYotiId, At, Backed, InvocationBacked, InvocationTyped
  <2> QED BY <1>3, <2>1, SidTyped DEF DocSelectYotiId, At, Update
<1>4. CASE DocSelectTtl(i) \/ DocSelectDocument(i) \/ TokenUpdate(i)
  BY <1>4, SidTyped DEF DocSelectTtl, DocSelectDocument, TokenUpdate, At, Update
<1>5. ASSUME NEW c \in Codes, AuthorizationCode(i, c) PROVE \E s \in Sessions : Update(s)
  BY <1>5, SidTyped DEF AuthorizationCode, At, Update
<1>6. CASE AbortUpdate(i)
  BY <1>6, SidTyped DEF AbortUpdate, At, AuthSessionState, Update
<1>7. CASE \/ \E s \in Sessions :
                \/ AuthorizationRead(i, s) \/ AbortRead(i, s)
                \/ \E pref \in PdfPreferences : DocSelectRead(i, s, pref)
           \/ SessionSavePerson(i) \/ DocSelectPreference(i) \/ DocSelectLetter(i)
           \/ \E y \in YotiSessions : DocSelectYoti(i, y)
           \/ \E c \in Codes : TokenRead(i, c)
  BY <1>7 DEF AuthorizationRead, AbortRead, DocSelectRead, SessionSavePerson,
              DocSelectPreference, DocSelectLetter, DocSelectYoti, TokenRead, tables, NoWrite
<1> QED BY <1>1, <1>2, <1>3, <1>4, <1>5, <1>6, <1>7

LEMMA CallbackWrites ==
  ASSUME Backed, CallbackNext
  PROVE  NoWrite \/ \E s \in Sessions : Update(s)
<1>1. ASSUME NEW i \in Invocations,
             FirstBranchVisit(i) \/ ThankYouUpdate(i) \/ CompletionUpdate(i)
      PROVE  \E s \in Sessions : Update(s)
  BY <1>1, SidTyped
     DEF FirstBranchVisit, ThankYouUpdate, CompletionUpdate, At, AuthSessionState, Update
<1>2. \/ NoWrite
      \/ \E i \in Invocations :
           FirstBranchVisit(i) \/ ThankYouUpdate(i) \/ CompletionUpdate(i)
  BY DEF CallbackNext, YotiReports, CallbackStarts, CallbackLost, StartExecutionFails,
         ThankYouAudit, CompletionAnswerUnusable, CompletionWrongState,
         CompletionAnswerUsable, CompletionNoCredential, CompletionCredential,
         CompletionThrows, tables, NoWrite
<1> QED BY <1>1, <1>2

LEMMA ExpiryWrites ==
  ASSUME ExpiryNext
  PROVE  \/ NoWrite
         \/ \E s \in Sessions :
              expiry.at = "mark" /\ s \in expiry.todo /\ markSessionAsExpired(s)
BY DEF ExpiryNext, ExpiryQuery, ExpiryNotify, ExpiryMark, ExpiryFails, tables, NoWrite

LEMMA ServiceStays ==
  ASSUME TypeOK, ServiceNext
  PROVE  DatesStay /\ FlagsStay
<1>1. CASE \E s \in Sessions : Propagate(s)
  <2>1. UNCHANGED session /\ \A t \in Sessions : Visible(t)' \subseteq Visible(t)
    BY <1>1 DEF Propagate, TypeOK, Visible
  <2> QED BY <2>1 DEF DatesStay, FlagsStay
<1>2. NoWrite \/ (\E s \in Sessions : Put(s, NoRow)) \/ \E s \in Sessions : Propagate(s)
  BY DEF ServiceNext, TimeToLive, InvocationFails, Tick, tables, NoWrite
<1> QED BY <1>1, <1>2, NoWriteStays, UpdateStays DEF Update

\* What a step of the journey does to the rows.
LEMMA JourneyWrites ==
  ASSUME Backed, [Next]_vars
  PROVE  FlagsStay /\ (DatesStay \/ Creates)
<1>1. TypeOK
  BY DEF Backed
<1>2. CASE NoWrite \/ \E s \in Sessions : Update(s) \/ markSessionAsExpired(s)
  BY <1>1, <1>2, NoWriteStays, UpdateStays
<1>3. CASE Creates
  BY <1>1, <1>3, CreateKeepsFlags DEF Creates, SessionCreate
<1>4. CASE ServiceNext
  BY <1>1, <1>4, ServiceStays
<1>5. UNCHANGED vars => NoWrite
  BY DEF vars, tables, NoWrite
<1> QED BY <1>2, <1>3, <1>4, <1>5, ApiWrites, CallbackWrites, ExpiryWrites DEF Next

-----------------------------------------------------------------------------
(* Nobody is reported too early.                                           *)

\* Whatever version of the row of s is read, it is too old, or has no date.
Old(s) ==
  \A row \in Visible(s) :
    row.createdDate # None => row.createdDate + YotiSessionTtl < now

\* Nothing was written for s, and the schedule knows nothing of it.
Unopened(s) ==
  /\ \A row \in Visible(s) : row.createdDate = None
  /\ s \notin expiry.todo \cup expiry.batch
  /\ \A m \in toCore : m.kind = "expired" => m.sid # s

\* Why ExpiredOnlyWhenOld holds. A session is created once and its date stays, so one
\* version of the row that is overdue speaks for all of them, from then on.
Aged ==
  /\ \A s \in Sessions : \A row, other \in Visible(s) :
       other.createdDate \in {None, row.createdDate} \/ row.createdDate = None
  /\ \A s \in expiry.todo \cup expiry.batch : Old(s)
  /\ \A m \in toCore : m.kind = "expired" => Old(m.sid)
  /\ \A s \in Sessions : client[s] = "none" => Unopened(s)

\* A step that dates no row and puts no session on the schedule's list.
NothingNew ==
  /\ DatesStay
  /\ now <= now' /\ now' \in Nat
  /\ expiry'.todo \cup expiry'.batch \subseteq expiry.todo \cup expiry.batch
  /\ \A m \in toCore' : m \in toCore \/ m.kind # "expired" \/ m.sid \in expiry.todo
  /\ \A s \in Sessions : client'[s] = "none" => client[s] = "none"

LEMMA VisibleTyped ==
  ASSUME TypeOK, NEW s \in Sessions
  PROVE  Visible(s) \subseteq Row /\ session[s] \in Visible(s)
BY DEF TypeOK, Visible

\* Where the sessions of lists and messages come from.
LEMMA KnownSessions ==
  ASSUME TypeOK
  PROVE  /\ expiry.todo \cup expiry.batch \subseteq Sessions
         /\ \A m \in toCore : m.sid \in Sessions
BY DEF TypeOK, CoreMessage

LEMMA OldStays ==
  ASSUME TypeOK, NothingNew, NEW s \in Sessions, Old(s)
  PROVE  Old(s)'
<1> SUFFICES ASSUME NEW row \in Visible(s)', row.createdDate # None
             PROVE  row.createdDate + YotiSessionTtl < now'
  BY DEF Old
<1>1. PICK older \in Visible(s) : older.createdDate = row.createdDate
  BY VisibleTyped DEF NothingNew, DatesStay
<1>2. older.createdDate + YotiSessionTtl < now /\ older.createdDate \in Nat /\ now \in Nat
  BY <1>1, VisibleTyped DEF Old, Row, TypeOK
<1> QED BY <1>1, <1>2, TtlAssumption DEF NothingNew

LEMMA AgedStays ==
  ASSUME TypeOK, Aged, NothingNew
  PROVE  Aged'
<1>1. ASSUME NEW s \in Sessions, NEW row \in Visible(s)', NEW other \in Visible(s)'
      PROVE  other.createdDate \in {None, row.createdDate} \/ row.createdDate = None
  <2>1. PICK r \in Visible(s) : row.createdDate \in {None, r.createdDate}
    BY VisibleTyped DEF NothingNew, DatesStay
  <2>2. PICK o \in Visible(s) : other.createdDate \in {None, o.createdDate}
    BY VisibleTyped DEF NothingNew, DatesStay
  <2>3. o.createdDate \in {None, r.createdDate} \/ r.createdDate = None
    BY DEF Aged
  <2> QED BY <2>1, <2>2, <2>3
<1>2. \A s \in expiry'.todo \cup expiry'.batch : Old(s)'
  BY KnownSessions, OldStays DEF Aged, NothingNew
<1>3. \A m \in toCore' : m.kind = "expired" => Old(m.sid)'
  BY KnownSessions, OldStays DEF Aged, NothingNew
<1>4. ASSUME NEW s \in Sessions, client'[s] = "none" PROVE Unopened(s)'
  <2>1. Unopened(s)
    BY <1>4 DEF Aged, NothingNew
  <2>2. \A row \in Visible(s)' : row.createdDate = None
    BY <2>1, VisibleTyped DEF Unopened, NothingNew, DatesStay
  <2> QED BY <2>1, <2>2 DEF Unopened, NothingNew
<1> QED BY <1>1, <1>2, <1>3, <1>4 DEF Aged

\* The first date of a row comes when the schedule knows nothing of the session.
LEMMA CreateAges ==
  ASSUME TypeOK, Aged, NEW i \in Invocations, NEW s \in Sessions, SessionCreate(i, s)
  PROVE  Aged'
<1>1. Unopened(s) /\ client' = [client EXCEPT ![s] = "pending"] /\ UNCHANGED <<now, expiry, toCore>>
  BY DEF SessionCreate, Aged, sinks
<1>2. \A t \in Sessions \ {s} : Visible(t)' = Visible(t)
  BY DEF SessionCreate, createAuthSession, Put, Visible, TypeOK
<1>3. \A row \in Visible(s)' : row.createdDate \in {None, now}
  <2> DEFINE new == [NoRow EXCEPT !.authSessionState = "F2F_SESSION_CREATED",
                                  !.createdDate = now,
                                  !.expiryDate = now + AuthSessionTtl]
  <2>1. Put(s, new)
    BY DEF SessionCreate, createAuthSession
  <2>2. new.createdDate = now
    BY DEF NoRow
  <2> HIDE DEF new
  <2>3. Visible(s)' \subseteq Visible(s) \cup {new}
    BY <2>1 DEF Put, TypeOK, Visible
  <2> QED BY <1>1, <2>2, <2>3 DEF Unopened
<1>4. ASSUME NEW t \in Sessions, NEW row \in Visible(t)', NEW other \in Visible(t)'
      PROVE  other.createdDate \in {None, row.createdDate} \/ row.createdDate = None
  BY <1>2, <1>3 DEF Aged
<1>5. \A t \in expiry'.todo \cup expiry'.batch : Old(t)'
  BY <1>1, <1>2, KnownSessions DEF Aged, Old, Unopened
<1>6. \A m \in toCore' : m.kind = "expired" => Old(m.sid)'
  BY <1>1, <1>2, KnownSessions DEF Aged, Old, Unopened
<1>7. ASSUME NEW t \in Sessions, client'[t] = "none" PROVE Unopened(t)'
  <2>1. t # s /\ client[t] = "none"
    BY <1>1, <1>7 DEF TypeOK
  <2> QED BY <1>1, <1>2, <2>1 DEF Aged, Unopened
<1> QED BY <1>4, <1>5, <1>6, <1>7 DEF Aged

\* The query lists a session because one version of its row is overdue.
LEMMA QueryAges ==
  ASSUME TypeOK, Aged, ExpiryQuery
  PROVE  Aged'
<1>1. PICK batch \in SUBSET Sessions :
        /\ \A s \in batch : \E row \in Visible(s) : Overdue(row)
        /\ expiry' = [at |-> "notify", todo |-> batch, batch |-> batch]
  BY DEF ExpiryQuery
<1>2. UNCHANGED <<now, session, stale, client, toCore>>
  BY DEF ExpiryQuery, tables, clientVars, sinks
<1>3. \A s : Visible(s)' = Visible(s) /\ Old(s)' = Old(s)
  BY <1>2 DEF Visible, Old
<1>4. ASSUME NEW s \in batch PROVE Old(s) /\ client[s] # "none"
  <2>1. PICK row \in Visible(s) : Overdue(row)
    BY <1>1
  <2>2. row.createdDate \in Nat /\ row.createdDate + YotiSessionTtl + 1 <= now
    BY <2>1, VisibleTyped DEF Overdue, Row
  <2>3. \A other \in Visible(s) : other.createdDate \in {None, row.createdDate}
    BY <2>1 DEF Aged, Overdue
  <2>4. Old(s)
    BY <2>2, <2>3, TtlAssumption DEF Old, TypeOK
  <2>5. row.createdDate # None
    BY <2>1 DEF Overdue
  <2> QED BY <2>4, <2>5 DEF Aged, Unopened
<1>5. expiry'.todo = batch /\ expiry'.batch = batch
  BY <1>1
<1> QED BY <1>2, <1>3, <1>4, <1>5 DEF Aged, Unopened

LEMMA AdvanceLists ==
  ASSUME TypeOK, NEW s \in Sessions, ExpiryAdvance(s)
  PROVE  expiry'.todo \cup expiry'.batch \subseteq expiry.todo \cup expiry.batch
<1> DEFINE Lists == [at : {"idle", "notify", "mark"}, todo : SUBSET Sessions,
                     batch : SUBSET Sessions]
<1>1. PICK lists \in Lists : lists = expiry
  BY DEF TypeOK
<1> QED BY <1>1 DEF ExpiryAdvance

LEMMA StepAges == Backed /\ Aged /\ [Next]_vars => Aged'
<1> SUFFICES ASSUME Backed, Aged, [Next]_vars PROVE Aged'
  OBVIOUS
<1>1. TypeOK /\ now \in Nat
  BY DEF Backed, TypeOK
<1>2. CASE Creates
  BY <1>1, <1>2, CreateAges DEF Creates
<1>3. CASE ExpiryQuery
  BY <1>1, <1>3, QueryAges
<1>4. CASE DatesStay /\ ~Creates /\ ~ExpiryQuery
  <2>1. /\ now <= now' /\ now' \in Nat
        /\ expiry'.todo \cup expiry'.batch \subseteq expiry.todo \cup expiry.batch
        /\ \A m \in toCore' : m \in toCore \/ m.kind # "expired" \/ m.sid \in expiry.todo
        /\ \A s \in Sessions : client'[s] = "none" => client[s] = "none"
    <3>1. CASE ServiceNext \/ UNCHANGED vars
      BY <1>1, <3>1 DEF ServiceNext, TimeToLive, Propagate, InvocationFails, Tick, vars,
                        clientVars, sinks
    <3>2. CASE ApiNext
      <4>1. UNCHANGED <<now, expiry, toCore>>
        BY <1>4, <3>2 DEF ApiNext, Creates, AuthorizationRead, AbortRead, DocSelectRead,
             SessionSavePerson, DocSelectPreference, DocSelectLetter, DocSelectYotiId,
             DocSelectTtl, DocSelectDocument, DocSelectYoti, AuthorizationCode, TokenRead,
             TokenUpdate, AbortUpdate, sinks
      <4>2. UNCHANGED client
            \/ \E i \in Invocations : client' = [client EXCEPT ![invocation[i].sid] = "known"]
        BY <1>4, <3>2 DEF ApiNext, Creates, AuthorizationRead, AbortRead, DocSelectRead,
             SessionSavePerson, DocSelectPreference, DocSelectLetter, DocSelectYotiId,
             DocSelectTtl, DocSelectDocument, DocSelectYoti, AuthorizationCode, TokenRead,
             TokenUpdate, AbortUpdate, clientVars
      <4>3. \A s \in Sessions : client'[s] = "none" => client[s] = "none"
        BY <1>1, <4>2 DEF TypeOK
      <4> QED BY <1>1, <4>1, <4>3
    <3>3. CASE CallbackNext
      <4>1. UNCHANGED <<now, expiry, client>>
        BY <3>3 DEF CallbackNext, YotiReports, CallbackStarts, CallbackLost,
             StartExecutionFails, FirstBranchVisit, ThankYouAudit, ThankYouUpdate,
             CompletionAnswerUnusable, CompletionWrongState, CompletionAnswerUsable,
             CompletionNoCredential, CompletionCredential, CompletionUpdate,
             CompletionThrows, clientVars
      <4>2. \/ UNCHANGED toCore
            \/ \E sid, y : sendToIPVCore("credential", sid, y) \/ sendToIPVCore("error", sid, y)
        <5>1. ASSUME NEW i \in Invocations,
                     \/ CompletionAnswerUnusable(i) \/ CompletionWrongState(i)
                     \/ CompletionNoCredential(i) \/ CompletionCredential(i)
              PROVE  \/ UNCHANGED toCore
                     \/ \E sid, y : \/ sendToIPVCore("credential", sid, y)
                                   \/ sendToIPVCore("error", sid, y)
          BY <5>1 DEF CompletionAnswerUnusable, CompletionWrongState, CompletionNoCredential,
                      CompletionCredential, CompletionRefused
        <5>2. \/ UNCHANGED toCore
              \/ \E i \in Invocations :
                   \/ CompletionAnswerUnusable(i) \/ CompletionWrongState(i)
                   \/ CompletionNoCredential(i) \/ CompletionCredential(i)
          BY <3>3 DEF CallbackNext, YotiReports, CallbackStarts, CallbackLost,
               StartExecutionFails, FirstBranchVisit, ThankYouAudit, ThankYouUpdate,
               CompletionAnswerUsable, CompletionUpdate, CompletionThrows, sinks
        <5> QED BY <5>1, <5>2
      <4>3. \A m \in toCore' : m \in toCore \/ m.kind # "expired"
        BY <4>2 DEF sendToIPVCore
      <4> QED BY <1>1, <4>1, <4>3
    <3>4. CASE ExpiryNext
      <4>1. UNCHANGED <<now, client>>
        BY <3>4 DEF ExpiryNext, ExpiryQuery, ExpiryNotify, ExpiryMark, ExpiryFails, clientVars
      <4>2. expiry'.todo \cup expiry'.batch \subseteq expiry.todo \cup expiry.batch
        BY <1>1, <1>4, <3>4, AdvanceLists DEF ExpiryNext, ExpiryNotify, ExpiryMark, ExpiryFails
      <4>3. \A m \in toCore' : m \in toCore \/ m.kind # "expired" \/ m.sid \in expiry.todo
        BY <1>4, <3>4 DEF ExpiryNext, ExpiryNotify, ExpiryMark, ExpiryFails, sendToIPVCore, sinks
      <4> QED BY <1>1, <4>1, <4>2, <4>3
    <3> QED BY <3>1, <3>2, <3>3, <3>4 DEF Next
  <2> QED BY <1>1, <1>4, <2>1, AgedStays DEF NothingNew
<1> QED BY <1>2, <1>3, <1>4, JourneyWrites

LEMMA AlwaysAged == Spec => [](Backed /\ Aged)
<1>1. Init => Aged
  BY DEF Init, ServiceInit, NoRow, Visible, Aged, Old, Unopened
<1> QED BY <1>1, InitBacked, NextBacked, StepAges, PTL DEF Spec

\* The schedule tells IPV Core only of sessions created more than YotiSessionTtl days
\* ago, however old the version of the row its query saw, and although a row that
\* was deleted may come back without its date.
THEOREM ExpiredSessionsAreOld == Spec => []ExpiredOnlyWhenOld
<1>1. Backed /\ Aged => ExpiredOnlyWhenOld
  BY KnownSessions, VisibleTyped DEF Backed, Aged, Old, ExpiredOnlyWhenOld
<1> QED BY <1>1, AlwaysAged, PTL

-----------------------------------------------------------------------------
(* Whom the schedule marks has been reported, while no call fails.         *)

LEMMA FaultCounts ==
  ASSUME TypeOK
  PROVE  /\ Fault => faults' = faults + 1 /\ faults' # 0
         /\ \A s, events : SendToTxmaOrLog(s, events) => UNCHANGED faults \/ Fault
BY DEF TypeOK, Fault, SendToTxmaOrLog

\* Failures are counted and never forgotten.
LEMMA FaultsGrow ==
  ASSUME TypeOK, [Next]_vars, faults' = 0
  PROVE  faults = 0
<1>1. CASE ServiceNext \/ ExpiryNext \/ UNCHANGED vars
  <2>1. UNCHANGED faults \/ Fault
    BY <1>1 DEF ServiceNext, TimeToLive, Propagate, InvocationFails, Tick, ExpiryNext,
                ExpiryQuery, ExpiryNotify, ExpiryMark, ExpiryFails, vars
  <2> QED BY <2>1, FaultCounts
<1>2. CASE ApiNext
  <2>1. \/ UNCHANGED faults \/ Fault
        \/ \E s, events : SendToTxmaOrLog(s, events)
    BY <1>2 DEF ApiNext, SessionCreate, AuthorizationRead, AbortRead, DocSelectRead,
         SessionSavePerson, DocSelectPreference, DocSelectLetter, DocSelectYotiId,
         DocSelectTtl, DocSelectDocument, DocSelectYoti, AuthorizationCode, TokenRead,
         TokenUpdate, AbortUpdate
  <2> QED BY <2>1, FaultCounts
<1>3. CASE CallbackNext
  <2>1. \/ UNCHANGED faults \/ Fault
        \/ \E s, events : SendToTxmaOrLog(s, events)
    BY <1>3 DEF CallbackNext, YotiReports, CallbackStarts, CallbackLost, StartExecutionFails,
         Receive, FirstBranchVisit, ThankYouAudit, ThankYouUpdate, CompletionRefused,
         CompletionAnswerUnusable, CompletionWrongState, CompletionAnswerUsable,
         CompletionNoCredential, CompletionCredential, CompletionUpdate, CompletionThrows
  <2> QED BY <2>1, FaultCounts
<1> QED BY <1>1, <1>2, <1>3 DEF Next

\* Only the schedule marks a row.
MarksStay ==
  \A s \in Sessions :
    session'[s].expiredNotificationSent => session[s].expiredNotificationSent

LEMMA OnlyScheduleMarks ==
  ASSUME Backed, [Next]_vars, ~ExpiryNext
  PROVE  MarksStay /\ UNCHANGED expiry
<1>1. TypeOK
  BY DEF Backed
<1>2. ASSUME NEW s \in Sessions, Update(s) PROVE MarksStay
  BY <1>1, <1>2, UpdateKeeps DEF Keeps, MarksStay
<1>3. ASSUME UNCHANGED session PROVE MarksStay
  BY <1>3 DEF MarksStay
<1>4. ASSUME NEW s \in Sessions, createAuthSession(s) PROVE MarksStay
  <2> DEFINE row == [NoRow EXCEPT !.authSessionState = "F2F_SESSION_CREATED",
                                  !.createdDate = now,
                                  !.expiryDate = now + AuthSessionTtl]
  <2>1. Put(s, row)
    BY <1>4 DEF createAuthSession
  <2>2. ~row.expiredNotificationSent
    BY DEF NoRow
  <2> HIDE DEF row
  <2> QED BY <1>1, <2>1, <2>2, PutWrites DEF MarksStay
<1>5. ASSUME Creates PROVE MarksStay
  BY <1>4, <1>5 DEF Creates, SessionCreate
<1>6. ASSUME ServiceNext PROVE MarksStay
  <2>1. UNCHANGED session \/ \E s \in Sessions : Update(s)
    BY <1>6 DEF ServiceNext, TimeToLive, Propagate, InvocationFails, Tick, tables, Update
  <2> QED BY <1>2, <1>3, <2>1
<1>7. UNCHANGED vars \/ NoWrite => UNCHANGED session
  BY DEF vars, tables, NoWrite
<1>8. MarksStay
  BY <1>2, <1>3, <1>5, <1>6, <1>7, ApiWrites, CallbackWrites DEF Next
<1>9. UNCHANGED expiry
  <2>1. CASE ServiceNext \/ UNCHANGED vars
    BY <2>1 DEF ServiceNext, TimeToLive, Propagate, InvocationFails, Tick, vars
  <2>2. CASE ApiNext
    BY <2>2 DEF ApiNext, SessionCreate, AuthorizationRead, AbortRead, DocSelectRead,
         SessionSavePerson, DocSelectPreference, DocSelectLetter, DocSelectYotiId,
         DocSelectTtl, DocSelectDocument, DocSelectYoti, AuthorizationCode, TokenRead,
         TokenUpdate, AbortUpdate
  <2>3. CASE CallbackNext
    BY <2>3 DEF CallbackNext, YotiReports, CallbackStarts, CallbackLost, StartExecutionFails,
         FirstBranchVisit, ThankYouAudit, ThankYouUpdate, CompletionAnswerUnusable,
         CompletionWrongState, CompletionAnswerUsable, CompletionNoCredential,
         CompletionCredential, CompletionUpdate, CompletionThrows
  <2> QED BY <2>1, <2>2, <2>3 DEF Next
<1> QED BY <1>8, <1>9

\* The lists of the run after one promise of a phase is settled.
LEMMA Advances ==
  ASSUME TypeOK, NEW s \in Sessions, s \in expiry.todo, ExpiryAdvance(s)
  PROVE  \/ /\ expiry'.at = expiry.at /\ expiry'.batch = expiry.batch
            /\ expiry'.todo = expiry.todo \ {s}
         \/ /\ expiry.at = "notify" /\ expiry.todo = {s}
            /\ expiry'.at = "mark" /\ expiry'.batch = expiry.batch
            /\ expiry'.todo = expiry.batch
         \/ expiry'.at = "idle" /\ expiry'.todo = {} /\ expiry'.batch = {}
<1> DEFINE Lists == [at : {"idle", "notify", "mark"}, todo : SUBSET Sessions,
                     batch : SUBSET Sessions]
<1>1. PICK lists \in Lists : lists = expiry
  BY DEF TypeOK
<1> QED BY <1>1 DEF ExpiryAdvance

LEMMA ScheduleReports ==
  ASSUME Backed, ReportedFirst, ExpiryNext, faults = 0, faults' = 0, Grows
  PROVE  ReportedFirst'
<1>1. TypeOK
  BY DEF Backed
<1>2. \A s \in Sessions : Reported(s) => Reported(s)'
  BY DEF Grows, Reported
<1>3. expiry.batch \subseteq Sessions /\ expiry.todo \subseteq expiry.batch
  BY <1>1 DEF TypeOK, ReportedFirst
<1>4. CASE ExpiryQuery
  <2>1. PICK batch \in SUBSET Sessions :
          expiry' = [at |-> "notify", todo |-> batch, batch |-> batch]
    BY <1>4 DEF ExpiryQuery
  <2>2. UNCHANGED session /\ UNCHANGED toCore
    BY <1>4 DEF ExpiryQuery, tables, sinks
  <2> QED BY <2>1, <2>2 DEF ReportedFirst, MarkedMeansReported
<1>5. CASE ExpiryFails
  BY <1>1, <1>5, FaultCounts DEF ExpiryFails
<1>6. ASSUME NEW s \in Sessions, ExpiryNotify(s) PROVE ReportedFirst'
  <2>1. Reported(s)'
    BY <1>1, <1>6, FaultCounts DEF ExpiryNotify, sendToIPVCore, Reported
  <2>2. UNCHANGED session /\ expiry.at = "notify" /\ s \in expiry.todo /\ ExpiryAdvance(s)
    BY <1>6 DEF ExpiryNotify, tables
  <2>3. MarkedMeansReported'
    BY <1>2, <2>2 DEF ReportedFirst, MarkedMeansReported, Reported
  <2>4. \A t \in expiry.batch \ (expiry.todo \ {s}) : Reported(t)'
    BY <1>2, <1>3, <2>1, <2>2 DEF ReportedFirst
  <2>5. /\ expiry'.todo \subseteq expiry'.batch
        /\ expiry'.at = "notify" => \A t \in expiry'.batch \ expiry'.todo : Reported(t)'
        /\ expiry'.at = "mark" => \A t \in expiry'.batch : Reported(t)'
    BY <1>1, <1>3, <2>2, <2>4, Advances
  <2> QED BY <2>3, <2>5 DEF ReportedFirst
<1>7. ASSUME NEW s \in Sessions, ExpiryMark(s) PROVE ReportedFirst'
  <2>1. expiry.at = "mark" /\ s \in expiry.todo /\ ExpiryAdvance(s) /\ markSessionAsExpired(s)
    BY <1>1, <1>7, FaultCounts DEF ExpiryMark
  <2>2. \A t \in expiry.batch : Reported(t)'
    BY <1>2, <1>3, <2>1 DEF ReportedFirst
  <2>3. MarkedMeansReported'
    <3>1. \A t \in Sessions : t # s => session'[t] = session[t]
      BY <1>1, <2>1, UpdateKeeps DEF Keeps
    <3> QED BY <1>2, <1>3, <2>1, <2>2, <3>1 DEF ReportedFirst, MarkedMeansReported, Reported
  <2>4. /\ expiry'.todo \subseteq expiry'.batch
        /\ expiry'.at = "notify" => \A t \in expiry'.batch \ expiry'.todo : Reported(t)'
        /\ expiry'.at = "mark" => \A t \in expiry'.batch : Reported(t)'
    BY <1>1, <1>3, <2>1, <2>2, Advances
  <2> QED BY <2>3, <2>4 DEF ReportedFirst
<1> QED BY <1>4, <1>5, <1>6, <1>7 DEF ExpiryNext

LEMMA StepReports == Backed /\ ReportedFirst /\ [Next]_vars => ReportedFirst'
<1> SUFFICES ASSUME Backed, ReportedFirst, [Next]_vars, faults' = 0
             PROVE  ReportedFirst'
  BY DEF ReportedFirst
<1>1. Grows /\ faults = 0
  BY NextAdds, FaultsGrow DEF BacksWhatItAdds, Backed
<1>2. CASE ExpiryNext
  BY <1>1, <1>2, ScheduleReports
<1>3. CASE ~ExpiryNext
  <2>1. MarksStay /\ UNCHANGED expiry
    BY <1>3, OnlyScheduleMarks
  <2>2. \A s \in Sessions : Reported(s) => Reported(s)'
    BY <1>1 DEF Grows, Reported
  <2>3. expiry.batch \subseteq Sessions
    BY DEF Backed, TypeOK
  <2> QED BY <1>1, <2>1, <2>2, <2>3
          DEF MarksStay, ReportedFirst, MarkedMeansReported, Reported
<1> QED BY <1>2, <1>3

\* As long as no call has failed, the schedule has reported every session it marked to
\* IPV Core, whatever the lag of the reads and the requests and callbacks beside it. One
\* message that cannot be sent is enough to break it: its session is marked all the same.
THEOREM MarkedAreReported == Spec => [](faults = 0 => MarkedMeansReported)
<1>1. Init => ReportedFirst
  BY DEF Init, ServiceInit, NoRow, ReportedFirst, MarkedMeansReported
<1>2. ReportedFirst => (faults = 0 => MarkedMeansReported)
  BY DEF ReportedFirst
<1> QED BY <1>1, <1>2, StepReports, InitBacked, NextBacked, PTL DEF Spec
==============================================================================
