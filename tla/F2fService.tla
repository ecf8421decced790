----------------------------- MODULE F2fService -----------------------------
(***************************************************************************)
(* The state every Lambda of the service shares, and the operations of     *)
(* src/services/F2fService.ts on it: the session and person-identity       *)
(* tables with their eventually consistent reads, the queues to TxMA and   *)
(* to IPV Core, and the record of which Lambda invocation is where.        *)
(*                                                                         *)
(* An invocation is cut at every await that touches shared state: what it  *)
(* read stays in its record while other invocations write.                 *)
(***************************************************************************)
EXTENDS Naturals, FiniteSets

CONSTANTS
  Sessions,        \* session ids randomUUID() can return
  YotiSessions,    \* session ids Yoti can return
  Codes,           \* authorization codes randomUUID() can return
  PdfPreferences,  \* values of pdf_preference in a request
  Invocations,     \* concurrent Lambda invocations
  AuthSessionTtl,  \* AUTH_SESSION_TTL_SECS, in days
  YotiSessionTtl,  \* YOTI_SESSION_TTL_DAYS
  MaxReceiveCount, \* redrive policy of the Yoti callback queue
  LastDay,         \* bound: the clock stops here
  MaxStale,        \* bound: superseded versions of a row a read can still see
  MaxFaults,       \* bound: failed calls in a behaviour
  MaxTokens,       \* bound: requests for a code that already got this many tokens
  None

ASSUME TtlAssumption ==
  /\ AuthSessionTtl \in Nat
  /\ YotiSessionTtl \in Nat
  /\ MaxReceiveCount \in Nat \ {0}

VARIABLES
  now,         \* the day
  session,     \* session table: the last version of each row
  stale,       \* superseded versions of it an eventually consistent read returns
  person,      \* person-identity table
  client,      \* what the client knows of a session id
  codes,       \* the session an authorization code was generated for
  tokens,      \* access tokens handed out for a code
  yoti,        \* Yoti's own record of its sessions
  letters,     \* executions of the Yoti letter state machine started
  callbacks,   \* the Yoti callback queue: receives left of each message
  invocation,  \* where each Lambda invocation stands
  expiry,      \* the run of the ExpiredSessions schedule
  toCore,      \* messages accepted by the IPV Core queue
  audit,       \* events accepted by the TxMA queue
  faults       \* failed calls so far

tables == <<session, stale, person>>
clientVars == <<client, codes, tokens>>
yotiVars == <<yoti, letters, callbacks>>
sinks == <<toCore, audit>>

vars == <<now, tables, clientVars, yotiVars, invocation, expiry, sinks, faults>>

-----------------------------------------------------------------------------
AuthSessionState ==
  {"F2F_SESSION_CREATED", "F2F_YOTI_SESSION_CREATED", "F2F_AUTH_CODE_ISSUED",
   "F2F_ACCESS_TOKEN_ISSUED", "F2F_POST_OFFICE_VISITED",
   "F2F_YOTI_SESSION_COMPLETE", "F2F_CREDENTIAL_ISSUED",
   "F2F_CRI_SESSION_ABORTED", "F2F_SESSION_EXPIRED"}

\* None is none of the values it stands in for.
ASSUME NoneAssumption ==
  None \notin Sessions \cup YotiSessions \cup Codes \cup PdfPreferences \cup Nat
             \cup AuthSessionState

Topics == {"first_branch_visit", "thank_you_email_requested", "session_completion"}

\* A session item; an attribute DynamoDB does not hold is None (or FALSE).
Row == [authSessionState : AuthSessionState \cup {None},
        yotiSessionId : YotiSessions \cup {None},
        authorizationCode : Codes \cup {None},
        createdDate : Nat \cup {None},
        expiryDate : Nat \cup {None},
        documentUsed : BOOLEAN,
        reminderEmailSent : BOOLEAN,
        expiredNotificationSent : BOOLEAN]

\* No item under the key. UpdateItem on it creates one (see Update below).
NoRow == [authSessionState |-> None, yotiSessionId |-> None,
          authorizationCode |-> None, createdDate |-> None, expiryDate |-> None,
          documentUsed |-> FALSE, reminderEmailSent |-> FALSE,
          expiredNotificationSent |-> FALSE]

\* claims: the shared claims savePersonIdentity puts there.
PersonRow == [claims : BOOLEAN, pdfPreference : PdfPreferences \cup {None}]

Steps == {"idle", "session:person",
          "docSelect:preference", "docSelect:yoti", "docSelect:letter",
          "docSelect:yotiId", "docSelect:ttl", "docSelect:document",
          "authorization:code", "token:update", "abort:update",
          "visit:update", "thankYou:audit", "thankYou:update",
          "completion:yoti", "completion:credential", "completion:update"}

\* row: the session item read at the start, for as long as it is still used.
Invocation == [at : Steps, sid : Sessions \cup {None}, row : Row,
               yotiSessionId : YotiSessions \cup {None},
               code : Codes \cup {None},
               pdfPreference : PdfPreferences \cup {None}]

Idle == [at |-> "idle", sid |-> None, row |-> NoRow, yotiSessionId |-> None,
         code |-> None, pdfPreference |-> None]

Letter == [sid : Sessions, yotiSessionId : YotiSessions,
           pdfPreference : PdfPreferences]

CoreMessage == [kind : {"credential", "error", "expired"}, sid : Sessions,
                yotiSessionId : YotiSessions \cup {None}]

AuditEvents == {"F2F_CRI_START", "F2F_YOTI_START", "F2F_CRI_AUTH_CODE_ISSUED",
                "F2F_CRI_END", "F2F_CRI_SESSION_ABORTED", "F2F_DOCUMENT_UPLOADED",
                "F2F_YOTI_RESPONSE_RECEIVED", "F2F_CRI_VC_ISSUED",
                "F2F_YOTI_PDF_LETTER_POSTED", "F2F_YOTI_PDF_EMAILED"}

YotiProgress == {"unused", "open", "visited", "uploaded", "completed"}

-----------------------------------------------------------------------------
(* Reads. No call asks for a consistent read, and the indexes cannot.      *)

Visible(s) == stale[s] \cup {session[s]}

\* The expiryDate check of the three getSession functions, in which an absent
\* attribute compares as not expired.
Expired(row) == row.expiryDate # None /\ row.expiryDate < now

\* getSessionById returns this version, neither absent nor expired.
SessionById(s, row) == row \in Visible(s) /\ row # NoRow /\ ~Expired(row)

\* The attributes yotiSessionId-index projects: expiryDate is not one of them.
YotiIndexItem(row) ==
  [NoRow EXCEPT !.yotiSessionId = row.yotiSessionId,
                !.authSessionState = row.authSessionState]

\* Mutant: the key condition of the query is lost.
SessionByYotiIdAnyKey(y, s, item) ==
  \E row \in Visible(s) : row.yotiSessionId # None /\ item = YotiIndexItem(row)

\* getSessionByYotiId(y) returns this item: one match, and not expired.
SessionByYotiId(y, s, item) ==
  /\ \E row \in Visible(s) : row.yotiSessionId = y /\ item = YotiIndexItem(row)
  /\ \A t \in Sessions \ {s} : \E row \in Visible(t) : row.yotiSessionId # y
  /\ ~Expired(item)

\* getSessionByYotiId(y) finds no item and throws.
NoSessionByYotiId(y) ==
  \A s \in Sessions : \E row \in Visible(s) : row.yotiSessionId # y

\* Mutant: any session with a code will do.
SessionByAuthorizationCodeAnyCode(c, s, row) ==
  row \in Visible(s) /\ row.authorizationCode # None /\ ~Expired(row)

\* getSessionByAuthorizationCode(c) returns this version.
SessionByAuthorizationCode(c, s, row) ==
  /\ row \in Visible(s) /\ row.authorizationCode = c /\ ~Expired(row)
  /\ \A t \in Sessions \ {s} : \E r \in Visible(t) : r.authorizationCode # c

-----------------------------------------------------------------------------
(* Writes. Unconditional, and an update of a missing item creates it.      *)

Put(s, row) ==
  /\ session' = [session EXCEPT ![s] = row]
  /\ stale' = [stale EXCEPT ![s] = IF Cardinality(@) < MaxStale
                                     THEN @ \cup {session[s]} ELSE @]

createAuthSession(s) ==
  Put(s, [NoRow EXCEPT !.authSessionState = "F2F_SESSION_CREATED",
                       !.createdDate = now,
                       !.expiryDate = now + AuthSessionTtl])

updateSessionWithYotiIdAndStatus(s, y) ==
  Put(s, [session[s] EXCEPT !.yotiSessionId = y,
                            !.authSessionState = "F2F_YOTI_SESSION_CREATED"])

updateSessionTtl(s) ==
  Put(s, [session[s] EXCEPT !.expiryDate = now + AuthSessionTtl])

\* Mutant: the state the selection led to is written with it once more.
addUsersSelectedDocumentAndState(s) ==
  Put(s, [session[s] EXCEPT !.documentUsed = TRUE,
                            !.authSessionState = "F2F_YOTI_SESSION_CREATED"])

addUsersSelectedDocument(s) == Put(s, [session[s] EXCEPT !.documentUsed = TRUE])

setAuthorizationCode(s, c) ==
  Put(s, [session[s] EXCEPT !.authorizationCode = c,
                            !.authSessionState = "F2F_AUTH_CODE_ISSUED"])

updateSessionWithAccessTokenDetails(s) ==
  Put(s, [session[s] EXCEPT !.authorizationCode = None,
                            !.authSessionState = "F2F_ACCESS_TOKEN_ISSUED"])

\* Mutant: the item is replaced instead of updated.
updateSessionAuthStatePutsItem(s, state) ==
  Put(s, [NoRow EXCEPT !.authSessionState = state])

updateSessionAuthState(s, state) ==
  Put(s, [session[s] EXCEPT !.authSessionState = state])

updateReminderEmailFlag(s) == Put(s, [session[s] EXCEPT !.reminderEmailSent = TRUE])

markSessionAsExpired(s) ==
  Put(s, [session[s] EXCEPT !.expiredNotificationSent = TRUE,
                            !.authSessionState = "F2F_SESSION_EXPIRED"])

\* DynamoDB deletes an item some time after its TimeToLive attribute passed.
TimeToLive(s) ==
  /\ Expired(session[s])
  /\ Put(s, NoRow)
  /\ UNCHANGED <<now, person, clientVars, yotiVars, invocation, expiry, sinks, faults>>

\* The indexes and replicas catch up with the table.
Propagate(s) ==
  /\ stale[s] # {}
  /\ stale' = [stale EXCEPT ![s] = {}]
  /\ UNCHANGED <<now, session, person, clientVars, yotiVars, invocation, expiry,
                 sinks, faults>>

-----------------------------------------------------------------------------
(* Queues, failures and time.                                              *)

Fault == faults < MaxFaults /\ faults' = faults + 1

\* sendToTXMA where the caller logs a failure and goes on.
SendToTxmaOrLog(s, events) ==
  \E sent \in SUBSET events :
    /\ audit' = audit \cup {[event |-> e, sid |-> s] : e \in sent}
    /\ IF sent = events THEN UNCHANGED faults ELSE Fault

\* sendToTXMA where a failure is thrown.
SendToTxma(s, event) == audit' = audit \cup {[event |-> event, sid |-> s]}

sendToIPVCore(kind, s, y) ==
  toCore' = toCore \cup {[kind |-> kind, sid |-> s, yotiSessionId |-> y]}

IsIdle(i) == invocation[i] = Idle
At(i, step) == invocation[i].at = step
Goto(i, step) == invocation' = [invocation EXCEPT ![i].at = step]
Return(i) == invocation' = [invocation EXCEPT ![i] = Idle]

\* A call of the invocation fails, or the Lambda crashes or times out: it ends
\* here, and what it wrote before stays written.
InvocationFails(i) ==
  /\ ~IsIdle(i)
  /\ Return(i)
  /\ Fault
  /\ UNCHANGED <<now, tables, clientVars, yotiVars, expiry, sinks>>

Tick ==
  /\ now < LastDay
  /\ now' = now + 1
  /\ UNCHANGED <<tables, clientVars, yotiVars, invocation, expiry, sinks, faults>>

ServiceInit ==
  /\ now = 0
  /\ session = [s \in Sessions |-> NoRow]
  /\ stale = [s \in Sessions |-> {}]
  /\ person = [s \in Sessions |-> [claims |-> FALSE, pdfPreference |-> None]]
  /\ client = [s \in Sessions |-> "none"]
  /\ codes = [c \in Codes |-> None]
  /\ tokens = [c \in Codes |-> 0]
  /\ yoti = [y \in YotiSessions |->
               [owner |-> None, createdDate |-> 0, progress |-> "unused"]]
  /\ letters = {}
  /\ callbacks = [m \in YotiSessions \X Topics |-> 0]
  /\ invocation = [i \in Invocations |-> Idle]
  /\ expiry = [at |-> "idle", todo |-> {}, batch |-> {}]
  /\ toCore = {}
  /\ audit = {}
  /\ faults = 0

ServiceNext ==
  \/ \E s \in Sessions : TimeToLive(s) \/ Propagate(s)
  \/ \E i \in Invocations : InvocationFails(i)
  \/ Tick

\* The type of every variable.
TypeOK ==
  /\ now \in Nat
  /\ session \in [Sessions -> Row]
  /\ stale \in [Sessions -> SUBSET Row]
  /\ person \in [Sessions -> PersonRow]
  /\ client \in [Sessions -> {"none", "pending", "known"}]
  /\ codes \in [Codes -> Sessions \cup {None}]
  /\ tokens \in [Codes -> Nat]
  /\ yoti \in [YotiSessions -> [owner : Sessions \cup {None}, createdDate : Nat,
                                progress : YotiProgress]]
  /\ letters \subseteq Letter
  /\ callbacks \in [YotiSessions \X Topics -> 0 .. MaxReceiveCount]
  /\ invocation \in [Invocations -> Invocation]
  /\ expiry \in [at : {"idle", "notify", "mark"}, todo : SUBSET Sessions,
                 batch : SUBSET Sessions]
  /\ toCore \subseteq CoreMessage
  /\ audit \subseteq [event : AuditEvents, sid : Sessions]
  /\ faults \in Nat
=============================================================================
