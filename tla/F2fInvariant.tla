---------------------------- MODULE F2fInvariant ----------------------------
(***************************************************************************)
(* The inductive invariant of F2fJourney: why its safety properties hold.  *)
(*                                                                         *)
(* Every version of a row a read may return, and every value an invocation *)
(* carries across an await, is backed by a fact that no later step takes   *)
(* back: an owner of a Yoti session, a letter, an event, a message, a code.*)
(* An overwritten or outdated row is then as good as the last one.         *)
(***************************************************************************)
EXTENDS F2fJourney

Issued(s) == \E m \in toCore : m.kind = "credential" /\ m.sid = s

\* The letter with the barcode of the Yoti session y was started.
HasLetter(y) == \E letter \in letters : letter.yotiSessionId = y

\* The states in which a user has instructions and has not been at a Post Office.
InstructedStates ==
  {"F2F_YOTI_SESSION_CREATED", "F2F_AUTH_CODE_ISSUED", "F2F_ACCESS_TOKEN_ISSUED"}

\* What a version of the row of session s implies, however old it is.
RowBacked(s, row) ==
  /\ row.yotiSessionId # None =>
       yoti[row.yotiSessionId].owner = s /\ HasLetter(row.yotiSessionId)
  /\ row.authSessionState \in InstructedStates => LetterStarted(s)
  /\ row.authSessionState = "F2F_YOTI_SESSION_COMPLETE" =>
       Audited("F2F_DOCUMENT_UPLOADED", s)
  /\ row.authSessionState = "F2F_CREDENTIAL_ISSUED" => Issued(s)
  /\ row.authorizationCode # None => codes[row.authorizationCode] = s

\* What the place an invocation has reached implies.
CompletionSteps == {"completion:yoti", "completion:credential", "completion:update"}

InvocationTyped(v) ==
  /\ v.at # "idle" => v.sid \in Sessions
  /\ v.at \in {"docSelect:letter", "docSelect:yotiId", "thankYou:audit"}
        \cup CompletionSteps => v.yotiSessionId \in YotiSessions
  /\ v.at \in {"docSelect:preference", "docSelect:yoti", "docSelect:letter"} =>
       v.pdfPreference \in PdfPreferences
  /\ v.at = "token:update" => v.code \in Codes

InvocationBacked(v) ==
  /\ InvocationTyped(v)
  /\ v.at \in {"docSelect:letter", "docSelect:yotiId", "thankYou:audit"}
        \cup CompletionSteps => yoti[v.yotiSessionId].owner = v.sid
  /\ v.at \in {"docSelect:yotiId", "authorization:code"} => LetterStarted(v.sid)
  /\ v.at = "docSelect:yotiId" => HasLetter(v.yotiSessionId)
  /\ v.at = "token:update" => codes[v.code] = v.sid
  /\ \/ v.at \in {"thankYou:update", "completion:credential", "completion:update"}
     \/ v.at = "completion:yoti" /\ v.row.authSessionState = "F2F_YOTI_SESSION_COMPLETE"
     => Audited("F2F_DOCUMENT_UPLOADED", v.sid)
  /\ v.at = "completion:update" => Issued(v.sid)

MessageBacked(m) == m.kind = "credential" =>
  /\ m.yotiSessionId \in YotiSessions
  /\ yoti[m.yotiSessionId].owner = m.sid
  /\ Audited("F2F_DOCUMENT_UPLOADED", m.sid)

CodeBacked(c) == codes[c] # None => LetterStarted(codes[c])

\* All of it, in every reachable state: the invariant the safety properties are
\* proved from.
Backed ==
  /\ TypeOK
  /\ \A s \in Sessions : \A row \in Visible(s) : RowBacked(s, row)
  /\ \A i \in Invocations : InvocationBacked(invocation[i])
  /\ \A m \in toCore : MessageBacked(m)
  /\ \A c \in Codes : CodeBacked(c)

-----------------------------------------------------------------------------
(* Why RestartMeansTwoLetters holds.                                       *)

\* This document selection has opened a Yoti session that is not on the row yet.
HasOpened(v) == v.at \in {"docSelect:letter", "docSelect:yotiId"}

\* A letter was started for s, with a Yoti session nobody is about to write any more.
LetterSettled(s) ==
  \E letter \in letters :
    /\ yoti[letter.yotiSessionId].owner = s
    /\ \A i \in Invocations :
         HasOpened(invocation[i]) => invocation[i].yotiSessionId # letter.yotiSessionId

\* The states no row has before a document selection wrote it.
SettledStates == InstructedStates \cup
  {"F2F_POST_OFFICE_VISITED", "F2F_YOTI_SESSION_COMPLETE", "F2F_CREDENTIAL_ISSUED"}

RowSettled(s, row) ==
  row.yotiSessionId # None \/ row.authSessionState \in SettledStates => LetterSettled(s)

\* Who was admitted by such a row carries that across an await.
SettledSteps ==
  {"authorization:code", "token:update", "visit:update", "thankYou:audit",
   "thankYou:update"} \cup CompletionSteps

InvocationSettled(v) == v.at \in SettledSteps => LetterSettled(v.sid)

\* Once a document selection has written its Yoti session, that is settled for good,
\* even if the row goes; and each Yoti session is written by the one that opened it.
StartsSettled ==
  /\ \A s \in Sessions : \A row \in Visible(s) : RowSettled(s, row)
  /\ \A i \in Invocations : InvocationSettled(invocation[i])
  /\ \A i, j \in Invocations :
       /\ HasOpened(invocation[i]) /\ HasOpened(invocation[j])
       /\ invocation[i].yotiSessionId = invocation[j].yotiSessionId
       => i = j

-----------------------------------------------------------------------------
(* Why AnswerIsFinal holds where SQS delivers a message once.              *)

\* A processor of the session_completion callback of y is under way.
Completes(i, y) == invocation[i].at \in CompletionSteps /\ invocation[i].yotiSessionId = y

Answered(kind, y) == \E m \in toCore : m.kind = kind /\ m.yotiSessionId = y

CompletionMessage(y) == <<y, "session_completion">>

\* There is one session_completion message; while it waits nobody processes it, one
\* invocation does, and its credential is sent by that invocation's next to last step.
AnswerOnce(y) ==
  /\ yoti[y].owner = None => yoti[y].progress = "unused"
  /\ \/ callbacks[CompletionMessage(y)] > 0
     \/ \E i \in Invocations : Completes(i, y)
     \/ Answered("credential", y) \/ Answered("error", y)
     => yoti[y].progress = "completed"
  /\ callbacks[CompletionMessage(y)] > 0 =>
       /\ \A i \in Invocations : ~Completes(i, y)
       /\ ~Answered("credential", y) /\ ~Answered("error", y)
  /\ \A i, j \in Invocations : Completes(i, y) /\ Completes(j, y) => i = j
  /\ \A i \in Invocations : Completes(i, y) =>
       /\ ~Answered("error", y)
       /\ Answered("credential", y) => invocation[i].at = "completion:update"
  /\ ~(Answered("credential", y) /\ Answered("error", y))

AnswersOnce == \A y \in YotiSessions : AnswerOnce(y)

-----------------------------------------------------------------------------
(* What the invocations of a session may rely on when they do not overlap. *)

\* Reads see every write.
FreshReads == \A s \in Sessions : stale[s] = {}

\* At most one invocation is under way for a session.
OneAtATime ==
  \A i, j \in Invocations :
    ~IsIdle(i) /\ ~IsIdle(j) /\ invocation[i].sid = invocation[j].sid => i = j

\* The schedule marks no session while an invocation for it is under way.
SweepApart ==
  \A i \in Invocations :
    ~IsIdle(i) => ~(expiry.at = "mark" /\ invocation[i].sid \in expiry.todo)

Alone == FreshReads /\ OneAtATime

\* Nothing was written for a session nobody has asked for.
Unasked(s) ==
  /\ session[s] = NoRow
  /\ \A i \in Invocations : invocation[i].sid # s
  /\ \A y \in YotiSessions : yoti[y].owner # s

\* This document selection is about to open a Yoti session.
Opens(v) == \/ v.at = "docSelect:yoti"
            \/ v.at = "docSelect:preference" /\ MayCreateYotiSession(v.row)

\* Why YotiSessionIsStable holds: the row a document selection was admitted by is
\* still without a Yoti session when the new one is written.
RowsWait ==
  /\ \A s \in Sessions : client[s] = "none" => Unasked(s)
  /\ \A i \in Invocations :
       Opens(invocation[i]) \/ HasOpened(invocation[i]) =>
         session[invocation[i].sid].yotiSessionId = None

\* Why OneYotiSession holds: once a Yoti session is open for a session, its row no
\* longer admits a document selection, or the selection that opened it is under way.
Opened(s) ==
  \/ /\ session[s].authSessionState # "F2F_SESSION_CREATED"
     /\ \A i \in Invocations : invocation[i].sid = s => ~Opens(invocation[i])
  \/ \E i \in Invocations : invocation[i].sid = s /\ HasOpened(invocation[i])

OpenedOnce ==
  faults = 0 =>
    /\ OneYotiSession
    /\ \A y \in YotiSessions : yoti[y].owner # None => Opened(yoti[y].owner)

\* Why CodeExchangedOnce holds: a code that was exchanged is on no row any more and
\* nobody is about to exchange it.
Spent(c) ==
  /\ codes[c] # None
  /\ \A s \in Sessions : session[s].authorizationCode # c
  /\ \A i \in Invocations : ~(At(i, "token:update") /\ invocation[i].code = c)

CodesSpent == \A c \in Codes : tokens[c] <= 1 /\ (tokens[c] > 0 => Spent(c))

\* Why OnlyCallbacksGoBack holds: the state an endpoint has seen is still there, or
\* the row is gone, when it writes the next one.
Admits(v, state) ==
  \/ state = None
  \/ /\ Opens(v) \/ HasOpened(v) => state = "F2F_SESSION_CREATED"
     /\ v.at = "authorization:code" => state = "F2F_YOTI_SESSION_CREATED"
     /\ v.at = "token:update" => state = "F2F_AUTH_CODE_ISSUED"

StatesWait ==
  \A i \in Invocations :
    ~IsIdle(i) => Admits(invocation[i], session[invocation[i].sid].authSessionState)

-----------------------------------------------------------------------------
(* Why MarkedMeansReported holds while no call fails.                      *)

Reported(s) == [kind |-> "expired", sid |-> s, yotiSessionId |-> None] \in toCore

\* The second phase marks whom the first phase has reported.
ReportedFirst ==
  faults = 0 =>
    /\ MarkedMeansReported
    /\ expiry.todo \subseteq expiry.batch
    /\ expiry.at = "notify" => \A s \in expiry.batch \ expiry.todo : Reported(s)
    /\ expiry.at = "mark" => \A s \in expiry.batch : Reported(s)
=============================================================================
