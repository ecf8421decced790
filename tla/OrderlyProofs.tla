---------------------------- MODULE OrderlyProofs ----------------------------
(***************************************************************************)
(* Proofs of what takes more to hold of F2fJourney than its specification: *)
(* queues that deliver once, calls that do not fail, invocations of one    *)
(* session that do not overlap and reads that see every write. Each        *)
(* theorem names what it takes, for any sets of ids and bounds; the last   *)
(* one takes nothing, and says what is left of two of the others.          *)
(***************************************************************************)
EXTENDS ExpiryProofs, FiniteSetTheorems

-----------------------------------------------------------------------------
(* What a step does to the invocations.                                    *)

Turn(i) == \A j \in Invocations : j # i => invocation'[j] = invocation[j]

LEMMA GotoTurn ==
  ASSUME TypeOK, NEW i \in Invocations, NEW step \in Steps, Goto(i, step)
  PROVE  /\ Turn(i)
         /\ invocation'[i].at = step
         /\ invocation'[i].sid = invocation[i].sid
         /\ invocation'[i].row = invocation[i].row
         /\ invocation'[i].yotiSessionId = invocation[i].yotiSessionId
         /\ invocation'[i].code = invocation[i].code
<1>1. PICK v \in Invocation : v = invocation[i]
  BY DEF TypeOK
<1>2. PICK w \in Invocation : w = [v EXCEPT !.at = step]
  BY MovedTyped, NoRowTyped
<1>3. invocation' = [invocation EXCEPT ![i] = w]
  BY <1>1, <1>2 DEF TypeOK, Goto
<1>4. Turn(i) /\ invocation'[i] = w
  BY <1>3 DEF TypeOK, Turn
<1>5. /\ w.at = step /\ w.sid = v.sid /\ w.row = v.row
      /\ w.yotiSessionId = v.yotiSessionId /\ w.code = v.code
  BY <1>2 DEF Invocation
<1> QED BY <1>1, <1>4, <1>5

LEMMA ReturnTurn ==
  ASSUME TypeOK, NEW i \in Invocations, Return(i)
  PROVE  Turn(i) /\ invocation'[i] = Idle
BY DEF TypeOK, Return, Turn

\* A request or a callback that begins.
LEMMA StartTurn ==
  ASSUME TypeOK, NEW i \in Invocations, NEW v,
         invocation' = [invocation EXCEPT ![i] = v]
  PROVE  Turn(i) /\ invocation'[i] = v
BY DEF TypeOK, Turn

\* The invocation goes on, and the row it read is needed no longer.
LEMMA ForgetTurn ==
  ASSUME TypeOK, NEW i \in Invocations, NEW step \in Steps,
         invocation' = [invocation EXCEPT ![i].at = step, ![i].row = NoRow]
  PROVE  /\ Turn(i)
         /\ invocation'[i].at = step
         /\ invocation'[i].sid = invocation[i].sid
         /\ invocation'[i].yotiSessionId = invocation[i].yotiSessionId
         /\ invocation'[i].code = invocation[i].code
<1>1. PICK v \in Invocation : v = invocation[i]
  BY DEF TypeOK
<1>2. PICK w \in Invocation : w = [v EXCEPT !.at = step, !.row = NoRow]
  BY MovedTyped, NoRowTyped
<1>3. invocation' = [invocation EXCEPT ![i] = w]
  BY <1>1, <1>2 DEF TypeOK
<1>4. Turn(i) /\ invocation'[i] = w
  BY <1>3 DEF TypeOK, Turn
<1>5. /\ w.at = step /\ w.sid = v.sid
      /\ w.yotiSessionId = v.yotiSessionId /\ w.code = v.code
  BY <1>2 DEF Invocation
<1> QED BY <1>1, <1>4, <1>5

LEMMA IdleFields == Idle.at = "idle" /\ Idle.sid = None /\ Idle.yotiSessionId = None
BY DEF Idle

LEMMA ReadTurn ==
  ASSUME TypeOK, NEW i \in Invocations, NEW s, NEW step,
         invocation' = [invocation EXCEPT ![i] = [Idle EXCEPT !.at = step, !.sid = s]]
  PROVE  Turn(i) /\ invocation'[i].at = step /\ invocation'[i].sid = s
<1> DEFINE v == [Idle EXCEPT !.at = step, !.sid = s]
<1>1. v.at = step /\ v.sid = s
  BY DEF Idle
<1>2. invocation' = [invocation EXCEPT ![i] = v]
  OBVIOUS
<1> HIDE DEF v
<1> QED BY <1>1, <1>2, StartTurn

\* The three endpoints that keep nothing of the row they looked at.
LEMMA RequestTurn ==
  ASSUME TypeOK, NEW i \in Invocations, NEW s \in Sessions
  PROVE  /\ SessionCreate(i, s) =>
              Turn(i) /\ invocation'[i].at = "session:person" /\ invocation'[i].sid = s
         /\ AuthorizationRead(i, s) =>
              Turn(i) /\ invocation'[i].at = "authorization:code" /\ invocation'[i].sid = s
         /\ AbortRead(i, s) =>
              Turn(i) /\ invocation'[i].at = "abort:update" /\ invocation'[i].sid = s
<1>1. ASSUME SessionCreate(i, s)
      PROVE  Turn(i) /\ invocation'[i].at = "session:person" /\ invocation'[i].sid = s
  <2>1. invocation' = [invocation EXCEPT ![i] =
                         [Idle EXCEPT !.at = "session:person", !.sid = s]]
    BY <1>1 DEF SessionCreate
  <2> QED BY <2>1, ReadTurn
<1>2. ASSUME AuthorizationRead(i, s)
      PROVE  Turn(i) /\ invocation'[i].at = "authorization:code" /\ invocation'[i].sid = s
  <2>1. invocation' = [invocation EXCEPT ![i] =
                         [Idle EXCEPT !.at = "authorization:code", !.sid = s]]
    BY <1>2 DEF AuthorizationRead
  <2> QED BY <2>1, ReadTurn
<1>3. ASSUME AbortRead(i, s)
      PROVE  Turn(i) /\ invocation'[i].at = "abort:update" /\ invocation'[i].sid = s
  <2>1. invocation' = [invocation EXCEPT ![i] =
                         [Idle EXCEPT !.at = "abort:update", !.sid = s]]
    BY <1>3 DEF AbortRead
  <2> QED BY <2>1, ReadTurn
<1> QED BY <1>1, <1>2, <1>3

LEMMA DocReadTurn ==
  ASSUME TypeOK, NEW i \in Invocations, NEW s, NEW row, NEW pref,
         invocation' = [invocation EXCEPT ![i] =
                          [Idle EXCEPT !.at = "docSelect:preference", !.sid = s,
                                       !.row = row, !.pdfPreference = pref]]
  PROVE  /\ Turn(i) /\ invocation'[i].at = "docSelect:preference"
         /\ invocation'[i].sid = s /\ invocation'[i].row = row
<1> DEFINE v == [Idle EXCEPT !.at = "docSelect:preference", !.sid = s,
                             !.row = row, !.pdfPreference = pref]
<1>1. v.at = "docSelect:preference" /\ v.sid = s /\ v.row = row
  BY DEF Idle
<1>2. invocation' = [invocation EXCEPT ![i] = v]
  OBVIOUS
<1> HIDE DEF v
<1> QED BY <1>1, <1>2, StartTurn

LEMMA TokenReadTurn ==
  ASSUME TypeOK, NEW i \in Invocations, NEW s, NEW c,
         invocation' = [invocation EXCEPT ![i] =
                          [Idle EXCEPT !.at = "token:update", !.sid = s, !.code = c]]
  PROVE  /\ Turn(i) /\ invocation'[i].at = "token:update"
         /\ invocation'[i].sid = s /\ invocation'[i].code = c
<1> DEFINE v == [Idle EXCEPT !.at = "token:update", !.sid = s, !.code = c]
<1>1. v.at = "token:update" /\ v.sid = s /\ v.code = c
  BY DEF Idle
<1>2. invocation' = [invocation EXCEPT ![i] = v]
  OBVIOUS
<1> HIDE DEF v
<1> QED BY <1>1, <1>2, StartTurn

LEMMA CallbackTurn ==
  ASSUME TypeOK, NEW i \in Invocations, NEW s, NEW step, NEW row, NEW y,
         invocation' = [invocation EXCEPT ![i] =
                          [Idle EXCEPT !.at = step, !.sid = s, !.row = row,
                                       !.yotiSessionId = y]]
  PROVE  /\ Turn(i) /\ invocation'[i].at = step
         /\ invocation'[i].sid = s /\ invocation'[i].yotiSessionId = y
<1> DEFINE v == [Idle EXCEPT !.at = step, !.sid = s, !.row = row, !.yotiSessionId = y]
<1>1. v.at = step /\ v.sid = s /\ v.yotiSessionId = y
  BY DEF Idle
<1>2. invocation' = [invocation EXCEPT ![i] = v]
  OBVIOUS
<1> HIDE DEF v
<1> QED BY <1>1, <1>2, StartTurn

\* Yoti has answered the creation of a session.
LEMMA OpenTurn ==
  ASSUME TypeOK, NEW i \in Invocations, NEW y,
         invocation' = [invocation EXCEPT ![i].at = "docSelect:letter",
                                          ![i].yotiSessionId = y]
  PROVE  /\ Turn(i) /\ invocation'[i].at = "docSelect:letter"
         /\ invocation'[i].sid = invocation[i].sid /\ invocation'[i].yotiSessionId = y
<1>1. PICK v \in Invocation : v = invocation[i]
  BY DEF TypeOK
<1> DEFINE w == [v EXCEPT !.at = "docSelect:letter", !.yotiSessionId = y]
<1>2. w.at = "docSelect:letter" /\ w.sid = v.sid /\ w.yotiSessionId = y
  BY DEF Invocation
<1>3. invocation' = [invocation EXCEPT ![i] = w]
  BY <1>1 DEF TypeOK
<1> HIDE DEF w
<1> QED BY <1>1, <1>2, <1>3, StartTurn

-----------------------------------------------------------------------------
(* One answer for a Yoti session.                                          *)

\* A step that begins no completion for y, moves none on, and answers nothing.
Quiet(y) ==
  /\ callbacks'[CompletionMessage(y)] > 0 => callbacks[CompletionMessage(y)] > 0
  /\ yoti[y].progress = "completed" => yoti'[y].progress = "completed"
  /\ yoti'[y].owner = None => yoti'[y].progress = "unused"
  /\ \A i \in Invocations : Completes(i, y)' =>
       Completes(i, y) /\ invocation'[i].at = invocation[i].at
  /\ Answered("credential", y)' => Answered("credential", y)
  /\ Answered("error", y)' => Answered("error", y)

LEMMA AnswerStays ==
  ASSUME NEW y \in YotiSessions, AnswerOnce(y), Quiet(y)
  PROVE  AnswerOnce(y)'
<1>1. CompletionMessage(y)' = CompletionMessage(y)
  BY DEF CompletionMessage
<1>2. callbacks'[CompletionMessage(y)] > 0 => callbacks[CompletionMessage(y)] > 0
  BY DEF Quiet
<1>3. \A i, j \in Invocations : Completes(i, y)' /\ Completes(j, y)' => i = j
  BY DEF AnswerOnce, Quiet
<1> QED BY <1>1, <1>2, <1>3 DEF Quiet, AnswerOnce

\* Who else than Yoti writes its record only opens a session.
YotiStays ==
  \A y \in YotiSessions :
    /\ yoti[y].progress = "completed" => yoti'[y].progress = "completed"
    /\ yoti'[y].owner = None => yoti'[y].progress = "unused"

NoneAnswered == \A m \in toCore' : m \in toCore \/ m.kind = "expired"

NoneCompletes ==
  \A i \in Invocations : invocation'[i].at \in CompletionSteps =>
    invocation'[i] = invocation[i]

LEMMA AllQuiet ==
  ASSUME AnswersOnce, YotiStays, NoneAnswered, NoneCompletes,
         \A y \in YotiSessions :
           callbacks'[CompletionMessage(y)] > 0 => callbacks[CompletionMessage(y)] > 0
  PROVE  AnswersOnce'
<1> SUFFICES ASSUME NEW y \in YotiSessions PROVE AnswerOnce(y)'
  BY DEF AnswersOnce
<1>1. Quiet(y)
  BY DEF YotiStays, NoneAnswered, NoneCompletes, Quiet, Answered, Completes
<1> QED BY <1>1, AnswerStays DEF AnswersOnce

\* An invocation that returns, or goes on to a step that is not of a completion.
LEMMA TurnCompletesNone ==
  ASSUME NEW i \in Invocations, Turn(i), invocation'[i].at \notin CompletionSteps
  PROVE  NoneCompletes
BY DEF Turn, NoneCompletes

LEMMA ReturnCompletesNone ==
  ASSUME TypeOK, NEW i \in Invocations, Return(i)
  PROVE  NoneCompletes
BY ReturnTurn, TurnCompletesNone, IdleFields DEF CompletionSteps

LEMMA StaysQuiet ==
  ASSUME AnswersOnce
  PROVE  /\ UNCHANGED yoti => YotiStays
         /\ UNCHANGED toCore => NoneAnswered
         /\ UNCHANGED invocation => NoneCompletes
BY DEF AnswersOnce, AnswerOnce, YotiStays, NoneAnswered, NoneCompletes

LEMMA ServiceAnswers ==
  ASSUME Backed, AnswersOnce, ServiceNext \/ ExpiryNext \/ UNCHANGED vars
  PROVE  AnswersOnce'
<1>1. TypeOK
  BY DEF Backed
<1>2. UNCHANGED <<yoti, callbacks>>
  BY DEF ServiceNext, TimeToLive, Propagate, InvocationFails, Tick, ExpiryNext, ExpiryQuery,
         ExpiryNotify, ExpiryMark, ExpiryFails, yotiVars, vars
<1>3. NoneAnswered
  <2>1. UNCHANGED toCore \/ \E s \in Sessions : sendToIPVCore("expired", s, None)
    BY DEF ServiceNext, TimeToLive, Propagate, InvocationFails, Tick, ExpiryNext, ExpiryQuery,
           ExpiryNotify, ExpiryMark, ExpiryFails, sinks, vars
  <2> QED BY <2>1 DEF sendToIPVCore, NoneAnswered
<1>4. NoneCompletes
  <2>1. UNCHANGED invocation \/ \E i \in Invocations : Return(i)
    BY DEF ServiceNext, TimeToLive, Propagate, InvocationFails, Tick, ExpiryNext, ExpiryQuery,
           ExpiryNotify, ExpiryMark, ExpiryFails, vars
  <2> QED BY <1>1, <2>1, ReturnCompletesNone, StaysQuiet
<1> QED BY <1>2, <1>3, <1>4, StaysQuiet, AllQuiet

LEMMA ApiAnswers ==
  ASSUME Backed, AnswersOnce, ApiNext
  PROVE  AnswersOnce'
<1>1. TypeOK
  BY DEF Backed
<1>2. UNCHANGED <<callbacks, toCore>>
  BY DEF ApiNext, SessionCreate, AuthorizationRead, AbortRead, DocSelectRead,
         SessionSavePerson, DocSelectPreference, DocSelectLetter, DocSelectYotiId,
         DocSelectTtl, DocSelectDocument, DocSelectYoti, AuthorizationCode, TokenRead,
         TokenUpdate, AbortUpdate, yotiVars, sinks
<1>3. YotiStays
  <2>1. ASSUME NEW i \in Invocations, NEW y \in YotiSessions, DocSelectYoti(i, y)
        PROVE  YotiStays
    <3>1. yoti[y].owner = None /\ invocation[i].sid # None
      BY <2>1, NoneAssumption
         DEF DocSelectYoti, At, Backed, InvocationBacked, InvocationTyped
    <3>2. /\ yoti'[y].owner = invocation[i].sid
          /\ \A z \in YotiSessions : z # y => yoti'[z] = yoti[z]
      BY <1>1, <2>1 DEF DocSelectYoti, TypeOK
    <3> QED BY <3>1, <3>2 DEF YotiStays, AnswersOnce, AnswerOnce
  <2>2. UNCHANGED yoti \/ \E i \in Invocations, y \in YotiSessions : DocSelectYoti(i, y)
    BY DEF ApiNext, SessionCreate, AuthorizationRead, AbortRead, DocSelectRead,
         SessionSavePerson, DocSelectPreference, DocSelectLetter, DocSelectYotiId,
         DocSelectTtl, DocSelectDocument, AuthorizationCode, TokenRead,
         TokenUpdate, AbortUpdate, yotiVars
  <2> QED BY <2>1, <2>2, StaysQuiet
<1>4. NoneCompletes
  <2>1. ASSUME NEW i \in Invocations, NEW s \in Sessions,
               SessionCreate(i, s) \/ AuthorizationRead(i, s) \/ AbortRead(i, s)
        PROVE  NoneCompletes
    <3>1. Turn(i) /\ invocation'[i].at \notin CompletionSteps
      BY <1>1, <2>1, RequestTurn DEF CompletionSteps
    <3> QED BY <3>1, TurnCompletesNone
  <2>2. ASSUME NEW i \in Invocations, NEW s \in Sessions, NEW pref \in PdfPreferences,
               DocSelectRead(i, s, pref)
        PROVE  NoneCompletes
    <3>1. PICK row \in Visible(s) :
            invocation' = [invocation EXCEPT ![i] =
                             [Idle EXCEPT !.at = "docSelect:preference", !.sid = s,
                                          !.row = row, !.pdfPreference = pref]]
      BY <2>2 DEF DocSelectRead
    <3>2. Turn(i) /\ invocation'[i].at = "docSelect:preference"
      BY <1>1, <3>1, DocReadTurn
    <3> QED BY <3>2, TurnCompletesNone DEF CompletionSteps
  <2>3. ASSUME NEW i \in Invocations, NEW c \in Codes, TokenRead(i, c)
        PROVE  NoneCompletes
    <3>1. PICK s \in Sessions :
            invocation' = [invocation EXCEPT ![i] =
                             [Idle EXCEPT !.at = "token:update", !.sid = s, !.code = c]]
      BY <2>3 DEF TokenRead
    <3>2. Turn(i) /\ invocation'[i].at = "token:update"
      BY <1>1, <3>1, TokenReadTurn
    <3> QED BY <3>2, TurnCompletesNone DEF CompletionSteps
  <2>4. ASSUME NEW i \in Invocations, NEW step \in Steps \ CompletionSteps, Goto(i, step)
        PROVE  NoneCompletes
    BY <1>1, <2>4, GotoTurn, TurnCompletesNone
  <2>5. ASSUME NEW i \in Invocations,
               \/ DocSelectLetter(i) \/ DocSelectYotiId(i) \/ DocSelectTtl(i)
        PROVE  NoneCompletes
    BY <2>4, <2>5 DEF DocSelectLetter, DocSelectYotiId, DocSelectTtl, Steps, CompletionSteps
  <2>6. ASSUME NEW i \in Invocations, Return(i) PROVE NoneCompletes
    BY <1>1, <2>6, ReturnCompletesNone
  <2>7. ASSUME NEW i \in Invocations, DocSelectPreference(i) PROVE NoneCompletes
    <3>1. CASE invocation' = [invocation EXCEPT ![i].at = "docSelect:yoti", ![i].row = NoRow]
      BY <1>1, <3>1, ForgetTurn, TurnCompletesNone DEF Steps, CompletionSteps
    <3> QED BY <2>6, <2>7, <3>1 DEF DocSelectPreference
  <2>8. ASSUME NEW i \in Invocations, NEW y \in YotiSessions, DocSelectYoti(i, y)
        PROVE  NoneCompletes
    <3>1. CASE invocation' = [invocation EXCEPT ![i].at = "docSelect:letter",
                                               ![i].yotiSessionId = y]
      BY <1>1, <3>1, OpenTurn, TurnCompletesNone DEF CompletionSteps
    <3> QED BY <2>6, <2>8, <3>1 DEF DocSelectYoti
  <2>9. ASSUME NEW i \in Invocations,
               \/ SessionSavePerson(i) \/ DocSelectDocument(i) \/ TokenUpdate(i)
               \/ AbortUpdate(i) \/ \E c \in Codes : AuthorizationCode(i, c)
        PROVE  NoneCompletes
    BY <2>6, <2>9 DEF SessionSavePerson, DocSelectDocument, TokenUpdate, AbortUpdate,
                      AuthorizationCode
  <2> QED BY <2>1, <2>2, <2>3, <2>5, <2>7, <2>8, <2>9 DEF ApiNext
<1> QED BY <1>2, <1>3, <1>4, StaysQuiet, AllQuiet

LEMMA MessageKeys ==
  ASSUME TypeOK, NEW y \in YotiSessions, NEW topic \in Topics
  PROVE  /\ <<y, topic>> \in YotiSessions \X Topics
         /\ callbacks[<<y, topic>>] \in 0 .. MaxReceiveCount
         /\ \A z \in YotiSessions : CompletionMessage(z) \in YotiSessions \X Topics
         /\ \A z \in YotiSessions :
              CompletionMessage(z) = <<y, topic>> <=> z = y /\ topic = "session_completion"
BY DEF TypeOK, CompletionMessage, Topics

\* Taking a receive from a message adds none to any.
LEMMA OneReceiveLess ==
  ASSUME TypeOK, NEW y \in YotiSessions, NEW topic \in Topics, callbacks[<<y, topic>>] > 0,
         \/ callbacks' = [callbacks EXCEPT ![<<y, topic>>] = 0]
         \/ callbacks' = [callbacks EXCEPT ![<<y, topic>>] = @ - 1]
  PROVE  /\ \A z \in YotiSessions :
              callbacks'[CompletionMessage(z)] > 0 => callbacks[CompletionMessage(z)] > 0
         /\ MaxReceiveCount = 1 => callbacks'[<<y, topic>>] = 0
BY MessageKeys, TtlAssumption DEF TypeOK

\* Yoti reports its last event only once.
LEMMA ReportAnswers ==
  ASSUME Backed, AnswersOnce, NEW y \in YotiSessions, NEW report \in Reports,
         YotiReports(y, report)
  PROVE  AnswersOnce'
<1>1. TypeOK /\ UNCHANGED <<invocation, toCore>> /\ report.topic \in Topics
  BY DEF YotiReports, Backed, sinks, Reports, Topics
<1>2. \A z \in YotiSessions : /\ yoti'[z].owner = yoti[z].owner
                              /\ z # y => yoti'[z].progress = yoti[z].progress
  BY <1>1 DEF YotiReports, TypeOK
<1>3. yoti[y].progress = report.from /\ yoti'[y].progress = report.to
  BY <1>1 DEF YotiReports, TypeOK
<1>4. \A z \in YotiSessions : AnswerOnce(z)
  BY DEF AnswersOnce
<1>5. \A z \in YotiSessions : z # y \/ report.topic # "session_completion" =>
        callbacks'[CompletionMessage(z)] = callbacks[CompletionMessage(z)]
  BY <1>1, MessageKeys DEF YotiReports, TypeOK
<1>6. report.from \notin {"completed", "unused"}
  BY DEF Reports
<1>7. \A i \in Invocations, z \in YotiSessions :
        Completes(i, z)' => Completes(i, z) /\ invocation'[i].at = invocation[i].at
  BY <1>1 DEF Completes
<1>8. \A z \in YotiSessions : /\ Answered("credential", z)' => Answered("credential", z)
                              /\ Answered("error", z)' => Answered("error", z)
  BY <1>1 DEF Answered
<1>9. ASSUME NEW z \in YotiSessions, z # y \/ report.topic # "session_completion"
      PROVE  AnswerOnce(z)'
  <2>1. yoti[z].progress = "completed" => yoti'[z].progress = "completed"
    BY <1>2, <1>3, <1>6
  <2>2. yoti'[z].owner = None => yoti'[z].progress = "unused"
    BY <1>2, <1>3, <1>4, <1>6 DEF AnswerOnce
  <2>3. Quiet(z)
    BY <1>5, <1>7, <1>8, <1>9, <2>1, <2>2 DEF Quiet
  <2> QED BY <1>4, <2>3, AnswerStays
<1>10. CASE report.topic = "session_completion"
  <2>1. yoti'[y].progress = "completed" /\ yoti[y].progress = "uploaded"
    BY <1>3, <1>10 DEF Reports
  <2>2. /\ \A i \in Invocations : ~Completes(i, y)'
        /\ ~Answered("credential", y)' /\ ~Answered("error", y)'
        /\ yoti'[y].owner # None
    BY <1>2, <1>4, <1>7, <1>8, <2>1 DEF AnswerOnce
  <2>3. AnswerOnce(y)'
    BY <2>1, <2>2 DEF AnswerOnce
  <2> QED BY <1>9, <2>3 DEF AnswersOnce
<1> QED BY <1>9, <1>10 DEF AnswersOnce

\* The invocation a session_completion message starts is the only one.
LEMMA StartAnswers ==
  ASSUME Backed, AnswersOnce, MaxReceiveCount = 1, NEW i \in Invocations,
         NEW y \in YotiSessions, NEW topic \in Topics, CallbackStarts(i, y, topic)
  PROVE  AnswersOnce'
<1>1. TypeOK /\ UNCHANGED <<yoti, toCore>>
  BY DEF CallbackStarts, Backed, sinks
<1>2. PICK s \in Sessions, row \in Row :
        invocation' = [invocation EXCEPT ![i] =
                         [Idle EXCEPT !.at = FirstStep(topic), !.sid = s,
                                      !.row = YotiIndexItem(row), !.yotiSessionId = y]]
  BY VisibleTyped, <1>1 DEF CallbackStarts
<1>3. Turn(i) /\ invocation'[i].at = FirstStep(topic) /\ invocation'[i].yotiSessionId = y
  BY <1>1, <1>2, CallbackTurn
<1>4. callbacks[<<y, topic>>] > 0 /\ invocation[i].at = "idle"
  BY IdleFields DEF CallbackStarts, Receive, IsIdle
<1>5. /\ \A z \in YotiSessions :
           callbacks'[CompletionMessage(z)] > 0 => callbacks[CompletionMessage(z)] > 0
      /\ callbacks'[<<y, topic>>] = 0
  BY <1>1, <1>4, OneReceiveLess DEF CallbackStarts, Receive
<1>6. CASE topic # "session_completion"
  <2>1. FirstStep(topic) \notin CompletionSteps
    BY <1>6 DEF FirstStep, Topics, CompletionSteps
  <2> QED BY <1>1, <1>3, <1>5, <2>1, TurnCompletesNone, StaysQuiet, AllQuiet
<1>7. CASE topic = "session_completion"
  <2>1. FirstStep(topic) = "completion:yoti"
    BY <1>7 DEF FirstStep
  <2>2. \A z \in YotiSessions : AnswerOnce(z)
    BY DEF AnswersOnce
  <2>5. \A z \in YotiSessions : /\ Answered("credential", z)' => Answered("credential", z)
                                /\ Answered("error", z)' => Answered("error", z)
    BY <1>1 DEF Answered
  <2>3. ASSUME NEW z \in YotiSessions, z # y PROVE AnswerOnce(z)'
    <3>1. \A j \in Invocations : Completes(j, z)' =>
            Completes(j, z) /\ invocation'[j].at = invocation[j].at
      BY <1>3, <2>3 DEF Completes, Turn
    <3>2. Quiet(z)
      BY <1>1, <1>5, <2>5, <3>1, StaysQuiet DEF Quiet, YotiStays
    <3> QED BY <2>2, <3>2, AnswerStays
  <2>4. AnswerOnce(y)'
    <3>1. CompletionMessage(y) = <<y, topic>> /\ CompletionMessage(y)' = CompletionMessage(y)
      BY <1>7 DEF CompletionMessage
    <3>2. /\ \A j \in Invocations : ~Completes(j, y)
          /\ ~Answered("credential", y) /\ ~Answered("error", y)
          /\ yoti[y].progress = "completed"
      BY <1>4, <2>2, <3>1 DEF AnswerOnce
    <3>3. \A j \in Invocations : Completes(j, y)' => j = i
      BY <1>3, <3>2 DEF Completes, Turn
    <3>6. ~Answered("credential", y)' /\ ~Answered("error", y)'
      BY <2>5, <3>2
    <3>4. yoti'[y] = yoti[y] /\ yoti[y].owner # None
      BY <1>1, <2>2, <3>2 DEF AnswerOnce
    <3>5. callbacks'[CompletionMessage(y)] = 0
      BY <1>5, <3>1
    <3> QED BY <3>1, <3>2, <3>3, <3>4, <3>5, <3>6 DEF AnswerOnce
  <2> QED BY <2>3, <2>4 DEF AnswersOnce
<1> QED BY <1>6, <1>7

\* An error is sent by the invocation that ends with it, a credential by the one that
\* is about to write the state.
LEMMA CompletionAnswers ==
  ASSUME Backed, AnswersOnce, NEW i \in Invocations, UNCHANGED <<yoti, callbacks>>,
         NEW y \in YotiSessions, Completes(i, y),
         \/ Return(i) /\ sendToIPVCore("error", invocation[i].sid, y)
              /\ ~(At(i, "completion:update"))
         \/ At(i, "completion:yoti") /\ UNCHANGED toCore
              /\ invocation' = [invocation EXCEPT ![i].at = "completion:credential",
                                                  ![i].row = NoRow]
         \/ /\ At(i, "completion:credential")
            /\ sendToIPVCore("credential", invocation[i].sid, y)
            /\ Goto(i, "completion:update")
  PROVE  AnswersOnce'
<1>1. TypeOK
  BY DEF Backed
<1>2. \A z \in YotiSessions : AnswerOnce(z)
  BY DEF AnswersOnce
<1>3. /\ Turn(i)
      /\ \/ invocation'[i] = Idle
         \/ /\ invocation'[i].yotiSessionId = y
            /\ invocation'[i].at \in {"completion:credential", "completion:update"}
  BY <1>1, ReturnTurn, GotoTurn, ForgetTurn DEF Steps, Completes
<1>4. \A m \in toCore' : m \in toCore \/ m.yotiSessionId = y
  BY DEF sendToIPVCore
<1>5. ASSUME NEW z \in YotiSessions, z # y PROVE AnswerOnce(z)'
  <2>1. \A j \in Invocations : Completes(j, z)' =>
          Completes(j, z) /\ invocation'[j].at = invocation[j].at
    BY <1>3, <1>5, IdleFields, NoneAssumption DEF Completes, Turn, CompletionSteps
  <2>2. /\ Answered("credential", z)' => Answered("credential", z)
        /\ Answered("error", z)' => Answered("error", z)
    BY <1>4, <1>5 DEF Answered
  <2>3. Quiet(z)
    BY <1>2, <2>1, <2>2 DEF Quiet, AnswerOnce
  <2> QED BY <1>2, <2>3, AnswerStays
<1>6. /\ yoti'[y].progress = "completed" /\ yoti'[y].owner # None
      /\ ~(callbacks'[CompletionMessage(y)] > 0)
      /\ \A j \in Invocations : Completes(j, y) => j = i
      /\ ~Answered("error", y)
      /\ Answered("credential", y) => invocation[i].at = "completion:update"
  BY <1>2 DEF AnswerOnce
<1>7. \A j \in Invocations : Completes(j, y)' => j = i
  BY <1>3, <1>6 DEF Completes, Turn
<1>8. CompletionMessage(y)' = CompletionMessage(y)
  BY DEF CompletionMessage
<1>9. CASE Return(i) /\ sendToIPVCore("error", invocation[i].sid, y)
             /\ ~(At(i, "completion:update"))
  <2>1. \A j \in Invocations : ~Completes(j, y)'
    BY <1>1, <1>7, <1>9, ReturnTurn, IdleFields DEF Completes, CompletionSteps
  <2>2. ~Answered("credential", y)'
    BY <1>6, <1>9 DEF Answered, At, sendToIPVCore
  <2>3. AnswerOnce(y)'
    BY <1>6, <1>8, <2>1, <2>2 DEF AnswerOnce
  <2> QED BY <1>5, <2>3 DEF AnswersOnce
<1>10. CASE At(i, "completion:yoti") /\ UNCHANGED toCore
  <2>1. ~Answered("credential", y)' /\ ~Answered("error", y)'
    BY <1>6, <1>10 DEF Answered, At
  <2>2. AnswerOnce(y)'
    BY <1>6, <1>7, <1>8, <2>1 DEF AnswerOnce
  <2> QED BY <1>5, <2>2 DEF AnswersOnce
<1>11. CASE /\ At(i, "completion:credential")
            /\ sendToIPVCore("credential", invocation[i].sid, y)
            /\ Goto(i, "completion:update")
  <2>1. invocation'[i].at = "completion:update"
    BY <1>1, <1>11, GotoTurn DEF Steps
  <2>2. ~Answered("error", y)'
    BY <1>6, <1>11 DEF Answered, sendToIPVCore
  <2>3. AnswerOnce(y)'
    BY <1>6, <1>7, <1>8, <2>1, <2>2 DEF AnswerOnce
  <2> QED BY <1>5, <2>3 DEF AnswersOnce
<1> QED BY <1>9, <1>10, <1>11

LEMMA CallbackAnswers ==
  ASSUME Backed, AnswersOnce, MaxReceiveCount = 1, CallbackNext
  PROVE  AnswersOnce'
<1>1. TypeOK
  BY DEF Backed
<1>2. ASSUME NEW y \in YotiSessions, NEW topic \in Topics,
             CallbackLost(y, topic) \/ StartExecutionFails(y, topic)
      PROVE  AnswersOnce'
  <2>1. UNCHANGED yoti /\ UNCHANGED invocation /\ UNCHANGED toCore
    BY <1>2 DEF CallbackLost, StartExecutionFails, sinks
  <2>2. \A z \in YotiSessions :
          callbacks'[CompletionMessage(z)] > 0 => callbacks[CompletionMessage(z)] > 0
    BY <1>1, <1>2, OneReceiveLess DEF CallbackLost, StartExecutionFails, Receive
  <2> QED BY <2>1, <2>2, StaysQuiet, AllQuiet
<1>3. ASSUME NEW i \in Invocations,
             \/ FirstBranchVisit(i) \/ ThankYouAudit(i) \/ ThankYouUpdate(i)
             \/ CompletionUpdate(i) \/ CompletionThrows(i)
      PROVE  AnswersOnce'
  <2>1. UNCHANGED yoti /\ UNCHANGED callbacks /\ UNCHANGED toCore
    BY <1>3 DEF FirstBranchVisit, ThankYouAudit, ThankYouUpdate, CompletionUpdate,
                CompletionThrows, yotiVars, sinks
  <2>2. NoneCompletes
    <3>1. CASE Return(i)
      BY <1>1, <3>1, ReturnCompletesNone
    <3>2. CASE Goto(i, "thankYou:update")
      BY <1>1, <3>2, GotoTurn, TurnCompletesNone DEF Steps, CompletionSteps
    <3> QED BY <1>3, <3>1, <3>2 DEF FirstBranchVisit, ThankYouAudit, ThankYouUpdate,
                                    CompletionUpdate, CompletionThrows
  <2> QED BY <2>1, <2>2, StaysQuiet, AllQuiet
<1>4. ASSUME NEW i \in Invocations, At(i, "completion:yoti") \/ At(i, "completion:credential"),
             CompletionRefused(i), UNCHANGED <<yoti, callbacks>>
      PROVE  AnswersOnce'
  <2>1. PICK y \in YotiSessions : y = invocation[i].yotiSessionId /\ Completes(i, y)
    BY <1>4 DEF At, Backed, InvocationBacked, InvocationTyped, CompletionSteps, Completes
  <2>2. CASE sendToIPVCore("error", invocation[i].sid, invocation[i].yotiSessionId)
    BY <1>4, <2>1, <2>2, CompletionAnswers DEF CompletionRefused, At
  <2>3. CASE UNCHANGED toCore
    BY <1>1, <1>4, <2>3, ReturnCompletesNone, StaysQuiet, AllQuiet DEF CompletionRefused
  <2> QED BY <1>4, <2>2, <2>3 DEF CompletionRefused
<1>5. ASSUME NEW i \in Invocations,
             \/ CompletionAnswerUnusable(i) \/ CompletionWrongState(i)
             \/ CompletionNoCredential(i)
      PROVE  AnswersOnce'
  BY <1>4, <1>5 DEF CompletionAnswerUnusable, CompletionWrongState, CompletionNoCredential,
                    yotiVars
<1>6. ASSUME NEW i \in Invocations, CompletionAnswerUsable(i) \/ CompletionCredential(i)
      PROVE  AnswersOnce'
  <2>1. PICK y \in YotiSessions : y = invocation[i].yotiSessionId /\ Completes(i, y)
    BY <1>6 DEF CompletionAnswerUsable, CompletionCredential, At, Backed, InvocationBacked,
                InvocationTyped, CompletionSteps, Completes
  <2> QED BY <1>6, <2>1, CompletionAnswers
          DEF CompletionAnswerUsable, CompletionCredential, yotiVars
<1> QED BY <1>2, <1>3, <1>5, <1>6, ReportAnswers, StartAnswers DEF CallbackNext

\* IPV Core hears once of what became of a Yoti session, a credential or an error, in
\* whatever order requests, callbacks and failures come and however late reads are, if
\* the callback queue delivers a message once.
THEOREM AnswersAreFinal ==
  ASSUME MaxReceiveCount = 1
  PROVE  Spec => []AnswerIsFinal
<1>1. Init => AnswersOnce
  BY DEF Init, ServiceInit, AnswersOnce, AnswerOnce, Completes, Answered, CompletionSteps,
         CompletionMessage, Topics, Idle
<1>2. Backed /\ AnswersOnce /\ [Next]_vars => AnswersOnce'
  BY ServiceAnswers, ApiAnswers, CallbackAnswers DEF Next
<1>3. Backed /\ AnswersOnce => AnswerIsFinal
  BY DEF Backed, MessageBacked, AnswersOnce, AnswerOnce, Answered, AnswerIsFinal, Credentials
<1> QED BY <1>1, <1>2, <1>3, AlwaysBacked, PTL DEF Spec

-----------------------------------------------------------------------------
(* Kinds of steps, for the invocations of sessions that do not overlap.    *)

\* The last version of the row of s says this now, and no other row has changed.
RowSays(s, y, c, state) ==
  /\ session'[s].yotiSessionId = y
  /\ session'[s].authorizationCode = c
  /\ session'[s].authSessionState = state
  /\ \A t \in Sessions : t # s => session'[t] = session[t]

LEMMA PutSays ==
  ASSUME TypeOK, NEW s \in Sessions, NEW row, Put(s, row)
  PROVE  RowSays(s, row.yotiSessionId, row.authorizationCode, row.authSessionState)
BY PutWrites DEF RowSays

\* What each update writes of the three attributes.
LEMMA UpdateSays ==
  ASSUME TypeOK, NEW s \in Sessions
  PROVE  /\ updateSessionTtl(s) \/ addUsersSelectedDocument(s) =>
              RowSays(s, session[s].yotiSessionId, session[s].authorizationCode,
                      session[s].authSessionState)
         /\ \A y \in YotiSessions : updateSessionWithYotiIdAndStatus(s, y) =>
              RowSays(s, y, session[s].authorizationCode, "F2F_YOTI_SESSION_CREATED")
         /\ \A c \in Codes : setAuthorizationCode(s, c) =>
              RowSays(s, session[s].yotiSessionId, c, "F2F_AUTH_CODE_ISSUED")
         /\ updateSessionWithAccessTokenDetails(s) =>
              RowSays(s, session[s].yotiSessionId, None, "F2F_ACCESS_TOKEN_ISSUED")
         /\ \A state \in AuthSessionState : updateSessionAuthState(s, state) =>
              RowSays(s, session[s].yotiSessionId, session[s].authorizationCode, state)
         /\ markSessionAsExpired(s) =>
              RowSays(s, session[s].yotiSessionId, session[s].authorizationCode,
                      "F2F_SESSION_EXPIRED")
<1>1. PICK old \in Row : old = session[s]
  BY DEF TypeOK
<1>2. ASSUME updateSessionTtl(s)
      PROVE  RowSays(s, old.yotiSessionId, old.authorizationCode, old.authSessionState)
  <2> DEFINE row == [old EXCEPT !.expiryDate = now + AuthSessionTtl]
  <2>1. /\ row.yotiSessionId = old.yotiSessionId
        /\ row.authorizationCode = old.authorizationCode
        /\ row.authSessionState = old.authSessionState
    BY DEF Row
  <2>2. Put(s, row)
    BY <1>1, <1>2 DEF updateSessionTtl
  <2> HIDE DEF row
  <2> QED BY <2>1, <2>2, PutSays
<1>3. ASSUME addUsersSelectedDocument(s)
      PROVE  RowSays(s, old.yotiSessionId, old.authorizationCode, old.authSessionState)
  <2> DEFINE row == [old EXCEPT !.documentUsed = TRUE]
  <2>1. /\ row.yotiSessionId = old.yotiSessionId
        /\ row.authorizationCode = old.authorizationCode
        /\ row.authSessionState = old.authSessionState
    BY DEF Row
  <2>2. Put(s, row)
    BY <1>1, <1>3 DEF addUsersSelectedDocument
  <2> HIDE DEF row
  <2> QED BY <2>1, <2>2, PutSays
<1>4. ASSUME NEW y \in YotiSessions, updateSessionWithYotiIdAndStatus(s, y)
      PROVE  RowSays(s, y, old.authorizationCode, "F2F_YOTI_SESSION_CREATED")
  <2> DEFINE row == [old EXCEPT !.yotiSessionId = y,
                                !.authSessionState = "F2F_YOTI_SESSION_CREATED"]
  <2>1. /\ row.yotiSessionId = y
        /\ row.authorizationCode = old.authorizationCode
        /\ row.authSessionState = "F2F_YOTI_SESSION_CREATED"
    BY DEF Row
  <2>2. Put(s, row)
    BY <1>1, <1>4 DEF updateSessionWithYotiIdAndStatus
  <2> HIDE DEF row
  <2> QED BY <2>1, <2>2, PutSays
<1>5. ASSUME NEW c \in Codes, setAuthorizationCode(s, c)
      PROVE  RowSays(s, old.yotiSessionId, c, "F2F_AUTH_CODE_ISSUED")
  <2> DEFINE row == [old EXCEPT !.authorizationCode = c,
                                !.authSessionState = "F2F_AUTH_CODE_ISSUED"]
  <2>1. /\ row.yotiSessionId = old.yotiSessionId
        /\ row.authorizationCode = c
        /\ row.authSessionState = "F2F_AUTH_CODE_ISSUED"
    BY DEF Row
  <2>2. Put(s, row)
    BY <1>1, <1>5 DEF setAuthorizationCode
  <2> HIDE DEF row
  <2> QED BY <2>1, <2>2, PutSays
<1>6. ASSUME updateSessionWithAccessTokenDetails(s)
      PROVE  RowSays(s, old.yotiSessionId, None, "F2F_ACCESS_TOKEN_ISSUED")
  <2> DEFINE row == [old EXCEPT !.authorizationCode = None,
                                !.authSessionState = "F2F_ACCESS_TOKEN_ISSUED"]
  <2>1. /\ row.yotiSessionId = old.yotiSessionId
        /\ row.authorizationCode = None
        /\ row.authSessionState = "F2F_ACCESS_TOKEN_ISSUED"
    BY DEF Row
  <2>2. Put(s, row)
    BY <1>1, <1>6 DEF updateSessionWithAccessTokenDetails
  <2> HIDE DEF row
  <2> QED BY <2>1, <2>2, PutSays
<1>7. ASSUME NEW state \in AuthSessionState, updateSessionAuthState(s, state)
      PROVE  RowSays(s, old.yotiSessionId, old.authorizationCode, state)
  <2> DEFINE row == [old EXCEPT !.authSessionState = state]
  <2>1. /\ row.yotiSessionId = old.yotiSessionId
        /\ row.authorizationCode = old.authorizationCode
        /\ row.authSessionState = state
    BY DEF Row
  <2>2. Put(s, row)
    BY <1>1, <1>7 DEF updateSessionAuthState
  <2> HIDE DEF row
  <2> QED BY <2>1, <2>2, PutSays
<1>8. ASSUME markSessionAsExpired(s)
      PROVE  RowSays(s, old.yotiSessionId, old.authorizationCode, "F2F_SESSION_EXPIRED")
  <2> DEFINE row == [old EXCEPT !.expiredNotificationSent = TRUE,
                                !.authSessionState = "F2F_SESSION_EXPIRED"]
  <2>1. /\ row.yotiSessionId = old.yotiSessionId
        /\ row.authorizationCode = old.authorizationCode
        /\ row.authSessionState = "F2F_SESSION_EXPIRED"
    BY DEF Row
  <2>2. Put(s, row)
    BY <1>1, <1>8 DEF markSessionAsExpired
  <2> HIDE DEF row
  <2> QED BY <2>1, <2>2, PutSays
<1> QED BY <1>1, <1>2, <1>3, <1>4, <1>5, <1>6, <1>7, <1>8

\* The steps of a request that was admitted by the row it read, up to the write this
\* admission is for.
Watched == {"docSelect:preference", "docSelect:yoti", "docSelect:letter",
            "docSelect:yotiId", "authorization:code", "token:update"}

OwnersStay == \A y \in YotiSessions : yoti'[y].owner = yoti[y].owner

ClientsStay == \A s \in Sessions : client'[s] = "none" => client[s] = "none"

\* An invocation that returns, goes on, or begins for a session that is known, and is
\* not on the way to such a write. Only a failure takes it off that way.
Moved(i) ==
  /\ Turn(i) /\ (HasOpened(invocation[i]) => faults' # 0)
  /\ invocation'[i].at \notin Watched
  /\ \/ invocation'[i].sid \in {None, invocation[i].sid}
     \/ client[invocation'[i].sid] # "none"
     \/ session[invocation'[i].sid] # NoRow

Marked(s) ==
  /\ expiry.at = "mark" /\ s \in expiry.todo
  /\ session'[s].yotiSessionId = session[s].yotiSessionId
  /\ session'[s].authorizationCode = session[s].authorizationCode
  /\ session'[s].authSessionState = "F2F_SESSION_EXPIRED"

\* No endpoint or callback writes: rows are deleted or marked, invocations move.
Drifts ==
  /\ \A s \in Sessions : session'[s] \in {session[s], NoRow} \/ Marked(s)
  /\ UNCHANGED <<codes, tokens>> /\ OwnersStay /\ ClientsStay
  /\ UNCHANGED invocation \/ \E i \in Invocations : Moved(i)

\* The row is of a new session.
Begins(i, s) ==
  /\ client[s] = "none" /\ client'[s] # "none" /\ ClientsStay
  /\ RowSays(s, None, None, "F2F_SESSION_CREATED")
  /\ UNCHANGED <<codes, tokens>> /\ OwnersStay
  /\ invocation[i].at = "idle" /\ Turn(i)
  /\ invocation'[i].at = "session:person" /\ invocation'[i].sid = s

\* A request is admitted by the row it reads.
Admitted(i, s) ==
  /\ UNCHANGED <<session, client, codes, tokens, yoti>>
  /\ client[s] # "none" \/ session[s] # NoRow
  /\ invocation[i].at = "idle" /\ Turn(i) /\ invocation'[i].sid = s
  /\ \/ invocation'[i].at = "docSelect:preference" /\ invocation'[i].row = session[s]
     \/ /\ invocation'[i].at = "authorization:code"
        /\ session[s].authSessionState = "F2F_YOTI_SESSION_CREATED"
     \/ /\ invocation'[i].at = "token:update"
        /\ session[s].authSessionState = "F2F_AUTH_CODE_ISSUED"
        /\ session[s].authorizationCode = invocation'[i].code

\* A document selection goes on, without a look at the row.
Selects(i) ==
  /\ UNCHANGED <<session, client, codes, tokens>>
  /\ invocation[i].at # "idle" /\ Turn(i)
  /\ \/ /\ Opens(invocation[i]) /\ OwnersStay
        /\ invocation'[i].at = "docSelect:yoti" /\ invocation'[i].sid = invocation[i].sid
     \/ /\ invocation[i].at = "docSelect:yoti"
        /\ \E y \in YotiSessions :
             /\ yoti'[y].owner = invocation[i].sid
             /\ \A z \in YotiSessions : z # y => yoti'[z].owner = yoti[z].owner
        /\ \/ /\ invocation'[i].at = "docSelect:letter"
              /\ invocation'[i].sid = invocation[i].sid
           \/ /\ faults' # 0 /\ invocation'[i] = Idle
     \/ /\ invocation[i].at = "docSelect:letter" /\ OwnersStay
        /\ invocation'[i].at = "docSelect:yotiId" /\ invocation'[i].sid = invocation[i].sid

CallbackStates == {"F2F_POST_OFFICE_VISITED", "F2F_YOTI_SESSION_COMPLETE",
                   "F2F_CREDENTIAL_ISSUED"}

\* What the write at this step leaves of the row of its session.
Wrote(i, s) ==
  \/ /\ invocation[i].at = "docSelect:yotiId" /\ UNCHANGED <<codes, tokens>>
     /\ RowSays(s, invocation[i].yotiSessionId, session[s].authorizationCode,
                "F2F_YOTI_SESSION_CREATED")
  \/ /\ invocation[i].at = "authorization:code" /\ UNCHANGED tokens
     /\ \E c \in Codes : /\ codes[c] = None
                         /\ RowSays(s, session[s].yotiSessionId, c, "F2F_AUTH_CODE_ISSUED")
  \/ /\ invocation[i].at = "token:update" /\ UNCHANGED codes
     /\ tokens' = [tokens EXCEPT ![invocation[i].code] = @ + 1]
     /\ RowSays(s, session[s].yotiSessionId, None, "F2F_ACCESS_TOKEN_ISSUED")
  \/ /\ invocation[i].at \notin Watched /\ UNCHANGED <<codes, tokens>>
     /\ \E state \in {session[s].authSessionState, "F2F_CRI_SESSION_ABORTED"}
                       \cup CallbackStates :
          /\ \/ state \in {session[s].authSessionState, "F2F_CRI_SESSION_ABORTED"}
             \/ invocation[i].at \in SettledSteps
          /\ RowSays(s, session[s].yotiSessionId, session[s].authorizationCode, state)

Writes(i) ==
  /\ UNCHANGED client /\ OwnersStay
  /\ invocation[i].at # "idle" /\ Wrote(i, invocation[i].sid)
  /\ Turn(i) /\ invocation'[i].at \notin Watched
  /\ invocation'[i].sid \in {None, invocation[i].sid}

StepKinds ==
  \/ Drifts
  \/ \E i \in Invocations :
       \/ \E s \in Sessions : Begins(i, s) \/ Admitted(i, s)
       \/ Selects(i) \/ Writes(i)

\* Reads that see every write see the last version.
LEMMA FreshRow ==
  ASSUME FreshReads, NEW s \in Sessions
  PROVE  Visible(s) = {session[s]}
BY DEF FreshReads, Visible

LEMMA ReturnMoves ==
  ASSUME TypeOK, NEW i \in Invocations, Return(i), HasOpened(invocation[i]) => faults' # 0
  PROVE  Moved(i) /\ invocation'[i].sid = None
BY ReturnTurn, IdleFields DEF Moved, Watched

LEMMA ServiceKind ==
  ASSUME Backed, ServiceNext \/ UNCHANGED vars
  PROVE  StepKinds
<1>1. TypeOK
  BY DEF Backed
<1>2. UNCHANGED <<codes, tokens>> /\ OwnersStay /\ ClientsStay
  BY DEF ServiceNext, TimeToLive, Propagate, InvocationFails, Tick, vars, clientVars, yotiVars,
         OwnersStay, ClientsStay
<1>3. UNCHANGED invocation \/ \E i \in Invocations : Moved(i)
  BY <1>1, ReturnMoves, FaultCounts
     DEF ServiceNext, TimeToLive, Propagate, InvocationFails, Tick, vars
<1>4. UNCHANGED session \/ \E s \in Sessions : Put(s, NoRow)
  BY DEF ServiceNext, TimeToLive, Propagate, InvocationFails, Tick, vars, tables
<1>5. \A s \in Sessions : session'[s] \in {session[s], NoRow}
  BY <1>1, <1>4, PutWrites
<1> QED BY <1>2, <1>3, <1>5 DEF Drifts, StepKinds

LEMMA ExpiryKind ==
  ASSUME Backed, ExpiryNext
  PROVE  StepKinds
<1>1. TypeOK
  BY DEF Backed
<1>2. UNCHANGED <<codes, tokens, invocation>> /\ OwnersStay /\ ClientsStay
  BY DEF ExpiryNext, ExpiryQuery, ExpiryNotify, ExpiryMark, ExpiryFails, clientVars, yotiVars,
         OwnersStay, ClientsStay
<1>3. CASE NoWrite
  BY <1>2, <1>3 DEF NoWrite, Drifts, StepKinds
<1>4. ASSUME NEW s \in Sessions, expiry.at = "mark", s \in expiry.todo, markSessionAsExpired(s)
      PROVE  StepKinds
  <2>1. RowSays(s, session[s].yotiSessionId, session[s].authorizationCode,
                "F2F_SESSION_EXPIRED")
    BY <1>1, <1>4, UpdateSays
  <2>2. Marked(s) /\ \A t \in Sessions : t # s => session'[t] = session[t]
    BY <1>4, <2>1 DEF RowSays, Marked
  <2> QED BY <1>2, <2>2 DEF Drifts, StepKinds
<1> QED BY <1>3, <1>4, ExpiryWrites

LEMMA CreateKind ==
  ASSUME Backed, NEW i \in Invocations, NEW s \in Sessions, SessionCreate(i, s)
  PROVE  Begins(i, s)
<1> DEFINE row == [NoRow EXCEPT !.authSessionState = "F2F_SESSION_CREATED",
                                !.createdDate = now,
                                !.expiryDate = now + AuthSessionTtl]
<1>1. TypeOK
  BY DEF Backed
<1>2. /\ row.yotiSessionId = None /\ row.authorizationCode = None
      /\ row.authSessionState = "F2F_SESSION_CREATED"
  BY DEF NoRow
<1>3. Put(s, row)
  BY DEF SessionCreate, createAuthSession
<1> HIDE DEF row
<1>4. RowSays(s, None, None, "F2F_SESSION_CREATED")
  BY <1>1, <1>2, <1>3, PutSays
<1>5. client[s] = "none" /\ client'[s] # "none" /\ ClientsStay
  BY <1>1 DEF SessionCreate, TypeOK, ClientsStay
<1>6. UNCHANGED <<codes, tokens>> /\ OwnersStay
  BY DEF SessionCreate, yotiVars, OwnersStay
<1> QED BY <1>1, <1>4, <1>5, <1>6, RequestTurn, IdleFields
        DEF Begins, SessionCreate, IsIdle

LEMMA AdmissionKind ==
  ASSUME Backed, FreshReads, NEW i \in Invocations, NEW s \in Sessions
  PROVE  /\ SessionCreate(i, s) => Begins(i, s)
         /\ AuthorizationRead(i, s) => Admitted(i, s)
         /\ \A pref \in PdfPreferences : DocSelectRead(i, s, pref) => Admitted(i, s)
         /\ AbortRead(i, s) => Drifts
<1>1. TypeOK
  BY DEF Backed
<1>2. SessionCreate(i, s) => Begins(i, s)
  BY CreateKind
<1>3. ASSUME AuthorizationRead(i, s) PROVE Admitted(i, s)
  <2>1. /\ UNCHANGED <<session, client, codes, tokens, yoti>> /\ client[s] # "none"
        /\ invocation[i].at = "idle"
    BY <1>3, IdleFields DEF AuthorizationRead, IsIdle, tables, clientVars, yotiVars
  <2>2. session[s].authSessionState = "F2F_YOTI_SESSION_CREATED"
    BY <1>3, FreshRow DEF AuthorizationRead, SessionById
  <2> QED BY <1>1, <1>3, <2>1, <2>2, RequestTurn DEF Admitted
<1>4. ASSUME NEW pref \in PdfPreferences, DocSelectRead(i, s, pref) PROVE Admitted(i, s)
  <2>1. /\ UNCHANGED <<session, client, codes, tokens, yoti>> /\ client[s] # "none"
        /\ invocation[i].at = "idle"
    BY <1>4, IdleFields DEF DocSelectRead, IsIdle, tables, clientVars, yotiVars
  <2>2. PICK row \in Visible(s) :
          invocation' = [invocation EXCEPT ![i] =
                           [Idle EXCEPT !.at = "docSelect:preference", !.sid = s,
                                        !.row = row, !.pdfPreference = pref]]
    BY <1>4 DEF DocSelectRead
  <2>3. /\ Turn(i) /\ invocation'[i].at = "docSelect:preference"
        /\ invocation'[i].sid = s /\ invocation'[i].row = row
    BY <1>1, <2>2, DocReadTurn
  <2>4. row = session[s]
    BY FreshRow
  <2> QED BY <2>1, <2>3, <2>4 DEF Admitted
<1>5. ASSUME AbortRead(i, s) PROVE Drifts
  <2>1. /\ UNCHANGED <<session, client, codes, tokens, yoti>> /\ client[s] # "none"
        /\ ~HasOpened(invocation[i])
    BY <1>5, IdleFields DEF AbortRead, IsIdle, HasOpened, tables, clientVars, yotiVars
  <2>2. Moved(i)
    BY <1>1, <1>5, <2>1, RequestTurn DEF Moved, Watched
  <2> QED BY <2>1, <2>2 DEF Drifts, OwnersStay, ClientsStay
<1> QED BY <1>2, <1>3, <1>4, <1>5

LEMMA TokenReadKind ==
  ASSUME Backed, FreshReads, NEW i \in Invocations, NEW c \in Codes, TokenRead(i, c)
  PROVE  \E s \in Sessions : Admitted(i, s)
<1>1. TypeOK
  BY DEF Backed
<1>2. UNCHANGED <<session, client, codes, tokens, yoti>> /\ invocation[i].at = "idle"
  BY IdleFields DEF TokenRead, IsIdle, tables, clientVars, yotiVars
<1>3. PICK s \in Sessions :
        /\ \E row \in Visible(s) : /\ row.authorizationCode = c
                                   /\ row.authSessionState = "F2F_AUTH_CODE_ISSUED"
        /\ invocation' = [invocation EXCEPT ![i] =
                            [Idle EXCEPT !.at = "token:update", !.sid = s, !.code = c]]
  BY DEF TokenRead, SessionByAuthorizationCode
<1>4. Turn(i) /\ invocation'[i].at = "token:update"
      /\ invocation'[i].sid = s /\ invocation'[i].code = c
  BY <1>1, <1>3, TokenReadTurn
<1>5. /\ session[s].authorizationCode = c /\ session[s] # NoRow
      /\ session[s].authSessionState = "F2F_AUTH_CODE_ISSUED"
  BY <1>3, FreshRow, NoneAssumption DEF NoRow
<1> QED BY <1>2, <1>3, <1>4, <1>5 DEF Admitted

\* The steps of a document selection up to its first write.
LEMMA SelectionKind ==
  ASSUME Backed, NEW i \in Invocations,
         \/ DocSelectPreference(i) \/ DocSelectLetter(i)
         \/ \E y \in YotiSessions : DocSelectYoti(i, y)
  PROVE  Drifts \/ Selects(i)
<1>1. TypeOK
  BY DEF Backed
<1>2. UNCHANGED <<session, client, codes, tokens>> /\ invocation[i].at # "idle"
  BY DEF DocSelectPreference, DocSelectLetter, DocSelectYoti, At, tables, clientVars
<1>3. CASE DocSelectPreference(i)
  <2>1. OwnersStay /\ At(i, "docSelect:preference")
    BY <1>3 DEF DocSelectPreference, yotiVars, OwnersStay
  <2>2. CASE Return(i)
    BY <1>1, <1>2, <2>1, <2>2, ReturnMoves DEF At, HasOpened, Drifts, ClientsStay
  <2>3. CASE /\ invocation' = [invocation EXCEPT ![i].at = "docSelect:yoti", ![i].row = NoRow]
             /\ MayCreateYotiSession(invocation[i].row)
    <3>1. /\ Turn(i) /\ invocation'[i].at = "docSelect:yoti"
          /\ invocation'[i].sid = invocation[i].sid
      BY <1>1, <2>3, ForgetTurn DEF Steps
    <3>2. Opens(invocation[i])
      BY <2>1, <2>3 DEF Opens, At
    <3> QED BY <1>2, <2>1, <3>1, <3>2 DEF Selects
  <2> QED BY <1>3, <2>2, <2>3 DEF DocSelectPreference
<1>4. CASE DocSelectLetter(i)
  <2>1. OwnersStay /\ invocation[i].at = "docSelect:letter"
    BY <1>4 DEF DocSelectLetter, At, OwnersStay
  <2>2. /\ Turn(i) /\ invocation'[i].at = "docSelect:yotiId"
        /\ invocation'[i].sid = invocation[i].sid
    BY <1>1, <1>4, GotoTurn DEF DocSelectLetter, Steps
  <2> QED BY <1>2, <2>1, <2>2 DEF Selects
<1>5. ASSUME NEW y \in YotiSessions, DocSelectYoti(i, y) PROVE Selects(i)
  <2>1. /\ invocation[i].at = "docSelect:yoti"
        /\ yoti'[y].owner = invocation[i].sid
        /\ \A z \in YotiSessions : z # y => yoti'[z].owner = yoti[z].owner
    BY <1>1, <1>5 DEF DocSelectYoti, At, TypeOK
  <2>2. CASE invocation' = [invocation EXCEPT ![i].at = "docSelect:letter",
                                             ![i].yotiSessionId = y]
    <3>1. /\ Turn(i) /\ invocation'[i].at = "docSelect:letter"
          /\ invocation'[i].sid = invocation[i].sid
      BY <1>1, <2>2, OpenTurn
    <3> QED BY <1>2, <2>1, <3>1 DEF Selects
  <2>3. CASE Return(i) /\ Fault
    <3>1. Turn(i) /\ invocation'[i] = Idle /\ faults' # 0
      BY <1>1, <2>3, ReturnTurn, FaultCounts
    <3> QED BY <1>2, <2>1, <3>1 DEF Selects
  <2> QED BY <1>5, <2>2, <2>3 DEF DocSelectYoti
<1> QED BY <1>3, <1>4, <1>5

\* An invocation that wrote goes on to a step that admits nothing, or returns.
LEMMA AfterWrite ==
  ASSUME TypeOK, NEW i \in Invocations,
         \/ Return(i)
         \/ \E step \in Steps \ Watched : Goto(i, step)
  PROVE  /\ Turn(i) /\ invocation'[i].at \notin Watched
         /\ invocation'[i].sid \in {None, invocation[i].sid}
<1>1. CASE Return(i)
  BY <1>1, ReturnTurn, IdleFields DEF Watched
<1>2. ASSUME NEW step \in Steps \ Watched, Goto(i, step)
      PROVE  /\ Turn(i) /\ invocation'[i].at \notin Watched
             /\ invocation'[i].sid \in {None, invocation[i].sid}
  BY <1>2, GotoTurn
<1> QED BY <1>1, <1>2

LEMMA ApiWriteKind ==
  ASSUME Backed, NEW i \in Invocations,
         \/ DocSelectYotiId(i) \/ DocSelectTtl(i) \/ DocSelectDocument(i)
         \/ TokenUpdate(i) \/ AbortUpdate(i) \/ \E c \in Codes : AuthorizationCode(i, c)
  PROVE  Writes(i)
<1> DEFINE s == invocation[i].sid
<1>1. TypeOK
  BY DEF Backed
<1>2. UNCHANGED client /\ OwnersStay /\ invocation[i].at # "idle"
  BY DEF DocSelectYotiId, DocSelectTtl, DocSelectDocument, TokenUpdate, AbortUpdate,
         AuthorizationCode, At, clientVars, yotiVars, OwnersStay
<1>3. s \in Sessions
  BY <1>2, SidTyped
<1>4. /\ Turn(i) /\ invocation'[i].at \notin Watched
      /\ invocation'[i].sid \in {None, invocation[i].sid}
  <2>1. Return(i) \/ \E step \in {"docSelect:ttl", "docSelect:document"} : Goto(i, step)
    BY DEF DocSelectYotiId, DocSelectTtl, DocSelectDocument, TokenUpdate, AbortUpdate,
           AuthorizationCode
  <2>2. {"docSelect:ttl", "docSelect:document"} \subseteq Steps \ Watched
    BY DEF Steps, Watched
  <2> QED BY <1>1, <2>1, <2>2, AfterWrite
<1>5. CASE DocSelectYotiId(i)
  <2>1. /\ invocation[i].at = "docSelect:yotiId" /\ UNCHANGED <<codes, tokens>>
        /\ updateSessionWithYotiIdAndStatus(s, invocation[i].yotiSessionId)
    BY <1>5 DEF DocSelectYotiId, At, clientVars
  <2>2. invocation[i].yotiSessionId \in YotiSessions
    BY <2>1 DEF Backed, InvocationBacked, InvocationTyped
  <2>3. RowSays(s, invocation[i].yotiSessionId, session[s].authorizationCode,
                "F2F_YOTI_SESSION_CREATED")
    BY <1>1, <1>3, <2>1, <2>2, UpdateSays
  <2>4. Wrote(i, s)
    BY <2>1, <2>3 DEF Wrote
  <2> QED BY <1>2, <1>4, <2>4 DEF Writes
<1>6. CASE DocSelectTtl(i) \/ DocSelectDocument(i)
  <2>1. /\ invocation[i].at \notin Watched /\ UNCHANGED <<codes, tokens>>
        /\ updateSessionTtl(s) \/ addUsersSelectedDocument(s)
    BY <1>6 DEF DocSelectTtl, DocSelectDocument, At, Watched, clientVars
  <2>2. RowSays(s, session[s].yotiSessionId, session[s].authorizationCode,
                session[s].authSessionState)
    BY <1>1, <1>3, <2>1, UpdateSays
  <2>3. Wrote(i, s)
    BY <2>1, <2>2 DEF Wrote
  <2> QED BY <1>2, <1>4, <2>3 DEF Writes
<1>7. CASE TokenUpdate(i)
  <2>1. /\ invocation[i].at = "token:update" /\ UNCHANGED codes
        /\ tokens' = [tokens EXCEPT ![invocation[i].code] = @ + 1]
        /\ updateSessionWithAccessTokenDetails(s)
    BY <1>7 DEF TokenUpdate, At
  <2>2. RowSays(s, session[s].yotiSessionId, None, "F2F_ACCESS_TOKEN_ISSUED")
    BY <1>1, <1>3, <2>1, UpdateSays
  <2>3. Wrote(i, s)
    BY <2>1, <2>2 DEF Wrote
  <2> QED BY <1>2, <1>4, <2>3 DEF Writes
<1>8. CASE AbortUpdate(i)
  <2>1. /\ invocation[i].at \notin Watched /\ UNCHANGED <<codes, tokens>>
        /\ updateSessionAuthState(s, "F2F_CRI_SESSION_ABORTED")
    BY <1>8 DEF AbortUpdate, At, Watched, clientVars
  <2>2. "F2F_CRI_SESSION_ABORTED" \in AuthSessionState
    BY DEF AuthSessionState
  <2>3. RowSays(s, session[s].yotiSessionId, session[s].authorizationCode,
                "F2F_CRI_SESSION_ABORTED")
    BY <1>1, <1>3, <2>1, <2>2, UpdateSays
  <2>4. Wrote(i, s)
    BY <2>1, <2>3 DEF Wrote
  <2> QED BY <1>2, <1>4, <2>4 DEF Writes
<1>9. ASSUME NEW c \in Codes, AuthorizationCode(i, c) PROVE Writes(i)
  <2>1. /\ invocation[i].at = "authorization:code" /\ UNCHANGED tokens
        /\ codes[c] = None /\ setAuthorizationCode(s, c)
    BY <1>9 DEF AuthorizationCode, At
  <2>2. RowSays(s, session[s].yotiSessionId, c, "F2F_AUTH_CODE_ISSUED")
    BY <1>1, <1>3, <2>1, UpdateSays
  <2>3. Wrote(i, s)
    BY <2>1, <2>2 DEF Wrote
  <2> QED BY <1>2, <1>4, <2>3 DEF Writes
<1> QED BY <1>5, <1>6, <1>7, <1>8, <1>9

LEMMA ApiKind ==
  ASSUME Backed, FreshReads, ApiNext
  PROVE  StepKinds
<1>1. TypeOK
  BY DEF Backed
<1>2. ASSUME NEW i \in Invocations, SessionSavePerson(i) PROVE Drifts
  <2>1. UNCHANGED <<session, codes, tokens>> /\ OwnersStay
    BY <1>2 DEF SessionSavePerson, yotiVars, OwnersStay
  <2>2. ClientsStay
    BY <1>1, <1>2 DEF SessionSavePerson, TypeOK, ClientsStay
  <2>3. Moved(i)
    BY <1>1, <1>2, ReturnMoves DEF SessionSavePerson, At, HasOpened
  <2> QED BY <2>1, <2>2, <2>3 DEF Drifts
<1>3. ASSUME NEW i \in Invocations, NEW s \in Sessions,
             \/ SessionCreate(i, s) \/ AuthorizationRead(i, s) \/ AbortRead(i, s)
             \/ \E pref \in PdfPreferences : DocSelectRead(i, s, pref)
      PROVE  StepKinds
  BY <1>3, AdmissionKind DEF StepKinds
<1> QED BY <1>2, <1>3, TokenReadKind, SelectionKind, ApiWriteKind DEF ApiNext, StepKinds

LEMMA CallbackStartKind ==
  ASSUME Backed, FreshReads, NEW i \in Invocations, NEW y \in YotiSessions,
         NEW topic \in Topics, CallbackStarts(i, y, topic)
  PROVE  Drifts
<1>1. TypeOK
  BY DEF Backed
<1>2. UNCHANGED <<session, client, codes, tokens, yoti>> /\ ~HasOpened(invocation[i])
  BY IdleFields DEF CallbackStarts, IsIdle, HasOpened, tables, clientVars
<1>3. PICK s \in Sessions :
        \E row \in Visible(s) :
          /\ SessionByYotiId(y, s, YotiIndexItem(row))
          /\ invocation' = [invocation EXCEPT ![i] =
                              [Idle EXCEPT !.at = FirstStep(topic), !.sid = s,
                                           !.row = YotiIndexItem(row),
                                           !.yotiSessionId = y]]
  BY DEF CallbackStarts
<1>4. Turn(i) /\ invocation'[i].at = FirstStep(topic) /\ invocation'[i].sid = s
  <2>1. PICK row \in Visible(s) :
          invocation' = [invocation EXCEPT ![i] =
                           [Idle EXCEPT !.at = FirstStep(topic), !.sid = s,
                                        !.row = YotiIndexItem(row), !.yotiSessionId = y]]
    BY <1>3
  <2> QED BY <1>1, <2>1, CallbackTurn
<1>5. FirstStep(topic) \notin Watched
  BY DEF FirstStep, Topics, Watched
<1>6. session[s] # NoRow
  <2>1. \E row \in Visible(s) : row.yotiSessionId = y
    BY <1>3 DEF SessionByYotiId
  <2> QED BY <2>1, FreshRow, NoneAssumption DEF NoRow
<1>7. Moved(i)
  BY <1>2, <1>4, <1>5, <1>6 DEF Moved
<1> QED BY <1>2, <1>7 DEF Drifts, OwnersStay, ClientsStay

LEMMA CallbackWriteKind ==
  ASSUME Backed, NEW i \in Invocations,
         FirstBranchVisit(i) \/ ThankYouUpdate(i) \/ CompletionUpdate(i)
  PROVE  Writes(i)
<1> DEFINE s == invocation[i].sid
<1>1. TypeOK
  BY DEF Backed
<1>2. UNCHANGED <<client, codes, tokens>> /\ OwnersStay
  BY DEF FirstBranchVisit, ThankYouUpdate, CompletionUpdate, clientVars, yotiVars, OwnersStay
<1>3. PICK state \in CallbackStates : updateSessionAuthState(s, state)
  BY DEF FirstBranchVisit, ThankYouUpdate, CompletionUpdate, CallbackStates
<1>4. /\ invocation[i].at \notin Watched /\ invocation[i].at # "idle" /\ Return(i)
      /\ invocation[i].at \in SettledSteps
  BY DEF FirstBranchVisit, ThankYouUpdate, CompletionUpdate, At, Watched, SettledSteps,
         CompletionSteps
<1>5. state \in AuthSessionState /\ s \in Sessions
  BY <1>4, SidTyped DEF CallbackStates, AuthSessionState
<1>6. RowSays(s, session[s].yotiSessionId, session[s].authorizationCode, state)
  BY <1>1, <1>3, <1>5, UpdateSays
<1>7. Wrote(i, s)
  BY <1>2, <1>3, <1>4, <1>6 DEF Wrote
<1> QED BY <1>1, <1>2, <1>4, <1>7, AfterWrite DEF Writes

LEMMA CallbackKind ==
  ASSUME Backed, FreshReads, CallbackNext
  PROVE  StepKinds
<1>1. TypeOK
  BY DEF Backed
<1>2. UNCHANGED <<client, codes, tokens>>
  BY DEF CallbackNext, YotiReports, CallbackStarts, CallbackLost, StartExecutionFails,
         FirstBranchVisit, ThankYouAudit, ThankYouUpdate, CompletionAnswerUnusable,
         CompletionWrongState, CompletionAnswerUsable, CompletionNoCredential,
         CompletionCredential, CompletionUpdate, CompletionThrows, clientVars
<1>3. OwnersStay
  <2>1. ASSUME NEW y \in YotiSessions, NEW report \in Reports, YotiReports(y, report)
        PROVE  OwnersStay
    BY <1>1, <2>1 DEF YotiReports, TypeOK, OwnersStay
  <2>2. UNCHANGED yoti \/ \E y \in YotiSessions, report \in Reports : YotiReports(y, report)
    BY DEF CallbackNext, CallbackStarts, CallbackLost, StartExecutionFails,
         FirstBranchVisit, ThankYouAudit, ThankYouUpdate, CompletionAnswerUnusable,
         CompletionWrongState, CompletionAnswerUsable, CompletionNoCredential,
         CompletionCredential, CompletionUpdate, CompletionThrows, yotiVars
  <2> QED BY <2>1, <2>2 DEF OwnersStay
<1>4. ASSUME NEW i \in Invocations,
             FirstBranchVisit(i) \/ ThankYouUpdate(i) \/ CompletionUpdate(i)
      PROVE  Writes(i)
  BY <1>4, CallbackWriteKind
<1>5. ASSUME NEW i \in Invocations,
             \/ ThankYouAudit(i) \/ CompletionAnswerUnusable(i) \/ CompletionWrongState(i)
             \/ CompletionAnswerUsable(i) \/ CompletionNoCredential(i)
             \/ CompletionCredential(i) \/ CompletionThrows(i)
      PROVE  Drifts
  <2>1. UNCHANGED session
    BY <1>5 DEF ThankYouAudit, CompletionAnswerUnusable, CompletionWrongState,
         CompletionAnswerUsable, CompletionNoCredential, CompletionCredential,
         CompletionThrows, tables
  <2>2. ~HasOpened(invocation[i])
    BY <1>5 DEF ThankYouAudit, CompletionAnswerUnusable, CompletionWrongState,
         CompletionAnswerUsable, CompletionNoCredential, CompletionCredential,
         CompletionThrows, At, HasOpened
  <2>3. Moved(i)
    <3>1. CASE Return(i)
      BY <1>1, <2>2, <3>1, ReturnMoves
    <3>2. ASSUME NEW step \in {"thankYou:update", "completion:update"}, Goto(i, step)
          PROVE  Moved(i)
      BY <1>1, <2>2, <3>2, GotoTurn DEF Moved, Watched, Steps
    <3>3. CASE invocation' = [invocation EXCEPT ![i].at = "completion:credential",
                                               ![i].row = NoRow]
      BY <1>1, <2>2, <3>3, ForgetTurn DEF Moved, Watched, Steps
    <3> QED BY <1>5, <3>1, <3>2, <3>3
            DEF ThankYouAudit, CompletionAnswerUnusable, CompletionWrongState,
                CompletionAnswerUsable, CompletionNoCredential, CompletionCredential,
                CompletionThrows, CompletionRefused
  <2> QED BY <1>2, <1>3, <2>1, <2>3 DEF Drifts, ClientsStay
<1>6. ASSUME NEW y \in YotiSessions,
             \/ \E report \in Reports : YotiReports(y, report)
             \/ \E topic \in Topics : CallbackLost(y, topic) \/ StartExecutionFails(y, topic)
      PROVE  Drifts
  <2>1. UNCHANGED session /\ UNCHANGED invocation
    BY <1>6 DEF YotiReports, CallbackLost, StartExecutionFails, tables
  <2> QED BY <1>2, <1>3, <2>1 DEF Drifts, ClientsStay
<1> QED BY <1>4, <1>5, <1>6, CallbackStartKind DEF CallbackNext, StepKinds

\* Every step of the journey is of one of these kinds, when reads see every write.
LEMMA EveryStep ==
  ASSUME Backed, FreshReads, [Next]_vars
  PROVE  StepKinds
BY ServiceKind, ApiKind, CallbackKind, ExpiryKind DEF Next

\* What an invocation is said to wait for, it waits for at a watched step.
LEMMA WatchedSteps ==
  ASSUME NEW v, v.at \notin Watched
  PROVE  ~Opens(v) /\ ~HasOpened(v) /\ v.at # "authorization:code" /\ v.at # "token:update"
BY DEF Opens, HasOpened, Watched

LEMMA WatchedTyped ==
  ASSUME Backed, NEW i \in Invocations, invocation[i].at \in Watched
  PROVE  invocation[i].sid \in Sessions /\ invocation[i].at # "idle" /\ ~IsIdle(i)
BY SidTyped, IdleFields DEF Watched, IsIdle

\* While an invocation writes a row, no other is under way for it.
LEMMA WriteApart ==
  ASSUME Backed, OneAtATime, NEW i \in Invocations, Writes(i)
  PROVE  /\ invocation[i].sid \in Sessions
         /\ \A t \in Sessions : t # invocation[i].sid => session'[t] = session[t]
         /\ \A j \in Invocations : j # i =>
              /\ invocation'[j] = invocation[j]
              /\ invocation[j].at # "idle" => invocation[j].sid # invocation[i].sid
<1>1. invocation[i].at # "idle" /\ invocation[i].sid \in Sessions
  BY SidTyped DEF Writes
<1>2. \A t \in Sessions : t # invocation[i].sid => session'[t] = session[t]
  BY DEF Writes, Wrote, RowSays
<1>3. \A j \in Invocations : invocation[j].at # "idle" => ~IsIdle(j)
  BY IdleFields DEF IsIdle
<1> QED BY <1>1, <1>2, <1>3 DEF Writes, Turn, OneAtATime

-----------------------------------------------------------------------------
(* The Yoti session of a row.                                              *)

LEMMA NobodyAsks ==
  ASSUME Backed, Aged, RowsWait, NEW s \in Sessions, client[s] = "none",
         OwnersStay \/ \E i \in Invocations : Selects(i),
         \/ Drifts
         \/ \E i \in Invocations :
              \/ \E t \in Sessions \ {s} : Begins(i, t) \/ Admitted(i, t)
              \/ Selects(i) \/ Writes(i)
  PROVE  Unasked(s)'
<1>1. /\ session[s] = NoRow /\ s \notin expiry.todo
      /\ \A i \in Invocations : invocation[i].sid # s
      /\ \A y \in YotiSessions : yoti[y].owner # s
  BY DEF RowsWait, Unasked, Aged, Unopened
<1>2. \A y \in YotiSessions : yoti'[y].owner # s
  BY <1>1 DEF Selects, OwnersStay
<1>3. session'[s] = NoRow
  BY <1>1, SidTyped DEF Drifts, Marked, Begins, Admitted, Selects, Writes, Wrote, RowSays
<1>4. \A i \in Invocations : invocation'[i].sid # s
  BY <1>1, IdleFields, NoneAssumption
     DEF Drifts, Moved, Begins, Admitted, Selects, Writes, Turn
<1> QED BY <1>2, <1>3, <1>4 DEF Unasked

LEMMA StepWaits == Backed /\ Aged /\ Alone /\ RowsWait /\ [Next]_vars => RowsWait'
<1> SUFFICES ASSUME Backed, Aged, Alone, RowsWait, [Next]_vars PROVE RowsWait'
  OBVIOUS
<1>1. StepKinds
  BY EveryStep DEF Alone
<1>2. ASSUME NEW s \in Sessions, client'[s] = "none" PROVE Unasked(s)'
  <2>1. OwnersStay \/ \E i \in Invocations : Selects(i)
    BY <1>1 DEF StepKinds, Drifts, Begins, Admitted, Writes, OwnersStay
  <2>2. client[s] = "none"
    BY <1>1, <1>2 DEF StepKinds, Drifts, Begins, Admitted, Selects, Writes, ClientsStay
  <2>3. \/ Drifts
        \/ \E i \in Invocations :
             \/ \E t \in Sessions \ {s} : Begins(i, t) \/ Admitted(i, t)
             \/ Selects(i) \/ Writes(i)
    <3>1. \A i \in Invocations : ~Begins(i, s) /\ ~Admitted(i, s)
      BY <1>2, <2>2 DEF Begins, Admitted, RowsWait, Unasked
    <3> QED BY <1>1, <3>1 DEF StepKinds
  <2> QED BY <2>1, <2>2, <2>3, NobodyAsks
<1>3. ASSUME NEW i \in Invocations, Opens(invocation'[i]) \/ HasOpened(invocation'[i])
      PROVE  session'[invocation'[i].sid].yotiSessionId = None
  <2>1. invocation'[i].at \in Watched
    BY <1>3, WatchedSteps
  <2>2. ASSUME invocation'[i] = invocation[i]
        PROVE  /\ invocation[i].sid \in Sessions /\ invocation[i].at # "idle"
               /\ session[invocation[i].sid].yotiSessionId = None
    BY <1>3, <2>1, <2>2, WatchedTyped DEF RowsWait
  <2>3. CASE Drifts
    <3>1. invocation'[i] = invocation[i]
      BY <2>1, <2>3 DEF Drifts, Moved, Turn
    <3> QED BY <2>2, <2>3, <3>1 DEF Drifts, Marked, NoRow
  <2>4. ASSUME NEW j \in Invocations, NEW s \in Sessions, Begins(j, s)
        PROVE  session'[invocation'[i].sid].yotiSessionId = None
    <3>1. invocation'[i] = invocation[i]
      BY <2>1, <2>4 DEF Begins, Turn, Watched
    <3> QED BY <2>2, <2>4, <3>1 DEF Begins, RowSays
  <2>5. ASSUME NEW j \in Invocations, NEW s \in Sessions, Admitted(j, s)
        PROVE  session'[invocation'[i].sid].yotiSessionId = None
    <3>1. CASE i # j
      BY <2>2, <2>5, <3>1 DEF Admitted, Turn
    <3>2. CASE i = j
      BY <1>3, <2>5, <3>2 DEF Admitted, Opens, HasOpened, MayCreateYotiSession
    <3> QED BY <3>1, <3>2
  <2>6. ASSUME NEW j \in Invocations, Selects(j)
        PROVE  session'[invocation'[i].sid].yotiSessionId = None
    <3>1. CASE i # j
      BY <2>2, <2>6, <3>1 DEF Selects, Turn
    <3>2. CASE i = j
      <4>1. Opens(invocation[i]) \/ HasOpened(invocation[i])
        BY <2>6, <3>2 DEF Selects, Opens, HasOpened
      <4>2. invocation'[i].sid = invocation[i].sid
        BY <2>1, <2>6, <3>2, IdleFields DEF Selects, Watched
      <4> QED BY <2>6, <4>1, <4>2 DEF Selects, RowsWait
    <3> QED BY <3>1, <3>2
  <2>7. ASSUME NEW j \in Invocations, Writes(j)
        PROVE  session'[invocation'[i].sid].yotiSessionId = None
    <3>1. i # j
      BY <2>1, <2>7 DEF Writes
    <3> QED BY <2>2, <2>7, <3>1, WriteApart DEF Alone
  <2> QED BY <1>1, <2>3, <2>4, <2>5, <2>6, <2>7 DEF StepKinds
<1> QED BY <1>2, <1>3 DEF RowsWait

-----------------------------------------------------------------------------
(* A code is spent once.                                                   *)

LEMMA SpentStays ==
  ASSUME Backed, Alone, StepKinds, Grows, NEW c \in Codes, Spent(c)
  PROVE  Spent(c)'
<1>1. /\ codes[c] # None /\ codes'[c] # None
      /\ \A s \in Sessions : session[s].authorizationCode # c
      /\ \A i \in Invocations : ~(invocation[i].at = "token:update" /\ invocation[i].code = c)
  BY DEF Spent, At, Grows
<1>2. ASSUME NEW s \in Sessions PROVE session'[s].authorizationCode # c
  <2>1. CASE Drifts
    BY <1>1, <2>1, NoneAssumption DEF Drifts, Marked, NoRow
  <2>2. ASSUME NEW i \in Invocations, NEW t \in Sessions, Begins(i, t) \/ Admitted(i, t)
        PROVE  session'[s].authorizationCode # c
    BY <1>1, <2>2, NoneAssumption DEF Begins, Admitted, RowSays
  <2>3. ASSUME NEW i \in Invocations, Selects(i)
        PROVE  session'[s].authorizationCode # c
    BY <1>1, <2>3 DEF Selects
  <2>4. ASSUME NEW i \in Invocations, Writes(i)
        PROVE  session'[s].authorizationCode # c
    <3>1. CASE s # invocation[i].sid
      BY <1>1, <2>4, <3>1, WriteApart DEF Alone
    <3>2. CASE s = invocation[i].sid
      BY <1>1, <2>4, <3>2, NoneAssumption DEF Writes, Wrote, RowSays
    <3> QED BY <3>1, <3>2
  <2> QED BY <2>1, <2>2, <2>3, <2>4 DEF StepKinds
<1>3. ASSUME NEW i \in Invocations, invocation'[i].at = "token:update",
             invocation'[i].code = c
      PROVE  FALSE
  <2>1. invocation'[i] # invocation[i] /\ invocation'[i].at \in Watched
    BY <1>1, <1>3 DEF Watched
  <2>2. \A j \in Invocations : ~Selects(j) /\ ~Writes(j)
    BY <1>3, <2>1, IdleFields DEF Selects, Writes, Turn
  <2>3. ~Drifts /\ \A j \in Invocations, s \in Sessions : ~Begins(j, s)
    BY <1>3, <2>1 DEF Drifts, Moved, Begins, Turn
  <2>4. PICK j \in Invocations, s \in Sessions : Admitted(j, s)
    BY <2>2, <2>3 DEF StepKinds
  <2>5. session[s].authorizationCode = c
    BY <1>3, <2>1, <2>4 DEF Admitted, Turn
  <2> QED BY <1>1, <2>5
<1> QED BY <1>1, <1>2, <1>3 DEF Spent, At

LEMMA StepSpends == Backed /\ Alone /\ CodesSpent /\ [Next]_vars => CodesSpent'
<1> SUFFICES ASSUME Backed, Alone, CodesSpent, [Next]_vars, NEW c \in Codes
             PROVE  tokens'[c] <= 1 /\ (tokens'[c] > 0 => Spent(c)')
  BY DEF CodesSpent
<1>1. StepKinds /\ Grows /\ tokens \in [Codes -> Nat]
  BY EveryStep, NextAdds DEF Alone, Backed, TypeOK, BacksWhatItAdds
<1>2. CASE tokens'[c] = tokens[c]
  BY <1>1, <1>2, SpentStays DEF CodesSpent
<1>3. CASE tokens'[c] # tokens[c]
  <2>1. PICK i \in Invocations :
          /\ Writes(i) /\ invocation[i].at = "token:update" /\ UNCHANGED codes
          /\ tokens' = [tokens EXCEPT ![invocation[i].code] = @ + 1]
          /\ RowSays(invocation[i].sid, session[invocation[i].sid].yotiSessionId, None,
                     "F2F_ACCESS_TOKEN_ISSUED")
    <3>1. PICK i \in Invocations : Writes(i)
      BY <1>1, <1>3 DEF StepKinds, Drifts, Begins, Admitted, Selects
    <3> QED BY <1>3, <3>1 DEF Writes, Wrote
  <2>2. invocation[i].code = c /\ codes[c] = invocation[i].sid /\ invocation[i].sid \in Sessions
    <3>1. invocation[i].code = c
      BY <1>1, <1>3, <2>1
    <3> QED BY <2>1, <3>1, WriteApart DEF Alone, Backed, InvocationBacked
  <2>3. tokens[c] = 0 /\ tokens'[c] = 1
    BY <1>1, <2>1, <2>2 DEF CodesSpent, Spent, At
  <2>4. ASSUME NEW s \in Sessions PROVE session'[s].authorizationCode # c
    <3>1. CASE s = invocation[i].sid
      BY <2>1, <3>1, NoneAssumption DEF RowSays
    <3>2. CASE s # invocation[i].sid
      <4>1. RowBacked(s, session[s])
        BY VisibleTyped DEF Backed
      <4>2. session[s].authorizationCode # c
        BY <2>2, <3>2, <4>1, NoneAssumption DEF RowBacked
      <4> QED BY <2>1, <3>2, <4>2 DEF RowSays
    <3> QED BY <3>1, <3>2
  <2>5. ASSUME NEW j \in Invocations, invocation'[j].at = "token:update",
               invocation'[j].code = c
        PROVE  FALSE
    <3>1. j # i
      BY <2>1, <2>5 DEF Writes, Watched
    <3>2. /\ invocation[j].at = "token:update" /\ invocation[j].code = c
          /\ invocation[j].sid # invocation[i].sid
      BY <2>1, <2>5, <3>1, WriteApart DEF Alone
    <3> QED BY <2>2, <3>2 DEF Backed, InvocationBacked
  <2>6. codes'[c] # None
    BY <2>1, <2>2, NoneAssumption
  <2> QED BY <2>3, <2>4, <2>5, <2>6 DEF Spent, At
<1> QED BY <1>2, <1>3

-----------------------------------------------------------------------------
(* A journey opens one Yoti session.                                       *)

\* No Yoti session was opened for a session whose document selection may still open one.
LEMMA OpensFirst ==
  ASSUME Alone, NEW i \in Invocations, Opens(invocation[i]), invocation[i].at # "idle",
         \A y \in YotiSessions : yoti[y].owner # None => Opened(yoti[y].owner)
  PROVE  \A y \in YotiSessions : yoti[y].owner # None => yoti[y].owner # invocation[i].sid
<1>1. \A j \in Invocations : invocation[j].at # "idle" => ~IsIdle(j)
  BY IdleFields DEF IsIdle
<1>2. \A j \in Invocations : HasOpened(invocation[j]) =>
        invocation[j].at # "idle" /\ ~Opens(invocation[j])
  BY DEF HasOpened, Opens
<1> QED BY <1>1, <1>2 DEF Alone, OneAtATime, Opened

LEMMA OpenedStays ==
  ASSUME Backed, Alone, StepKinds, faults' = 0, NEW s \in Sessions, Opened(s),
         \A i \in Invocations : ~Begins(i, s),
         \A i \in Invocations :
           Opens(invocation[i]) /\ invocation[i].at # "idle" => invocation[i].sid # s
  PROVE  Opened(s)'
<1>1. CASE Drifts
  <2>1. session'[s].authSessionState = "F2F_SESSION_CREATED" =>
          session[s].authSessionState = "F2F_SESSION_CREATED"
    BY <1>1, NoneAssumption DEF Drifts, Marked, NoRow, AuthSessionState
  <2>2. \A i \in Invocations :
          \/ invocation'[i] = invocation[i]
          \/ ~Opens(invocation'[i]) /\ ~HasOpened(invocation[i])
    BY <1>1, WatchedSteps DEF Drifts, Moved, Turn
  <2> QED BY <2>1, <2>2 DEF Opened
<1>2. ASSUME NEW i \in Invocations, NEW t \in Sessions, Begins(i, t) PROVE Opened(s)'
  <2>1. session'[s] = session[s] /\ invocation'[i].sid # s /\ ~HasOpened(invocation[i])
    BY <1>2 DEF Begins, RowSays, HasOpened
  <2> QED BY <1>2, <2>1 DEF Begins, Turn, Opened
<1>3. ASSUME NEW i \in Invocations, NEW t \in Sessions, Admitted(i, t) PROVE Opened(s)'
  <2>1. session'[s] = session[s] /\ ~HasOpened(invocation[i])
    BY <1>3 DEF Admitted, HasOpened
  <2>2. session[s].authSessionState # "F2F_SESSION_CREATED" /\ invocation'[i].sid = s =>
          ~Opens(invocation'[i])
    BY <1>3 DEF Admitted, Opens, MayCreateYotiSession
  <2> QED BY <1>3, <2>1, <2>2 DEF Admitted, Turn, Opened
<1>4. ASSUME NEW i \in Invocations, Selects(i) PROVE Opened(s)'
  <2>1. session'[s] = session[s] /\ Turn(i)
    BY <1>4 DEF Selects
  <2>2. CASE invocation[i].sid # s
    <3>1. invocation'[i].sid # s
      BY <1>4, <2>2, IdleFields, NoneAssumption DEF Selects
    <3> QED BY <2>1, <2>2, <3>1 DEF Turn, Opened
  <2>3. CASE invocation[i].sid = s
    <3>1. invocation[i].at = "docSelect:letter"
      BY <1>4, <2>3 DEF Selects, Opens
    <3>2. invocation'[i].at = "docSelect:yotiId" /\ invocation'[i].sid = s
      BY <1>4, <2>3, <3>1 DEF Selects, Opens
    <3> QED BY <3>2 DEF Opened, HasOpened
  <2> QED BY <2>2, <2>3
<1>5. ASSUME NEW i \in Invocations, Writes(i) PROVE Opened(s)'
  <2>1. CASE invocation[i].sid # s
    <3>1. invocation'[i].sid # s
      BY <1>5, <2>1, NoneAssumption DEF Writes
    <3> QED BY <1>5, <2>1, <3>1, WriteApart DEF Alone, Opened
  <2>2. CASE invocation[i].sid = s
    <3>1. \A j \in Invocations : invocation'[j].sid = s => ~Opens(invocation'[j])
      <4>1. \A j \in Invocations : invocation'[j].sid = s => invocation'[j].at \notin Watched
        BY <1>5, <2>2, WriteApart DEF Alone, Writes, Watched
      <4> QED BY <4>1, WatchedSteps
    <3>2. ASSUME session[s].authSessionState = "F2F_SESSION_CREATED"
          PROVE  invocation[i].at = "docSelect:yotiId"
      <4>1. PICK j \in Invocations : invocation[j].sid = s /\ HasOpened(invocation[j])
        BY <3>2 DEF Opened
      <4>2. j = i
        BY <1>5, <2>2, <4>1, WriteApart DEF Alone, HasOpened
      <4> QED BY <1>5, <4>1, <4>2 DEF HasOpened, Writes, Wrote, Watched
    <3>3. session'[s].authSessionState # "F2F_SESSION_CREATED"
      BY <1>5, <2>2, <3>2 DEF Writes, Wrote, RowSays, Watched, CallbackStates
    <3> QED BY <3>1, <3>3 DEF Opened
  <2> QED BY <2>1, <2>2
<1> QED BY <1>1, <1>2, <1>3, <1>4, <1>5 DEF StepKinds

LEMMA StepOpens == Backed /\ Alone /\ RowsWait /\ OpenedOnce /\ [Next]_vars => OpenedOnce'
<1> SUFFICES ASSUME Backed, Alone, RowsWait, OpenedOnce, [Next]_vars, faults' = 0
             PROVE  /\ OneYotiSession'
                    /\ \A y \in YotiSessions : yoti'[y].owner # None => Opened(yoti[y].owner)'
  BY DEF OpenedOnce
<1>1. StepKinds /\ faults = 0
  BY EveryStep, FaultsGrow DEF Alone, Backed
<1>2. /\ OneYotiSession
      /\ \A y \in YotiSessions : yoti[y].owner # None => Opened(yoti[y].owner)
      /\ \A y \in YotiSessions : yoti[y].owner \in Sessions \cup {None}
  BY <1>1 DEF OpenedOnce, Backed, TypeOK
<1>3. ASSUME NEW s \in Sessions, NEW y \in YotiSessions, yoti[y].owner = s
      PROVE  Opened(s)'
  <2>1. s # None
    BY NoneAssumption
  <2>2. \A i \in Invocations : ~Begins(i, s)
    BY <1>3 DEF Begins, RowsWait, Unasked
  <2>3. \A i \in Invocations :
          Opens(invocation[i]) /\ invocation[i].at # "idle" => invocation[i].sid # s
    BY <1>2, <1>3, <2>1, OpensFirst
  <2>4. Opened(s)
    BY <1>2, <1>3, <2>1
  <2> QED BY <1>1, <2>2, <2>3, <2>4, OpenedStays
<1>4. ASSUME NEW y \in YotiSessions, NEW s, yoti'[y].owner = s, Opened(s)'
      PROVE  Opened(yoti[y].owner)'
  BY <1>4 DEF Opened
<1>5. CASE OwnersStay
  <2>1. OneYotiSession'
    BY <1>2, <1>5 DEF OwnersStay, OneYotiSession
  <2>2. ASSUME NEW y \in YotiSessions, yoti'[y].owner # None
        PROVE  \E s : yoti'[y].owner = s /\ Opened(s)'
    BY <1>2, <1>3, <1>5, <2>2 DEF OwnersStay
  <2> QED BY <1>4, <2>1, <2>2
<1>6. CASE ~OwnersStay
  <2>1. PICK i \in Invocations, y \in YotiSessions :
          /\ invocation[i].at = "docSelect:yoti"
          /\ yoti'[y].owner = invocation[i].sid
          /\ \A z \in YotiSessions : z # y => yoti'[z].owner = yoti[z].owner
          /\ invocation'[i].at = "docSelect:letter" /\ invocation'[i].sid = invocation[i].sid
    BY <1>1, <1>6 DEF StepKinds, Drifts, Begins, Admitted, Writes, Selects, OwnersStay
  <2>2. \A z \in YotiSessions : yoti[z].owner # None => yoti[z].owner # invocation[i].sid
    BY <1>2, <2>1, OpensFirst DEF Opens
  <2>3. OneYotiSession'
    BY <1>2, <2>1, <2>2 DEF OneYotiSession
  <2>4. ASSUME NEW s, s = invocation[i].sid PROVE Opened(s)'
    BY <2>1, <2>4 DEF Opened, HasOpened
  <2>5. ASSUME NEW z \in YotiSessions, yoti'[z].owner # None
        PROVE  \E s : yoti'[z].owner = s /\ Opened(s)'
    BY <1>2, <1>3, <2>1, <2>4, <2>5
  <2> QED BY <1>4, <2>3, <2>5
<1> QED BY <1>5, <1>6

-----------------------------------------------------------------------------
(* The stages of a journey.                                                *)

LEMMA Unwatched ==
  ASSUME NEW v, NEW state, v.at \notin Watched
  PROVE  Admits(v, state)
BY WatchedSteps DEF Admits

LEMMA StepAdmits ==
  Backed /\ Alone /\ SweepApart /\ RowsWait /\ StatesWait /\ [Next]_vars => StatesWait'
<1> SUFFICES ASSUME Backed, Alone, SweepApart, RowsWait, StatesWait, [Next]_vars,
                    NEW i \in Invocations, invocation'[i].at \in Watched
             PROVE  Admits(invocation'[i], session'[invocation'[i].sid].authSessionState)
  BY Unwatched DEF StatesWait
<1>1. StepKinds
  BY EveryStep DEF Alone
<1>2. ASSUME invocation'[i] = invocation[i]
      PROVE  /\ invocation[i].sid \in Sessions /\ ~IsIdle(i) /\ invocation[i].at # "idle"
             /\ Admits(invocation[i], session[invocation[i].sid].authSessionState)
  BY <1>2, WatchedTyped DEF StatesWait
<1>3. CASE Drifts
  <2>1. invocation'[i] = invocation[i]
    BY <1>3 DEF Drifts, Moved, Turn
  <2>2. session'[invocation[i].sid] \in {session[invocation[i].sid], NoRow}
    BY <1>2, <1>3, <2>1 DEF Drifts, Marked, SweepApart
  <2>3. Admits(invocation[i], NoRow.authSessionState)
    BY DEF Admits, NoRow
  <2> QED BY <1>2, <2>1, <2>2, <2>3
<1>4. ASSUME NEW j \in Invocations, NEW s \in Sessions, Begins(j, s)
      PROVE  Admits(invocation'[i], session'[invocation'[i].sid].authSessionState)
  <2>1. invocation'[i] = invocation[i]
    BY <1>4 DEF Begins, Turn, Watched
  <2>2. invocation[i].sid # s
    BY <1>4 DEF Begins, RowsWait, Unasked
  <2> QED BY <1>2, <1>4, <2>1, <2>2 DEF Begins, RowSays
<1>5. ASSUME NEW j \in Invocations, NEW s \in Sessions, Admitted(j, s)
      PROVE  Admits(invocation'[i], session'[invocation'[i].sid].authSessionState)
  <2>1. CASE i # j
    BY <1>2, <1>5, <2>1 DEF Admitted, Turn
  <2>2. CASE i = j
    BY <1>5, <2>2 DEF Admitted, Admits, Opens, HasOpened, MayCreateYotiSession
  <2> QED BY <2>1, <2>2
<1>6. ASSUME NEW j \in Invocations, Selects(j)
      PROVE  Admits(invocation'[i], session'[invocation'[i].sid].authSessionState)
  <2>1. CASE i # j
    BY <1>2, <1>6, <2>1 DEF Selects, Turn
  <2>2. CASE i = j
    <3>1. /\ Opens(invocation[i]) \/ HasOpened(invocation[i])
          /\ invocation[i].at # "idle"
      BY <1>6, <2>2 DEF Selects, Opens, HasOpened
    <3>2. Admits(invocation[i], session[invocation[i].sid].authSessionState)
      BY <3>1, IdleFields DEF StatesWait, IsIdle
    <3>3. /\ invocation'[i].sid = invocation[i].sid
          /\ invocation'[i].at \notin {"authorization:code", "token:update"}
      BY <1>6, <2>2, IdleFields DEF Selects, Watched
    <3>4. UNCHANGED session
      BY <1>6 DEF Selects
    <3> QED BY <3>1, <3>2, <3>3, <3>4 DEF Admits
  <2> QED BY <2>1, <2>2
<1>7. ASSUME NEW j \in Invocations, Writes(j)
      PROVE  Admits(invocation'[i], session'[invocation'[i].sid].authSessionState)
  <2>1. i # j
    BY <1>7 DEF Writes
  <2>2. invocation'[i] = invocation[i]
    BY <1>7, <2>1 DEF Writes, Turn
  <2>3. session'[invocation[i].sid] = session[invocation[i].sid]
    BY <1>2, <1>7, <2>1, <2>2, WriteApart DEF Alone
  <2> QED BY <1>2, <2>2, <2>3
<1> QED BY <1>1, <1>3, <1>4, <1>5, <1>6, <1>7 DEF StepKinds

LEMMA Stages ==
  /\ \A state \in AuthSessionState : Stage[state] \in 0 .. 7
  /\ Stage["F2F_SESSION_CREATED"] = 0 /\ Stage["F2F_YOTI_SESSION_CREATED"] = 1
  /\ Stage["F2F_AUTH_CODE_ISSUED"] = 2 /\ Stage["F2F_ACCESS_TOKEN_ISSUED"] = 3
  /\ Stage["F2F_CRI_SESSION_ABORTED"] = 7 /\ Stage["F2F_SESSION_EXPIRED"] = 7
BY DEF Stage, AuthSessionState

\* What a step does to one row, when the invocations of its session do not overlap.
StateMoves(s) ==
  LET before == session[s].authSessionState
      after  == session'[s].authSessionState
  IN  \/ after \in {before, None} \cup CallbackStates
                     \cup {"F2F_CRI_SESSION_ABORTED", "F2F_SESSION_EXPIRED"}
      \/ before = None
      \/ before = "F2F_SESSION_CREATED" /\ after = "F2F_YOTI_SESSION_CREATED"
      \/ before = "F2F_YOTI_SESSION_CREATED" /\ after = "F2F_AUTH_CODE_ISSUED"
      \/ before = "F2F_AUTH_CODE_ISSUED" /\ after = "F2F_ACCESS_TOKEN_ISSUED"

LEMMA StatesMove ==
  ASSUME Backed, Alone, RowsWait, StatesWait, [Next]_vars, NEW s \in Sessions
  PROVE  StateMoves(s)
<1>1. StepKinds
  BY EveryStep DEF Alone
<1>2. CASE session'[s] = session[s]
  BY <1>2 DEF StateMoves
<1>3. CASE Drifts
  BY <1>3 DEF Drifts, Marked, NoRow, StateMoves
<1>4. ASSUME NEW i \in Invocations, NEW t \in Sessions, Begins(i, t) PROVE StateMoves(s)
  <2>1. s = t => session[s].authSessionState = None
    BY <1>4 DEF Begins, RowsWait, Unasked, NoRow
  <2> QED BY <1>2, <1>4, <2>1 DEF Begins, RowSays, StateMoves
<1>5. ASSUME NEW i \in Invocations, Writes(i) PROVE StateMoves(s)
  <2>1. CASE s # invocation[i].sid
    BY <1>2, <1>5, <2>1, WriteApart DEF Alone
  <2>2. CASE s = invocation[i].sid
    <3>1. Admits(invocation[i], session[s].authSessionState)
      BY <1>5, <2>2, IdleFields DEF Writes, StatesWait, IsIdle
    <3> QED BY <1>5, <2>2, <3>1
            DEF Writes, Wrote, RowSays, Admits, HasOpened, StateMoves
  <2> QED BY <2>1, <2>2
<1>6. ASSUME NEW i \in Invocations, NEW t \in Sessions, Admitted(i, t) \/ Selects(i)
      PROVE  StateMoves(s)
  BY <1>2, <1>6 DEF Admitted, Selects
<1> QED BY <1>1, <1>3, <1>4, <1>5, <1>6 DEF StepKinds

LEMMA OnlyCallbacks ==
  ASSUME Backed, Alone, RowsWait, StatesWait, [Next]_vars, NEW s \in Sessions,
         session[s].authSessionState # None, session'[s].authSessionState # None,
         Stage[session'[s].authSessionState] < Stage[session[s].authSessionState]
  PROVE  session'[s].authSessionState \in CallbackStates
<1>1. session[s].authSessionState \in AuthSessionState
  BY DEF Backed, TypeOK, Row
<1>2. StateMoves(s)
  BY StatesMove
<1> QED BY <1>1, <1>2, Stages DEF StateMoves

LEMMA YotiSessionStays ==
  ASSUME Backed, Alone, RowsWait, [Next]_vars, NEW s \in Sessions,
         session[s].yotiSessionId # None, session'[s] # NoRow
  PROVE  session'[s].yotiSessionId = session[s].yotiSessionId
<1>1. StepKinds
  BY EveryStep DEF Alone
<1>2. CASE Drifts
  BY <1>2 DEF Drifts, Marked
<1>3. ASSUME NEW i \in Invocations, NEW t \in Sessions, Begins(i, t)
      PROVE  session'[s] = session[s]
  BY <1>3 DEF Begins, RowSays, RowsWait, Unasked, NoRow
<1>4. ASSUME NEW i \in Invocations, Writes(i)
      PROVE  session'[s].yotiSessionId = session[s].yotiSessionId
  <2>1. CASE s # invocation[i].sid
    BY <1>4, <2>1, WriteApart DEF Alone
  <2>2. CASE s = invocation[i].sid
    BY <1>4, <2>2 DEF Writes, Wrote, RowSays, RowsWait, HasOpened
  <2> QED BY <2>1, <2>2
<1>5. ASSUME NEW i \in Invocations, NEW t \in Sessions, Admitted(i, t) \/ Selects(i)
      PROVE  session'[s] = session[s]
  BY <1>5 DEF Admitted, Selects
<1> QED BY <1>1, <1>2, <1>3, <1>4, <1>5 DEF StepKinds

-----------------------------------------------------------------------------
(* Reads that see every write: no superseded version is kept.              *)

LEMMA PutLags ==
  ASSUME MaxStale = 0, TypeOK, FreshReads, NEW s \in Sessions, NEW row, Put(s, row)
  PROVE  FreshReads'
<1>1. stale' = [stale EXCEPT ![s] = IF Cardinality(stale[s]) < 0
                                      THEN stale[s] \cup {session[s]} ELSE stale[s]]
  BY DEF Put
<1>2. Cardinality(stale[s]) = 0
  BY FS_EmptySet DEF FreshReads
<1> QED BY <1>1, <1>2 DEF TypeOK, FreshReads

LEMMA StepLags ==
  ASSUME MaxStale = 0, Backed, FreshReads, [Next]_vars
  PROVE  FreshReads'
<1>1. TypeOK
  BY DEF Backed
<1>2. ASSUME NEW s \in Sessions, NEW row, Put(s, row) PROVE FreshReads'
  BY <1>1, <1>2, PutLags
<1>3. ASSUME UNCHANGED stale PROVE FreshReads'
  BY <1>3 DEF FreshReads
<1>4. ASSUME NEW s \in Sessions, Propagate(s) PROVE FreshReads'
  BY <1>1, <1>4 DEF Propagate, TypeOK, FreshReads
<1>5. ASSUME NEW s \in Sessions, Update(s) \/ createAuthSession(s) \/ markSessionAsExpired(s)
      PROVE  FreshReads'
  <2>1. \E row : Put(s, row)
    BY <1>5 DEF Update, updateSessionTtl, addUsersSelectedDocument, createAuthSession,
         updateSessionWithAccessTokenDetails, updateSessionWithYotiIdAndStatus,
         setAuthorizationCode, updateSessionAuthState, markSessionAsExpired
  <2> QED BY <1>2, <2>1
<1>6. CASE ServiceNext \/ UNCHANGED vars
  BY <1>2, <1>3, <1>4, <1>6
     DEF ServiceNext, TimeToLive, InvocationFails, Tick, vars, tables
<1>7. ASSUME Creates PROVE FreshReads'
  BY <1>5, <1>7 DEF Creates, SessionCreate
<1>8. ASSUME NoWrite PROVE FreshReads'
  BY <1>3, <1>8 DEF NoWrite
<1> QED BY <1>5, <1>6, <1>7, <1>8, ApiWrites, CallbackWrites, ExpiryWrites DEF Next

LEMMA AlwaysAlone ==
  ASSUME MaxStale = 0
  PROVE  Spec /\ []OneAtATime => []Alone
<1>1. Init => FreshReads
  BY DEF Init, ServiceInit, FreshReads
<1>2. Backed /\ FreshReads /\ [Next]_vars => FreshReads'
  BY StepLags
<1>3. FreshReads /\ OneAtATime => Alone
  BY DEF Alone
<1> QED BY <1>1, <1>2, <1>3, AlwaysBacked, PTL DEF Spec

-----------------------------------------------------------------------------
(* What holds when reads see every write and no two invocations for the    *)
(* same session overlap. Those of different sessions may.                  *)

LEMMA InitAlone == Init => RowsWait /\ CodesSpent /\ OpenedOnce /\ StatesWait
<1> SUFFICES ASSUME Init PROVE RowsWait /\ CodesSpent /\ OpenedOnce /\ StatesWait
  OBVIOUS
<1>1. \A i \in Invocations : invocation[i] = Idle
  BY DEF Init, ServiceInit
<1>2. ~Opens(Idle) /\ ~HasOpened(Idle) /\ Idle.sid = None /\ Idle.at = "idle"
  BY WatchedSteps, IdleFields DEF Watched
<1>3. RowsWait
  BY <1>1, <1>2, NoneAssumption DEF Init, ServiceInit, RowsWait, Unasked
<1>4. CodesSpent
  BY DEF Init, ServiceInit, CodesSpent
<1>5. OpenedOnce
  BY DEF Init, ServiceInit, OpenedOnce, OneYotiSession
<1>6. StatesWait
  BY <1>1 DEF StatesWait, IsIdle
<1> QED BY <1>3, <1>4, <1>5, <1>6

LEMMA AlwaysWaits == Spec /\ []Alone => [](Backed /\ Aged /\ RowsWait)
BY InitAlone, StepWaits, AlwaysAged, PTL DEF Spec

\* A code is exchanged for one access token, as long as no two invocations for the same
\* session overlap and reads see every write, for any number of sessions, codes and
\* failed calls; whatever the users, Yoti and the schedule do meanwhile.
THEOREM CodesAreExchangedOnce ==
  ASSUME MaxStale = 0
  PROVE  Spec /\ []OneAtATime => []CodeExchangedOnce
<1>1. CodesSpent => CodeExchangedOnce
  BY DEF CodesSpent, CodeExchangedOnce
<1>2. Spec /\ []OneAtATime => []Alone
  BY AlwaysAlone
<1> QED BY <1>1, <1>2, InitAlone, StepSpends, AlwaysBacked, PTL DEF Spec

\* A journey opens one Yoti session under the same two conditions, up to the first
\* failed call: after one, the client asks again and Yoti opens another.
THEOREM JourneysOpenOneYotiSession ==
  ASSUME MaxStale = 0
  PROVE  Spec /\ []OneAtATime => [](faults = 0 => OneYotiSession)
<1>1. OpenedOnce => (faults = 0 => OneYotiSession)
  BY DEF OpenedOnce
<1>2. Spec /\ []OneAtATime => []Alone
  BY AlwaysAlone
<1> QED BY <1>1, <1>2, InitAlone, StepOpens, AlwaysWaits, PTL DEF Spec

\* Under the same two conditions the Yoti session of a row stays until the row goes.
THEOREM YotiSessionsAreStable ==
  ASSUME MaxStale = 0
  PROVE  Spec /\ []OneAtATime => YotiSessionIsStable
<1>1. Backed /\ Aged /\ RowsWait /\ Alone /\ [Next]_vars =>
        [\A s \in Sessions :
           session[s].yotiSessionId # None /\ session'[s] # NoRow
             => session'[s].yotiSessionId = session[s].yotiSessionId]_vars
  BY YotiSessionStays
<1>2. Spec /\ []OneAtATime => []Alone
  BY AlwaysAlone
<1> QED BY <1>1, <1>2, AlwaysWaits, PTL DEF Spec, YotiSessionIsStable

\* If, besides, the schedule marks no session while an invocation for it is under way,
\* only a callback takes a session to an earlier stage.
THEOREM EndpointsGoForward ==
  ASSUME MaxStale = 0
  PROVE  Spec /\ [](OneAtATime /\ SweepApart) => OnlyCallbacksGoBack
<1>1. Backed /\ Aged /\ RowsWait /\ StatesWait /\ Alone /\ [Next]_vars =>
        [\A s \in Sessions :
           LET before == session[s].authSessionState
               after  == session'[s].authSessionState
           IN  before # None /\ after # None /\ Stage[after] < Stage[before]
                 => after \in {"F2F_POST_OFFICE_VISITED", "F2F_YOTI_SESSION_COMPLETE",
                               "F2F_CREDENTIAL_ISSUED"}]_vars
  BY OnlyCallbacks DEF CallbackStates
<1>2. Spec /\ []OneAtATime => []Alone
  BY AlwaysAlone
<1> QED BY <1>1, <1>2, InitAlone, StepAdmits, AlwaysWaits, PTL
        DEF Spec, OnlyCallbacksGoBack

-----------------------------------------------------------------------------
(* What is left when requests of a session overlap: for Spec as it is.     *)

\* The Yoti sessions document selections are about to write are those they were about
\* to write before, or one was opened that nobody owned.
WritersStay ==
  \A i \in Invocations : HasOpened(invocation'[i]) =>
    \/ /\ HasOpened(invocation[i])
       /\ invocation'[i].yotiSessionId = invocation[i].yotiSessionId
    \/ /\ Turn(i) /\ invocation'[i].yotiSessionId \in YotiSessions
       /\ yoti[invocation'[i].yotiSessionId].owner = None

\* Who stands at a step that only a settled session leads to, is of one.
InvocationsFollow ==
  \A i \in Invocations : invocation'[i].at \in SettledSteps => LetterSettled(invocation'[i].sid)

RowsFollow ==
  \A s \in Sessions : \A row \in Visible(s)' :
    row \in Visible(s) \/ RowSettled(s, row) \/ RowSettled(s, row)'

LEMMA SettledStays ==
  ASSUME TypeOK, Grows, WritersStay, NEW s \in Sessions, LetterSettled(s)
  PROVE  LetterSettled(s)'
<1>1. PICK letter \in letters :
        /\ yoti[letter.yotiSessionId].owner = s
        /\ \A i \in Invocations :
             HasOpened(invocation[i]) => invocation[i].yotiSessionId # letter.yotiSessionId
  BY DEF LetterSettled
<1>2. letter.yotiSessionId \in YotiSessions /\ letter \in letters'
  BY DEF TypeOK, Letter, Grows
<1>3. s # None
  BY NoneAssumption
<1>4. yoti'[letter.yotiSessionId].owner = s
  BY <1>1, <1>2, <1>3 DEF Grows
<1>5. ASSUME NEW i \in Invocations, HasOpened(invocation'[i])
      PROVE  invocation'[i].yotiSessionId # letter.yotiSessionId
  BY <1>1, <1>3, <1>5 DEF WritersStay
<1> QED BY <1>2, <1>4, <1>5 DEF LetterSettled, HasOpened

\* Each Yoti session has one document selection that writes it.
LEMMA WritersApart ==
  ASSUME Backed, WritersStay, StartsSettled,
         NEW i \in Invocations, NEW j \in Invocations,
         HasOpened(invocation'[i]), HasOpened(invocation'[j]),
         invocation'[i].yotiSessionId = invocation'[j].yotiSessionId
  PROVE  i = j
<1>1. ASSUME NEW k \in Invocations, HasOpened(invocation[k])
      PROVE  yoti[invocation[k].yotiSessionId].owner # None
  <2>1. /\ invocation[k].sid \in Sessions
        /\ yoti[invocation[k].yotiSessionId].owner = invocation[k].sid
    BY <1>1, SidTyped DEF HasOpened, Backed, InvocationBacked
  <2> QED BY <2>1, NoneAssumption
<1> DEFINE Kept(k) == /\ HasOpened(invocation[k])
                      /\ invocation'[k].yotiSessionId = invocation[k].yotiSessionId
<1>2. CASE Kept(i) /\ Kept(j)
  BY <1>2 DEF StartsSettled
<1>3. ASSUME NEW k \in Invocations, NEW l \in Invocations, k # l, HasOpened(invocation'[l]),
             Turn(k), yoti[invocation'[k].yotiSessionId].owner = None,
             invocation'[k].yotiSessionId = invocation'[l].yotiSessionId
      PROVE  FALSE
  BY <1>1, <1>3 DEF Turn
<1> QED BY <1>2, <1>3 DEF WritersStay

LEMMA SettledStep ==
  ASSUME Backed, Backed', Grows, StartsSettled, WritersStay, InvocationsFollow, RowsFollow
  PROVE  StartsSettled'
<1>1. TypeOK
  BY DEF Backed
<1>2. ASSUME NEW s \in Sessions, NEW row \in Visible(s)' PROVE RowSettled(s, row)'
  <2>1. RowSettled(s, row) \/ RowSettled(s, row)'
    BY <1>2 DEF RowsFollow, StartsSettled
  <2> QED BY <1>1, <2>1, SettledStays DEF RowSettled
<1>3. ASSUME NEW i \in Invocations PROVE InvocationSettled(invocation[i])'
  <2>1. SUFFICES ASSUME invocation'[i].at \in SettledSteps
                 PROVE  LetterSettled(invocation[i].sid)'
    BY DEF InvocationSettled, SettledSteps
  <2>2. InvocationTyped(invocation[i])'
    BY DEF Backed, InvocationBacked
  <2>3. PICK s \in Sessions : s = invocation'[i].sid
    BY <2>1, <2>2 DEF InvocationTyped, SettledSteps, CompletionSteps
  <2>4. LetterSettled(s)
    BY <2>1, <2>3 DEF InvocationsFollow
  <2>5. LetterSettled(s)'
    BY <1>1, <2>4, SettledStays
  <2> QED BY <2>3, <2>5 DEF LetterSettled
<1>4. ASSUME NEW i \in Invocations, NEW j \in Invocations,
             HasOpened(invocation'[i]), HasOpened(invocation'[j]),
             invocation'[i].yotiSessionId = invocation'[j].yotiSessionId
      PROVE  i = j
  BY <1>4, WritersApart
<1> QED BY <1>2, <1>3, <1>4 DEF StartsSettled, HasOpened

\* An invocation that moves leaves the others where they are.
LEMMA TurnFollows ==
  ASSUME Backed, StartsSettled, NEW i \in Invocations, Turn(i),
         HasOpened(invocation'[i]) =>
           \/ /\ HasOpened(invocation[i])
              /\ invocation'[i].yotiSessionId = invocation[i].yotiSessionId
           \/ /\ invocation'[i].yotiSessionId \in YotiSessions
              /\ yoti[invocation'[i].yotiSessionId].owner = None,
         invocation'[i].at \in SettledSteps => LetterSettled(invocation'[i].sid)
  PROVE  WritersStay /\ InvocationsFollow
<1>1. ASSUME NEW j \in Invocations, j # i PROVE invocation'[j] = invocation[j]
  BY <1>1 DEF Turn
<1>2. WritersStay
  BY <1>1 DEF WritersStay
<1>3. InvocationsFollow
  BY <1>1 DEF InvocationsFollow, StartsSettled, InvocationSettled
<1> QED BY <1>2, <1>3

\* So does one that returns, or goes on to a step neither is about.
LEMMA PlainTurnFollows ==
  ASSUME Backed, StartsSettled, NEW i \in Invocations, Turn(i),
         ~HasOpened(invocation'[i]), invocation'[i].at \notin SettledSteps
  PROVE  WritersStay /\ InvocationsFollow
BY TurnFollows

LEMMA ReturnFollows ==
  ASSUME Backed, StartsSettled, NEW i \in Invocations, Return(i)
  PROVE  WritersStay /\ InvocationsFollow
<1>1. Turn(i) /\ invocation'[i].at = "idle"
  BY ReturnTurn, IdleFields DEF Backed
<1> QED BY <1>1, PlainTurnFollows DEF HasOpened, SettledSteps, CompletionSteps

\* The invocation goes on for the same session.
LEMMA StepFollows ==
  ASSUME Backed, StartsSettled, NEW i \in Invocations, Turn(i), ~HasOpened(invocation'[i]),
         invocation'[i].sid = invocation[i].sid, invocation[i].at \in SettledSteps
  PROVE  WritersStay /\ InvocationsFollow
BY TurnFollows DEF StartsSettled, InvocationSettled

LEMMA NobodyMoves ==
  ASSUME StartsSettled, UNCHANGED invocation
  PROVE  WritersStay /\ InvocationsFollow
BY DEF StartsSettled, InvocationSettled, WritersStay, InvocationsFollow

LEMMA ServiceFollows ==
  ASSUME Backed, StartsSettled, ServiceNext \/ ExpiryNext \/ UNCHANGED vars
  PROVE  WritersStay /\ InvocationsFollow
<1>1. UNCHANGED invocation \/ \E i \in Invocations : Return(i)
  BY DEF ServiceNext, TimeToLive, Propagate, InvocationFails, Tick, vars,
         ExpiryNext, ExpiryQuery, ExpiryNotify, ExpiryMark, ExpiryFails
<1> QED BY <1>1, ReturnFollows, NobodyMoves

\* Requests that begin: who is admitted by the state of a row it saw is of a settled
\* session.
LEMMA RequestFollows ==
  ASSUME Backed, StartsSettled, NEW i \in Invocations, NEW s \in Sessions,
         \/ SessionCreate(i, s) \/ AuthorizationRead(i, s) \/ AbortRead(i, s)
         \/ \E pref \in PdfPreferences : DocSelectRead(i, s, pref)
  PROVE  WritersStay /\ InvocationsFollow
<1>1. TypeOK
  BY DEF Backed
<1>2. CASE SessionCreate(i, s) \/ AbortRead(i, s)
  <2>1. Turn(i) /\ invocation'[i].at \in {"session:person", "abort:update"}
    BY <1>1, <1>2, RequestTurn
  <2> QED BY <2>1, PlainTurnFollows DEF HasOpened, SettledSteps, CompletionSteps
<1>3. CASE AuthorizationRead(i, s)
  <2>1. Turn(i) /\ invocation'[i].at = "authorization:code" /\ invocation'[i].sid = s
    BY <1>1, <1>3, RequestTurn
  <2>2. \E row \in Visible(s) : row.authSessionState = "F2F_YOTI_SESSION_CREATED"
    BY <1>3 DEF AuthorizationRead
  <2>3. LetterSettled(s)
    BY <2>2 DEF StartsSettled, RowSettled, SettledStates, InstructedStates
  <2> QED BY <2>1, <2>3, TurnFollows DEF HasOpened
<1>4. ASSUME NEW pref \in PdfPreferences, DocSelectRead(i, s, pref)
      PROVE  WritersStay /\ InvocationsFollow
  <2>1. PICK row \in Visible(s) :
          invocation' = [invocation EXCEPT ![i] =
                           [Idle EXCEPT !.at = "docSelect:preference", !.sid = s,
                                        !.row = row, !.pdfPreference = pref]]
    BY <1>4 DEF DocSelectRead
  <2>2. Turn(i) /\ invocation'[i].at = "docSelect:preference"
    BY <1>1, <2>1, DocReadTurn
  <2> QED BY <2>2, PlainTurnFollows DEF HasOpened, SettledSteps, CompletionSteps
<1> QED BY <1>2, <1>3, <1>4

LEMMA TokenReadFollows ==
  ASSUME Backed, StartsSettled, NEW i \in Invocations, NEW c \in Codes, TokenRead(i, c)
  PROVE  WritersStay /\ InvocationsFollow
<1>1. PICK s \in Sessions :
        /\ \E row \in Visible(s) : row.authSessionState = "F2F_AUTH_CODE_ISSUED"
        /\ invocation' = [invocation EXCEPT ![i] =
                            [Idle EXCEPT !.at = "token:update", !.sid = s, !.code = c]]
  BY DEF TokenRead
<1>2. Turn(i) /\ invocation'[i].at = "token:update" /\ invocation'[i].sid = s
  BY <1>1, TokenReadTurn DEF Backed
<1>3. LetterSettled(s)
  BY <1>1 DEF StartsSettled, RowSettled, SettledStates, InstructedStates
<1> QED BY <1>2, <1>3, TurnFollows DEF HasOpened

\* A document selection on its way: only Yoti's answer gives it a session to write, and
\* that is a new one.
LEMMA SelectionFollows ==
  ASSUME Backed, StartsSettled, NEW i \in Invocations,
         \/ DocSelectPreference(i) \/ DocSelectLetter(i)
         \/ \E y \in YotiSessions : DocSelectYoti(i, y)
  PROVE  WritersStay /\ InvocationsFollow
<1>1. TypeOK
  BY DEF Backed
<1>2. CASE Return(i)
  BY <1>2, ReturnFollows
<1>3. CASE invocation' = [invocation EXCEPT ![i].at = "docSelect:yoti", ![i].row = NoRow]
  <2>1. Turn(i) /\ invocation'[i].at = "docSelect:yoti"
    BY <1>1, <1>3, ForgetTurn DEF Steps
  <2> QED BY <2>1, PlainTurnFollows DEF HasOpened, SettledSteps, CompletionSteps
<1>4. CASE DocSelectLetter(i)
  <2>1. /\ Turn(i) /\ invocation'[i].at = "docSelect:yotiId"
        /\ invocation'[i].yotiSessionId = invocation[i].yotiSessionId
    BY <1>1, <1>4, GotoTurn DEF DocSelectLetter, Steps
  <2>2. HasOpened(invocation[i])
    BY <1>4 DEF DocSelectLetter, At, HasOpened
  <2> QED BY <2>1, <2>2, TurnFollows DEF SettledSteps, CompletionSteps
<1>5. ASSUME NEW y \in YotiSessions, yoti[y].owner = None,
             invocation' = [invocation EXCEPT ![i].at = "docSelect:letter",
                                              ![i].yotiSessionId = y]
      PROVE  WritersStay /\ InvocationsFollow
  <2>1. /\ Turn(i) /\ invocation'[i].at = "docSelect:letter"
        /\ invocation'[i].yotiSessionId = y
    BY <1>1, <1>5, OpenTurn
  <2> QED BY <1>5, <2>1, TurnFollows DEF SettledSteps, CompletionSteps
<1> QED BY <1>2, <1>3, <1>4, <1>5 DEF DocSelectPreference, DocSelectYoti

LEMMA ApiFollows ==
  ASSUME Backed, StartsSettled, ApiNext
  PROVE  WritersStay /\ InvocationsFollow
<1>1. ASSUME NEW i \in Invocations,
             \/ SessionSavePerson(i) \/ DocSelectYotiId(i) \/ DocSelectTtl(i)
             \/ DocSelectDocument(i) \/ TokenUpdate(i) \/ AbortUpdate(i)
             \/ \E c \in Codes : AuthorizationCode(i, c)
      PROVE  WritersStay /\ InvocationsFollow
  <2>1. Return(i) \/ \E step \in {"docSelect:ttl", "docSelect:document"} : Goto(i, step)
    BY <1>1 DEF SessionSavePerson, DocSelectYotiId, DocSelectTtl, DocSelectDocument,
                TokenUpdate, AbortUpdate, AuthorizationCode
  <2>2. ASSUME NEW step \in {"docSelect:ttl", "docSelect:document"}, Goto(i, step)
        PROVE  WritersStay /\ InvocationsFollow
    <3>1. Turn(i) /\ invocation'[i].at = step
      BY <2>2, GotoTurn DEF Backed, Steps
    <3> QED BY <3>1, PlainTurnFollows DEF HasOpened, SettledSteps, CompletionSteps
  <2> QED BY <2>1, <2>2, ReturnFollows
<1> QED BY <1>1, RequestFollows, TokenReadFollows, SelectionFollows DEF ApiNext

LEMMA CallbackStartFollows ==
  ASSUME Backed, StartsSettled, NEW i \in Invocations, NEW y \in YotiSessions,
         NEW topic \in Topics, CallbackStarts(i, y, topic)
  PROVE  WritersStay /\ InvocationsFollow
<1>1. PICK s \in Sessions : \E row \in Visible(s) :
        /\ SessionByYotiId(y, s, YotiIndexItem(row))
        /\ invocation' = [invocation EXCEPT ![i] =
                            [Idle EXCEPT !.at = FirstStep(topic), !.sid = s,
                                         !.row = YotiIndexItem(row), !.yotiSessionId = y]]
  BY DEF CallbackStarts
<1>2. Turn(i) /\ invocation'[i].at = FirstStep(topic) /\ invocation'[i].sid = s
  <2>1. PICK row \in Visible(s) :
          invocation' = [invocation EXCEPT ![i] =
                           [Idle EXCEPT !.at = FirstStep(topic), !.sid = s,
                                        !.row = YotiIndexItem(row), !.yotiSessionId = y]]
    BY <1>1
  <2> QED BY <2>1, CallbackTurn DEF Backed
<1>3. LetterSettled(s)
  <2>1. \E row \in Visible(s) : row.yotiSessionId = y
    BY <1>1 DEF SessionByYotiId
  <2> QED BY <2>1, NoneAssumption DEF StartsSettled, RowSettled
<1>4. FirstStep(topic) \notin {"docSelect:letter", "docSelect:yotiId"}
  BY DEF FirstStep, Topics
<1> QED BY <1>2, <1>3, <1>4, TurnFollows DEF HasOpened

LEMMA CallbackFollows ==
  ASSUME Backed, StartsSettled, CallbackNext
  PROVE  WritersStay /\ InvocationsFollow
<1>1. ASSUME NEW i \in Invocations,
             ThankYouAudit(i) \/ CompletionAnswerUsable(i) \/ CompletionCredential(i)
      PROVE  WritersStay /\ InvocationsFollow
  <2>1. invocation[i].at \in SettledSteps
    BY <1>1 DEF ThankYouAudit, CompletionAnswerUsable, CompletionCredential, At,
                SettledSteps, CompletionSteps
  <2>2. CASE \E step \in {"thankYou:update", "completion:update"} : Goto(i, step)
    <3>1. /\ Turn(i) /\ invocation'[i].at \in {"thankYou:update", "completion:update"}
          /\ invocation'[i].sid = invocation[i].sid
      BY <2>2, GotoTurn DEF Backed, Steps
    <3> QED BY <2>1, <3>1, StepFollows DEF HasOpened
  <2>3. CASE invocation' = [invocation EXCEPT ![i].at = "completion:credential",
                                             ![i].row = NoRow]
    <3>1. /\ Turn(i) /\ invocation'[i].at = "completion:credential"
          /\ invocation'[i].sid = invocation[i].sid
      BY <2>3, ForgetTurn DEF Backed, Steps
    <3> QED BY <2>1, <3>1, StepFollows DEF HasOpened
  <2> QED BY <1>1, <2>2, <2>3 DEF ThankYouAudit, CompletionAnswerUsable, CompletionCredential
<1>2. ASSUME NEW i \in Invocations,
             \/ FirstBranchVisit(i) \/ ThankYouUpdate(i) \/ CompletionAnswerUnusable(i)
             \/ CompletionWrongState(i) \/ CompletionNoCredential(i) \/ CompletionUpdate(i)
             \/ CompletionThrows(i)
      PROVE  WritersStay /\ InvocationsFollow
  <2>1. Return(i)
    BY <1>2 DEF FirstBranchVisit, ThankYouUpdate, CompletionAnswerUnusable,
                CompletionWrongState, CompletionNoCredential, CompletionUpdate,
                CompletionThrows, CompletionRefused
  <2> QED BY <2>1, ReturnFollows
<1>3. ASSUME NEW y \in YotiSessions,
             \/ \E report \in Reports : YotiReports(y, report)
             \/ \E topic \in Topics : CallbackLost(y, topic) \/ StartExecutionFails(y, topic)
      PROVE  WritersStay /\ InvocationsFollow
  BY <1>3, NobodyMoves DEF YotiReports, CallbackLost, StartExecutionFails
<1> QED BY <1>1, <1>2, <1>3, CallbackStartFollows DEF CallbackNext

-----------------------------------------------------------------------------
(* What such a step does to the rows.                                      *)

\* The versions a read may return are those it could return before, and the last one.
VersionsStay == \A s \in Sessions : Visible(s)' \subseteq Visible(s) \cup {session'[s]}

LEMMA PutVersions ==
  ASSUME TypeOK, NEW s \in Sessions, NEW row, Put(s, row)
  PROVE  VersionsStay
<1>1. stale'[s] \subseteq stale[s] \cup {session[s]}
  BY DEF Put, TypeOK
<1>2. \A t \in Sessions : t # s => stale'[t] = stale[t] /\ session'[t] = session[t]
  BY DEF Put, TypeOK
<1> QED BY <1>1, <1>2 DEF VersionsStay, Visible

LEMMA StepVersions ==
  ASSUME Backed, [Next]_vars
  PROVE  VersionsStay
<1>1. TypeOK
  BY DEF Backed
<1>2. CASE NoWrite
  BY <1>2 DEF NoWrite, VersionsStay, Visible
<1>3. ASSUME NEW s \in Sessions, Propagate(s) PROVE VersionsStay
  BY <1>1, <1>3 DEF Propagate, TypeOK, VersionsStay, Visible
<1>4. CASE \E s \in Sessions : \E row : Put(s, row)
  BY <1>1, <1>4, PutVersions
<1>5. ASSUME NEW s \in Sessions, Update(s) \/ createAuthSession(s) \/ markSessionAsExpired(s)
      PROVE  \E row : Put(s, row)
  BY <1>5 DEF Update, updateSessionTtl, addUsersSelectedDocument, createAuthSession,
       updateSessionWithAccessTokenDetails, updateSessionWithYotiIdAndStatus,
       setAuthorizationCode, updateSessionAuthState, markSessionAsExpired
<1>6. CASE ServiceNext \/ UNCHANGED vars
  <2>1. NoWrite \/ (\E s \in Sessions : Put(s, NoRow)) \/ \E s \in Sessions : Propagate(s)
    BY <1>6 DEF ServiceNext, TimeToLive, InvocationFails, Tick, vars, tables, NoWrite
  <2> QED BY <1>2, <1>3, <1>4, <2>1
<1>7. ASSUME Creates PROVE \E s \in Sessions : createAuthSession(s)
  BY <1>7 DEF Creates, SessionCreate
<1> QED BY <1>2, <1>4, <1>5, <1>6, <1>7, ApiWrites, CallbackWrites, ExpiryWrites DEF Next

\* Rows stay, are deleted or marked; or one begins; or an invocation writes its own.
RowSteps ==
  \/ \A s \in Sessions : session'[s] \in {session[s], NoRow} \/ Marked(s)
  \/ \E s \in Sessions : RowSays(s, None, None, "F2F_SESSION_CREATED")
  \/ \E i \in Invocations : Writes(i)

LEMMA StepRows ==
  ASSUME Backed, [Next]_vars
  PROVE  RowSteps
<1>1. CASE NoWrite
  BY <1>1 DEF NoWrite, RowSteps
<1>2. CASE ServiceNext \/ ExpiryNext \/ UNCHANGED vars
  BY <1>2, ServiceKind, ExpiryKind
     DEF StepKinds, Drifts, Begins, Admitted, Selects, RowSteps
<1>3. CASE ApiNext
  <2>1. ASSUME NEW i \in Invocations, NEW s \in Sessions, SessionCreate(i, s)
        PROVE  RowSteps
    BY <2>1, CreateKind DEF Begins, RowSteps
  <2>2. ASSUME NEW i \in Invocations,
               \/ DocSelectYotiId(i) \/ DocSelectTtl(i) \/ DocSelectDocument(i)
               \/ TokenUpdate(i) \/ AbortUpdate(i) \/ \E c \in Codes : AuthorizationCode(i, c)
        PROVE  RowSteps
    BY <2>2, ApiWriteKind DEF RowSteps
  <2>3. ASSUME NEW i \in Invocations,
               \/ \E s \in Sessions :
                    \/ AuthorizationRead(i, s) \/ AbortRead(i, s)
                    \/ \E pref \in PdfPreferences : DocSelectRead(i, s, pref)
               \/ SessionSavePerson(i) \/ DocSelectPreference(i) \/ DocSelectLetter(i)
               \/ \E y \in YotiSessions : DocSelectYoti(i, y)
               \/ \E c \in Codes : TokenRead(i, c)
        PROVE  NoWrite
    BY <2>3 DEF AuthorizationRead, AbortRead, DocSelectRead, SessionSavePerson,
                DocSelectPreference, DocSelectLetter, DocSelectYoti, TokenRead, tables, NoWrite
  <2> QED BY <1>1, <1>3, <2>1, <2>2, <2>3 DEF ApiNext
<1>4. CASE CallbackNext
  <2>1. \/ NoWrite
        \/ \E i \in Invocations :
             FirstBranchVisit(i) \/ ThankYouUpdate(i) \/ CompletionUpdate(i)
    BY <1>4 DEF CallbackNext, YotiReports, CallbackStarts, CallbackLost, StartExecutionFails,
         ThankYouAudit, CompletionAnswerUnusable, CompletionWrongState,
         CompletionAnswerUsable, CompletionNoCredential, CompletionCredential,
         CompletionThrows, tables, NoWrite
  <2> QED BY <1>1, <2>1, CallbackWriteKind DEF RowSteps
<1> QED BY <1>2, <1>3, <1>4 DEF Next

\* A row that says nothing a document selection wrote implies nothing.
LEMMA PlainRow ==
  ASSUME NEW s \in Sessions, NEW row, row.yotiSessionId = None,
         row.authSessionState \notin SettledStates
  PROVE  RowSettled(s, row)
BY DEF RowSettled

LEMMA NewRow ==
  ASSUME NEW s \in Sessions
  PROVE  RowSettled(s, NoRow)
<1>1. None \notin SettledStates
  BY NoneAssumption DEF SettledStates, InstructedStates, AuthSessionState
<1> QED BY <1>1, PlainRow DEF NoRow

\* The write of its own Yoti session settles the session of a document selection.
LEMMA WriteSettles ==
  ASSUME Backed, Grows, StartsSettled, NEW i \in Invocations, Writes(i),
         At(i, "docSelect:yotiId")
  PROVE  \A s \in Sessions : s = invocation[i].sid => LetterSettled(s)'
<1> DEFINE y == invocation[i].yotiSessionId
<1> SUFFICES ASSUME NEW s \in Sessions, s = invocation[i].sid PROVE LetterSettled(s)'
  OBVIOUS
<1>1. y \in YotiSessions /\ yoti[y].owner = s /\ HasLetter(y)
  BY DEF At, Backed, InvocationBacked, InvocationTyped
<1>2. PICK letter \in letters : letter.yotiSessionId = y
  BY <1>1 DEF HasLetter
<1>3. letter \in letters' /\ yoti'[y].owner = s
  BY <1>1, <1>2 DEF Grows, Writes, OwnersStay
<1>4. ASSUME NEW j \in Invocations, HasOpened(invocation'[j])
      PROVE  invocation'[j].yotiSessionId # y
  <2>1. j # i
    BY <1>4, WatchedSteps DEF Writes
  <2>2. invocation'[j] = invocation[j]
    BY <2>1 DEF Writes, Turn
  <2> QED BY <1>4, <2>1, <2>2 DEF StartsSettled, HasOpened, At
<1> QED BY <1>2, <1>3, <1>4 DEF LetterSettled, HasOpened

\* The row an invocation wrote says what it said before, or what settled sessions say.
LEMMA WriteRow ==
  ASSUME Backed, Grows, StartsSettled, NEW i \in Invocations, Writes(i),
         NEW s \in Sessions, s = invocation[i].sid
  PROVE  RowSettled(s, session'[s]) \/ LetterSettled(s)'
<1>1. RowSettled(s, session[s])
  BY DEF StartsSettled, Visible
<1>2. Wrote(i, s)
  BY DEF Writes
<1>3. CASE invocation[i].at = "docSelect:yotiId"
  BY <1>3, WriteSettles DEF At
<1>4. CASE invocation[i].at \in SettledSteps
  BY <1>4 DEF StartsSettled, InvocationSettled, RowSettled
<1>5. CASE /\ session'[s].yotiSessionId = session[s].yotiSessionId
           /\ session'[s].authSessionState \in
                {session[s].authSessionState, "F2F_CRI_SESSION_ABORTED"}
  BY <1>1, <1>5 DEF RowSettled, SettledStates, InstructedStates
<1> QED BY <1>2, <1>3, <1>4, <1>5 DEF Wrote, RowSays, SettledSteps, Watched

LEMMA StepRowsFollow ==
  ASSUME Backed, Grows, StartsSettled, [Next]_vars
  PROVE  RowsFollow
<1>1. ASSUME NEW s \in Sessions PROVE RowSettled(s, session[s])
  BY <1>1 DEF StartsSettled, Visible
<1>2. ASSUME NEW s \in Sessions
      PROVE  \/ session'[s] = session[s] \/ RowSettled(s, session'[s]) \/ LetterSettled(s)'
  <2>1. CASE \A t \in Sessions : session'[t] \in {session[t], NoRow} \/ Marked(t)
    <3>1. CASE Marked(s)
      BY <1>1, <3>1 DEF Marked, RowSettled, SettledStates, InstructedStates
    <3> QED BY <2>1, <3>1, NewRow
  <2>2. ASSUME NEW t \in Sessions, RowSays(t, None, None, "F2F_SESSION_CREATED")
        PROVE  session'[s] = session[s] \/ RowSettled(s, session'[s])
    <3>1. "F2F_SESSION_CREATED" \notin SettledStates
      BY DEF SettledStates, InstructedStates
    <3> QED BY <2>2, <3>1, PlainRow DEF RowSays
  <2>3. ASSUME NEW i \in Invocations, Writes(i)
        PROVE  session'[s] = session[s] \/ RowSettled(s, session'[s]) \/ LetterSettled(s)'
    <3>1. s # invocation[i].sid => session'[s] = session[s]
      BY <2>3 DEF Writes, Wrote, RowSays
    <3> QED BY <2>3, <3>1, WriteRow
  <2> QED BY <2>1, <2>2, <2>3, StepRows DEF RowSteps
<1>3. ASSUME NEW s \in Sessions, NEW row \in Visible(s)'
      PROVE  row \in Visible(s) \/ RowSettled(s, row) \/ RowSettled(s, row)'
  <2>1. row \in Visible(s) \/ row = session'[s]
    BY <1>3, StepVersions DEF VersionsStay
  <2>2. LetterSettled(s)' => RowSettled(s, row)'
    BY DEF RowSettled
  <2>3. session[s] \in Visible(s)
    BY DEF Visible
  <2> QED BY <1>2, <2>1, <2>2, <2>3
<1> QED BY <1>3 DEF RowsFollow

LEMMA StepSettles == Backed /\ StartsSettled /\ [Next]_vars => StartsSettled'
<1> SUFFICES ASSUME Backed, StartsSettled, [Next]_vars PROVE StartsSettled'
  OBVIOUS
<1>1. Grows /\ Backed'
  BY NextAdds, NextBacked DEF BacksWhatItAdds
<1>2. WritersStay /\ InvocationsFollow
  BY ServiceFollows, ApiFollows, CallbackFollows DEF Next
<1>3. RowsFollow
  BY <1>1, StepRowsFollow
<1> QED BY <1>1, <1>2, <1>3, SettledStep

LEMMA InitSettled == Init => StartsSettled
<1> SUFFICES ASSUME Init PROVE StartsSettled
  OBVIOUS
<1>1. \A s \in Sessions : Visible(s) = {NoRow}
  BY DEF Init, ServiceInit, Visible
<1>2. \A i \in Invocations : invocation[i].at = "idle"
  BY IdleFields DEF Init, ServiceInit
<1> QED BY <1>1, <1>2, NewRow
        DEF StartsSettled, InvocationSettled, HasOpened, SettledSteps, CompletionSteps

\* Only a document selection takes a row back, and the row it finds was written by
\* another one.
LEMMA RestartFound ==
  ASSUME Backed, StartsSettled, [Next]_vars, NEW s \in Sessions, StartsAgain(s)
  PROVE  InstructedTwice(s)
<1>1. "F2F_YOTI_SESSION_CREATED" \notin
        {"F2F_SESSION_EXPIRED", "F2F_SESSION_CREATED", "F2F_CRI_SESSION_ABORTED", None}
  BY NoneAssumption DEF AuthSessionState
<1>2. ASSUME NEW i \in Invocations, Writes(i), s = invocation[i].sid
      PROVE  invocation[i].at = "docSelect:yotiId"
  BY <1>1, <1>2 DEF StartsAgain, Writes, Wrote, RowSays, CallbackStates
<1>3. PICK i \in Invocations : Writes(i) /\ s = invocation[i].sid
  <2>1. ~(\A t \in Sessions : session'[t] \in {session[t], NoRow} \/ Marked(t))
    BY <1>1 DEF StartsAgain, Marked, NoRow
  <2>2. ASSUME NEW t \in Sessions, RowSays(t, None, None, "F2F_SESSION_CREATED")
        PROVE  FALSE
    BY <1>1, <2>2 DEF StartsAgain, RowSays
  <2>3. ASSUME NEW i \in Invocations, Writes(i), s # invocation[i].sid
        PROVE  FALSE
    BY <2>3 DEF StartsAgain, Writes, Wrote, RowSays
  <2> QED BY <2>1, <2>2, <2>3, StepRows DEF RowSteps
<1>4. At(i, "docSelect:yotiId")
  BY <1>2, <1>3 DEF At
<1>5. LetterSettled(s)
  <2>1. session[s] \in Visible(s)
    BY DEF Visible
  <2> QED BY <2>1 DEF StartsSettled, RowSettled, StartsAgain, SettledStates, InstructedStates
<1>6. PICK a \in letters :
        /\ yoti[a.yotiSessionId].owner = s
        /\ invocation[i].yotiSessionId # a.yotiSessionId
  BY <1>4, <1>5 DEF LetterSettled, HasOpened, At
<1>7. PICK b \in letters :
        b.yotiSessionId = invocation[i].yotiSessionId /\ yoti[b.yotiSessionId].owner = s
  BY <1>3, <1>4 DEF At, Backed, InvocationBacked, HasLetter
<1> QED BY <1>6, <1>7 DEF InstructedTwice

\* A journey starts again only for a user who was given two letters, whatever requests
\* overlap, calls fail, reads lag and messages come twice: what is left of
\* OnlyCallbacksGoBack and YotiSessionIsStable without the conditions they take.
THEOREM RestartsAreSecondSelections == Spec => RestartMeansTwoLetters
<1>1. Backed /\ StartsSettled /\ [Next]_vars =>
        [\A s \in Sessions : StartsAgain(s) => InstructedTwice(s)]_vars
  BY RestartFound
<1> QED BY <1>1, InitSettled, StepSettles, AlwaysBacked, PTL DEF Spec, RestartMeansTwoLetters
=============================================================================
