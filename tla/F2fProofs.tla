------------------------------ MODULE F2fProofs -----------------------------
(***************************************************************************)
(* Proofs that F2fJourney keeps Backed, and what follows from it, for any  *)
(* sets of ids, invocations and bounds.                                    *)
(***************************************************************************)
EXTENDS F2fInvariant, TLAPS

-----------------------------------------------------------------------------
(* A step keeps Backed if it takes no fact back and backs what it adds.    *)

\* The facts rows and invocations rest on only grow in number.
Grows ==
  /\ \A y \in YotiSessions :
       yoti[y].owner # None => yoti'[y].owner = yoti[y].owner
  /\ \A c \in Codes : codes[c] # None => codes'[c] = codes[c]
  /\ letters \subseteq letters'
  /\ audit \subseteq audit'
  /\ toCore \subseteq toCore'

NewRowsBacked ==
  \A s \in Sessions : \A row \in Visible(s)' : row \in Visible(s) \/ RowBacked(s, row)'

NewInvocationsBacked ==
  \A i \in Invocations :
    invocation'[i] = invocation[i] \/ InvocationBacked(invocation[i])'

NewMessagesBacked == \A m \in toCore' : m \in toCore \/ MessageBacked(m)'

NewCodesBacked == \A c \in Codes : codes'[c] = codes[c] \/ CodeBacked(c)'

BacksWhatItAdds ==
  /\ TypeOK'
  /\ Grows
  /\ NewRowsBacked
  /\ NewInvocationsBacked
  /\ NewMessagesBacked
  /\ NewCodesBacked

\* A letter once started stays the letter of its session.
LEMMA LetterStays ==
  ASSUME TypeOK, Grows, NEW s \in Sessions, LetterStarted(s)
  PROVE  LetterStarted(s)'
<1>1. PICK letter \in letters : letter.sid = s /\ yoti[letter.yotiSessionId].owner = s
  BY DEF LetterStarted
<1>2. letter.yotiSessionId \in YotiSessions
  BY DEF TypeOK, Letter
<1>3. yoti'[letter.yotiSessionId].owner = s
  BY <1>1, <1>2, NoneAssumption DEF Grows
<1> QED BY <1>1, <1>3 DEF LetterStarted, Grows

\* A version of a row stays backed.
LEMMA RowStaysBacked ==
  ASSUME TypeOK, Grows, NEW s \in Sessions, NEW row \in Row, RowBacked(s, row)
  PROVE  RowBacked(s, row)'
<1>1. row.yotiSessionId # None => yoti'[row.yotiSessionId].owner = s
  BY NoneAssumption DEF RowBacked, Grows, Row
<1>2. row.authorizationCode # None => codes'[row.authorizationCode] = s
  BY NoneAssumption DEF RowBacked, Grows, Row
<1>3. LetterStarted(s) => LetterStarted(s)'
  BY LetterStays
<1>4. /\ Issued(s) => Issued(s)'
      /\ Audited("F2F_DOCUMENT_UPLOADED", s) => Audited("F2F_DOCUMENT_UPLOADED", s)'
      /\ \A y : HasLetter(y) => HasLetter(y)'
  BY DEF Grows, Issued, Audited, HasLetter
<1> QED BY <1>1, <1>2, <1>3, <1>4 DEF RowBacked

\* So does an invocation that has not moved.
LEMMA InvocationStaysBacked ==
  ASSUME TypeOK, Grows, NEW v \in Invocation, InvocationBacked(v)
  PROVE  InvocationBacked(v)'
<1>1. CASE v.at = "idle"
  BY <1>1 DEF InvocationBacked, InvocationTyped, CompletionSteps
<1>2. CASE v.at # "idle"
  <2>1. v.sid \in Sessions
    BY <1>2 DEF InvocationBacked, InvocationTyped
  <2>2. InvocationTyped(v)'
    BY DEF InvocationBacked, InvocationTyped
  <2>3. \A y \in YotiSessions : yoti[y].owner = v.sid => yoti'[y].owner = v.sid
    BY <2>1, NoneAssumption DEF Grows
  <2>4. \A c \in Codes : codes[c] = v.sid => codes'[c] = v.sid
    BY <2>1, NoneAssumption DEF Grows
  <2>5. LetterStarted(v.sid) => LetterStarted(v.sid)'
    BY <2>1, LetterStays
  <2>6. /\ Issued(v.sid) => Issued(v.sid)'
        /\ Audited("F2F_DOCUMENT_UPLOADED", v.sid)
             => Audited("F2F_DOCUMENT_UPLOADED", v.sid)'
        /\ HasLetter(v.yotiSessionId) => HasLetter(v.yotiSessionId)'
    BY DEF Grows, Issued, Audited, HasLetter
  <2> QED BY <2>2, <2>3, <2>4, <2>5, <2>6
          DEF InvocationBacked, InvocationTyped, CompletionSteps
<1> QED BY <1>1, <1>2

LEMMA BackedStep ==
  ASSUME Backed, BacksWhatItAdds
  PROVE  Backed'
<1> USE DEF BacksWhatItAdds
<1>1. ASSUME NEW s \in Sessions, NEW row \in Visible(s)' PROVE RowBacked(s, row)'
  <2>1. CASE RowBacked(s, row)'
    BY <2>1
  <2>2. CASE row \in Visible(s)
    <3>1. row \in Row
      BY <2>2 DEF Backed, TypeOK, Visible
    <3> QED BY <2>2, <3>1, RowStaysBacked DEF Backed
  <2> QED BY <1>1, <2>1, <2>2 DEF NewRowsBacked
<1>2. ASSUME NEW i \in Invocations PROVE InvocationBacked(invocation[i])'
  <2>1. CASE InvocationBacked(invocation[i])'
    BY <2>1
  <2>2. CASE invocation'[i] = invocation[i]
    <3>1. invocation[i] \in Invocation
      BY DEF Backed, TypeOK
    <3>2. InvocationBacked(invocation[i])
      BY DEF Backed
    <3> QED BY <2>2, <3>1, <3>2, InvocationStaysBacked DEF Backed
  <2> QED BY <2>1, <2>2 DEF NewInvocationsBacked
<1>3. ASSUME NEW m \in toCore' PROVE MessageBacked(m)'
  <2>1. CASE MessageBacked(m)'
    BY <2>1
  <2>2. CASE m \in toCore
    <3>1. MessageBacked(m) /\ m.sid \in Sessions
      BY <2>2 DEF Backed, TypeOK, CoreMessage
    <3>2. m.kind = "credential" => yoti'[m.yotiSessionId].owner = m.sid
      BY <3>1, NoneAssumption DEF MessageBacked, Grows
    <3>3. m.kind = "credential" => Audited("F2F_DOCUMENT_UPLOADED", m.sid)'
      BY <3>1 DEF MessageBacked, Grows, Audited
    <3> QED BY <3>1, <3>2, <3>3 DEF MessageBacked
  <2> QED BY <1>3, <2>1, <2>2 DEF NewMessagesBacked
<1>4. ASSUME NEW c \in Codes PROVE CodeBacked(c)'
  BY LetterStays, NoneAssumption DEF NewCodesBacked, Backed, CodeBacked, TypeOK, Grows
<1> QED BY <1>1, <1>2, <1>3, <1>4 DEF Backed

-----------------------------------------------------------------------------
(* What the writes of F2fService add.                                      *)

LEMMA IdleBacked == InvocationBacked(Idle)' /\ Idle \in Invocation
BY DEF InvocationBacked, InvocationTyped, CompletionSteps, Idle, Invocation, Steps,
       NoRow, Row, AuthSessionState

\* Only invocation i changes, to a backed one.
LEMMA InvocationMoves ==
  ASSUME TypeOK, NEW i \in Invocations, NEW v \in Invocation,
         invocation' = [invocation EXCEPT ![i] = v], InvocationBacked(v)'
  PROVE  invocation' \in [Invocations -> Invocation] /\ NewInvocationsBacked
<1>1. /\ invocation' \in [Invocations -> Invocation]
      /\ invocation'[i] = v
      /\ \A j \in Invocations \ {i} : invocation'[j] = invocation[j]
  BY DEF TypeOK
<1> QED BY <1>1 DEF NewInvocationsBacked, InvocationBacked, InvocationTyped

LEMMA NoRowTyped == NoRow \in Row
BY DEF NoRow, Row

LEMMA MovedTyped ==
  ASSUME NEW v \in Invocation, NEW step \in Steps, NEW row \in Row
  PROVE  /\ [v EXCEPT !.at = step] \in Invocation
         /\ [v EXCEPT !.at = step, !.row = row] \in Invocation
BY DEF Invocation

\* Goto leaves everything else of the invocation as it was.
LEMMA GotoMoves ==
  ASSUME TypeOK, NEW i \in Invocations, NEW step \in Steps, Goto(i, step)
  PROVE  \E v \in Invocation : /\ v = [invocation[i] EXCEPT !.at = step]
                               /\ invocation' = [invocation EXCEPT ![i] = v]
<1>1. invocation[i] \in Invocation
  BY DEF TypeOK
<1>2. [invocation[i] EXCEPT !.at = step] \in Invocation
  BY <1>1, MovedTyped, NoRowTyped
<1>3. invocation' = [invocation EXCEPT ![i] = [invocation[i] EXCEPT !.at = step]]
  BY DEF TypeOK, Goto
<1> QED BY <1>2, <1>3

LEMMA InvocationReturns ==
  ASSUME TypeOK, NEW i \in Invocations, Return(i)
  PROVE  invocation' \in [Invocations -> Invocation] /\ NewInvocationsBacked
BY InvocationMoves, IdleBacked DEF Return

\* Only the row of s gets a new version, a backed one.
LEMMA PutBacks ==
  ASSUME TypeOK, NEW s \in Sessions, NEW row \in Row, Put(s, row), RowBacked(s, row)'
  PROVE  /\ session' \in [Sessions -> Row]
         /\ stale' \in [Sessions -> SUBSET Row]
         /\ NewRowsBacked
<1>1. session' \in [Sessions -> Row] /\ stale' \in [Sessions -> SUBSET Row]
  BY DEF TypeOK, Put
<1>2. \A t \in Sessions : Visible(t)' \subseteq
        Visible(t) \cup (IF t = s THEN {row} ELSE {})
  BY DEF TypeOK, Put, Visible
<1> QED BY <1>1, <1>2 DEF NewRowsBacked

\* The last version of a row is backed after a step that takes nothing back.
LEMMA LastRowBacked ==
  ASSUME Backed, Grows, NEW s \in Sessions
  PROVE  \E row \in Row : row = session[s] /\ RowBacked(s, row) /\ RowBacked(s, row)'
<1>1. PICK row \in Row : row = session[s] /\ RowBacked(s, row)
  BY DEF Backed, Visible, TypeOK
<1>2. RowBacked(s, row)'
  BY <1>1, RowStaysBacked DEF Backed
<1> QED BY <1>1, <1>2

\* The types of the variables nothing else rests on.
RestTypeOK ==
  /\ now \in Nat
  /\ person \in [Sessions -> PersonRow]
  /\ client \in [Sessions -> {"none", "pending", "known"}]
  /\ tokens \in [Codes -> Nat]
  /\ callbacks \in [YotiSessions \X Topics -> 0 .. MaxReceiveCount]
  /\ expiry \in [at : {"idle", "notify", "mark"}, todo : SUBSET Sessions,
                 batch : SUBSET Sessions]
  /\ faults \in Nat

\* A step that writes no row, adds no fact and moves at most an invocation.
LEMMA QuietStep ==
  ASSUME Backed, UNCHANGED <<session, stale, codes, yoti, letters, sinks>>, RestTypeOK',
         invocation' \in [Invocations -> Invocation], NewInvocationsBacked
  PROVE  BacksWhatItAdds
<1>1. TypeOK'
  BY DEF Backed, TypeOK, RestTypeOK, sinks
<1>2. Grows /\ NewRowsBacked /\ NewMessagesBacked /\ NewCodesBacked
  BY DEF Grows, NewRowsBacked, NewMessagesBacked, NewCodesBacked, Visible, sinks
<1> QED BY <1>1, <1>2 DEF BacksWhatItAdds

\* A step that writes a row and adds neither letter, owner, message nor code.
LEMMA WritingStep ==
  ASSUME Backed, UNCHANGED <<codes, yoti, letters, toCore>>, RestTypeOK',
         audit \subseteq audit', audit' \subseteq [event : AuditEvents, sid : Sessions],
         session' \in [Sessions -> Row], stale' \in [Sessions -> SUBSET Row],
         NewRowsBacked,
         invocation' \in [Invocations -> Invocation], NewInvocationsBacked
  PROVE  BacksWhatItAdds
<1>1. TypeOK'
  BY DEF Backed, TypeOK, RestTypeOK
<1>2. Grows /\ NewMessagesBacked /\ NewCodesBacked
  BY DEF Grows, NewMessagesBacked, NewCodesBacked
<1> QED BY <1>1, <1>2 DEF BacksWhatItAdds

LEMMA AuditTyped ==
  ASSUME TypeOK, NEW s \in Sessions, NEW events \in SUBSET AuditEvents,
         SendToTxmaOrLog(s, events)
  PROVE  /\ audit \subseteq audit'
         /\ audit' \subseteq [event : AuditEvents, sid : Sessions]
         /\ faults' \in Nat
BY DEF TypeOK, SendToTxmaOrLog, Fault

\* The updates of a row: what they write is typed and backed.
RowWritten == /\ session' \in [Sessions -> Row]
              /\ stale' \in [Sessions -> SUBSET Row]
              /\ NewRowsBacked

LEMMA StateWritten ==
  ASSUME Backed, Grows, NEW s \in Sessions, NEW state \in AuthSessionState,
         updateSessionAuthState(s, state),
         state \in InstructedStates => LetterStarted(s)',
         state = "F2F_YOTI_SESSION_COMPLETE" => Audited("F2F_DOCUMENT_UPLOADED", s)',
         state = "F2F_CREDENTIAL_ISSUED" => Issued(s)'
  PROVE  RowWritten
<1>1. PICK old \in Row : old = session[s] /\ RowBacked(s, old)'
  BY LastRowBacked
<1>2. PICK row \in Row : row = [old EXCEPT !.authSessionState = state]
  BY DEF Row
<1>3. RowBacked(s, row)'
  BY <1>1, <1>2 DEF RowBacked, Row
<1> QED BY <1>1, <1>2, <1>3, PutBacks DEF updateSessionAuthState, Backed, RowWritten

\* The invocation of a request that has just read the row of s.
LEMMA ReadMoves ==
  ASSUME TypeOK, NEW i \in Invocations, NEW s \in Sessions, NEW step \in Steps,
         invocation' = [invocation EXCEPT ![i] = [Idle EXCEPT !.at = step, !.sid = s]],
         step \in {"session:person", "authorization:code", "abort:update"},
         step = "authorization:code" => LetterStarted(s)'
  PROVE  invocation' \in [Invocations -> Invocation] /\ NewInvocationsBacked
<1>1. PICK v \in Invocation : v = [Idle EXCEPT !.at = step, !.sid = s]
  BY IdleBacked DEF Invocation
<1>2. InvocationBacked(v)'
  BY <1>1 DEF InvocationBacked, InvocationTyped, CompletionSteps, Idle
<1> QED BY <1>1, <1>2, InvocationMoves

\* The last steps of a document selection carry nothing that needs backing.
LEMMA GoesOn ==
  ASSUME Backed, NEW i \in Invocations, invocation[i].at # "idle",
         NEW step \in {"docSelect:ttl", "docSelect:document"}, Goto(i, step)
  PROVE  invocation' \in [Invocations -> Invocation] /\ NewInvocationsBacked
<1>1. PICK v \in Invocation : /\ v = [invocation[i] EXCEPT !.at = step]
                             /\ invocation' = [invocation EXCEPT ![i] = v]
  BY GotoMoves DEF Backed, Steps
<1>2. v.at = step /\ v.sid = invocation[i].sid
  BY <1>1 DEF Backed, TypeOK, Invocation
<1>3. v.sid \in Sessions
  BY <1>2 DEF Backed, InvocationBacked, InvocationTyped
<1>4. InvocationBacked(v)'
  BY <1>2, <1>3 DEF InvocationBacked, InvocationTyped, CompletionSteps
<1> QED BY <1>1, <1>4, InvocationMoves DEF Backed

-----------------------------------------------------------------------------
(* The steps of JourneyApi.                                                *)

LEMMA SessionCreateBacks ==
  ASSUME Backed, NEW i \in Invocations, NEW s \in Sessions, SessionCreate(i, s)
  PROVE  BacksWhatItAdds
<1> USE DEF SessionCreate
<1>1. Grows
  BY DEF Grows, clientVars, yotiVars, sinks
<1>2. PICK row \in Row : row = [NoRow EXCEPT !.authSessionState = "F2F_SESSION_CREATED",
                                           !.createdDate = now,
                                           !.expiryDate = now + AuthSessionTtl]
  <2>1. now \in Nat /\ now + AuthSessionTtl \in Nat
    BY TtlAssumption DEF Backed, TypeOK
  <2> QED BY <2>1 DEF NoRow, Row, AuthSessionState
<1>3. RowBacked(s, row)'
  BY <1>2 DEF RowBacked, InstructedStates, NoRow
<1>4. /\ session' \in [Sessions -> Row]
      /\ stale' \in [Sessions -> SUBSET Row]
      /\ NewRowsBacked
  BY <1>2, <1>3, PutBacks DEF createAuthSession, Backed
<1>5. invocation' \in [Invocations -> Invocation] /\ NewInvocationsBacked
  BY ReadMoves DEF Backed, Steps
<1>6. TypeOK'
  BY <1>4, <1>5 DEF Backed, TypeOK, clientVars, yotiVars, sinks
<1> QED BY <1>1, <1>4, <1>5, <1>6
        DEF BacksWhatItAdds, NewMessagesBacked, NewCodesBacked, sinks

LEMMA SessionSavePersonBacks ==
  ASSUME Backed, NEW i \in Invocations, SessionSavePerson(i)
  PROVE  BacksWhatItAdds
<1> DEFINE s == invocation[i].sid
<1> USE DEF SessionSavePerson
<1>1. s \in Sessions
  BY DEF At, Backed, InvocationBacked, InvocationTyped
<1>2. /\ audit \subseteq audit'
      /\ audit' \subseteq [event : AuditEvents, sid : Sessions]
      /\ faults' \in Nat
  BY <1>1, AuditTyped DEF Backed, AuditEvents
<1>3. invocation' \in [Invocations -> Invocation] /\ NewInvocationsBacked
  BY InvocationReturns DEF Backed
<1>4. RestTypeOK'
  BY <1>1, <1>2 DEF Backed, TypeOK, RestTypeOK, PersonRow, yotiVars
<1>5. /\ session' \in [Sessions -> Row]
      /\ stale' \in [Sessions -> SUBSET Row]
      /\ NewRowsBacked
  BY DEF Backed, TypeOK, NewRowsBacked, Visible
<1> QED BY <1>2, <1>3, <1>4, <1>5, WritingStep DEF yotiVars

LEMMA DocSelectReadBacks ==
  ASSUME Backed, NEW i \in Invocations, NEW s \in Sessions,
         NEW pref \in PdfPreferences, DocSelectRead(i, s, pref)
  PROVE  BacksWhatItAdds
<1> USE DEF DocSelectRead
<1>1. PICK row \in Visible(s) :
        invocation' = [invocation EXCEPT ![i] =
                         [Idle EXCEPT !.at = "docSelect:preference", !.sid = s,
                                      !.row = row, !.pdfPreference = pref]]
  OBVIOUS
<1>2. row \in Row
  BY DEF Backed, TypeOK, Visible
<1>3. PICK v \in Invocation :
        v = [Idle EXCEPT !.at = "docSelect:preference", !.sid = s,
                         !.row = row, !.pdfPreference = pref]
  BY <1>2 DEF Idle, Invocation, Steps
<1>4. InvocationBacked(v)'
  BY <1>3 DEF InvocationBacked, InvocationTyped, CompletionSteps, Idle
<1>5. invocation' \in [Invocations -> Invocation] /\ NewInvocationsBacked
  BY <1>1, <1>3, <1>4, InvocationMoves DEF Backed
<1>6. RestTypeOK'
  BY DEF Backed, TypeOK, RestTypeOK, tables, clientVars, yotiVars
<1> QED BY <1>5, <1>6, QuietStep DEF tables, clientVars, yotiVars

LEMMA DocSelectPreferenceBacks ==
  ASSUME Backed, NEW i \in Invocations, DocSelectPreference(i)
  PROVE  BacksWhatItAdds
<1> DEFINE s == invocation[i].sid
<1> USE DEF DocSelectPreference
<1>1. /\ s \in Sessions
      /\ invocation[i].pdfPreference \in PdfPreferences
      /\ invocation[i] \in Invocation
  BY DEF At, Backed, TypeOK, InvocationBacked, InvocationTyped
<1>2. invocation' \in [Invocations -> Invocation] /\ NewInvocationsBacked
  <2>1. CASE Return(i)
    BY <2>1, InvocationReturns DEF Backed
  <2>2. CASE invocation' = [invocation EXCEPT ![i].at = "docSelect:yoti", ![i].row = NoRow]
    <3>1. PICK v \in Invocation :
            v = [invocation[i] EXCEPT !.at = "docSelect:yoti", !.row = NoRow]
      BY <1>1, MovedTyped, NoRowTyped DEF Steps
    <3>2. InvocationBacked(v)'
      BY <1>1, <3>1 DEF InvocationBacked, InvocationTyped, CompletionSteps, Invocation
    <3>3. invocation' = [invocation EXCEPT ![i] = v]
      BY <2>2, <3>1 DEF Backed, TypeOK
    <3> QED BY <3>1, <3>2, <3>3, InvocationMoves DEF Backed
  <2> QED BY <2>1, <2>2
<1>3. RestTypeOK'
  BY <1>1 DEF Backed, TypeOK, RestTypeOK, PersonRow, clientVars, yotiVars
<1> QED BY <1>2, <1>3, QuietStep DEF clientVars, yotiVars

LEMMA DocSelectYotiBacks ==
  ASSUME Backed, NEW i \in Invocations, NEW y \in YotiSessions, DocSelectYoti(i, y)
  PROVE  BacksWhatItAdds
<1>1. /\ invocation[i].sid \in Sessions
      /\ invocation[i].pdfPreference \in PdfPreferences
      /\ invocation[i] \in Invocation
      /\ invocation[i].at = "docSelect:yoti"
  BY DEF DocSelectYoti, At, Backed, TypeOK, InvocationBacked, InvocationTyped
<1>2. /\ yoti' \in [YotiSessions -> [owner : Sessions \cup {None}, createdDate : Nat,
                                     progress : YotiProgress]]
      /\ yoti'[y].owner = invocation[i].sid
      /\ \A z \in YotiSessions \ {y} : yoti'[z] = yoti[z]
  BY <1>1 DEF DocSelectYoti, Backed, TypeOK, YotiProgress
<1>3. Grows
  BY <1>2 DEF DocSelectYoti, Grows, clientVars, sinks
<1>4. invocation' \in [Invocations -> Invocation] /\ NewInvocationsBacked
  <2>1. CASE Return(i)
    BY <2>1, InvocationReturns DEF Backed
  <2>2. CASE invocation' = [invocation EXCEPT ![i].at = "docSelect:letter",
                                              ![i].yotiSessionId = y]
    <3>1. PICK v \in Invocation :
            v = [invocation[i] EXCEPT !.at = "docSelect:letter", !.yotiSessionId = y]
      BY <1>1 DEF Invocation, Steps
    <3>2. InvocationBacked(v)'
      BY <1>1, <1>2, <3>1 DEF InvocationBacked, InvocationTyped, CompletionSteps, Invocation
    <3>3. invocation' = [invocation EXCEPT ![i] = v]
      BY <2>2, <3>1 DEF Backed, TypeOK
    <3> QED BY <3>1, <3>2, <3>3, InvocationMoves DEF Backed
  <2> QED BY <2>1, <2>2 DEF DocSelectYoti
<1>5. faults' \in Nat
  BY DEF DocSelectYoti, Backed, TypeOK, Fault
<1>6. TypeOK'
  BY <1>2, <1>4, <1>5 DEF DocSelectYoti, Backed, TypeOK, tables, clientVars, sinks
<1> QED BY <1>3, <1>4, <1>6
        DEF DocSelectYoti, BacksWhatItAdds, NewRowsBacked, NewMessagesBacked,
            NewCodesBacked, Visible, tables, clientVars, sinks

LEMMA DocSelectLetterBacks ==
  ASSUME Backed, NEW i \in Invocations, DocSelectLetter(i)
  PROVE  BacksWhatItAdds
<1>1. /\ invocation[i].sid \in Sessions
      /\ invocation[i].yotiSessionId \in YotiSessions
      /\ yoti[invocation[i].yotiSessionId].owner = invocation[i].sid
      /\ invocation[i].pdfPreference \in PdfPreferences
      /\ invocation[i] \in Invocation
      /\ invocation[i].at = "docSelect:letter"
  BY DEF DocSelectLetter, At, Backed, TypeOK, InvocationBacked, InvocationTyped
<1>2. PICK letter \in Letter :
        /\ letter = [sid |-> invocation[i].sid,
                     yotiSessionId |-> invocation[i].yotiSessionId,
                     pdfPreference |-> invocation[i].pdfPreference]
        /\ letters' = letters \cup {letter}
  BY <1>1 DEF DocSelectLetter, Letter
<1>3. Grows
  BY DEF DocSelectLetter, Grows, clientVars, sinks
<1>4. PICK v \in Invocation : /\ v = [invocation[i] EXCEPT !.at = "docSelect:yotiId"]
                             /\ invocation' = [invocation EXCEPT ![i] = v]
  BY GotoMoves DEF DocSelectLetter, Backed, Steps
<1>5. v.at = "docSelect:yotiId" /\ v.sid = letter.sid /\ v.yotiSessionId = letter.yotiSessionId
  BY <1>1, <1>2, <1>4 DEF Invocation
<1>6. LetterStarted(v.sid)' /\ HasLetter(v.yotiSessionId)'
  BY <1>1, <1>2, <1>5 DEF LetterStarted, HasLetter, DocSelectLetter
<1>7. InvocationBacked(v)'
  BY <1>1, <1>2, <1>5, <1>6
     DEF InvocationBacked, InvocationTyped, CompletionSteps, DocSelectLetter
<1>8. invocation' \in [Invocations -> Invocation] /\ NewInvocationsBacked
  BY <1>4, <1>7, InvocationMoves DEF Backed
<1>9. TypeOK'
  BY <1>2, <1>8 DEF DocSelectLetter, Backed, TypeOK, tables, clientVars, sinks
<1> QED BY <1>3, <1>8, <1>9
        DEF DocSelectLetter, BacksWhatItAdds, NewRowsBacked, NewMessagesBacked,
            NewCodesBacked, Visible, tables, clientVars, sinks

LEMMA DocSelectYotiIdBacks ==
  ASSUME Backed, NEW i \in Invocations, DocSelectYotiId(i)
  PROVE  BacksWhatItAdds
<1>1. PICK s \in Sessions, y \in YotiSessions :
        /\ s = invocation[i].sid /\ y = invocation[i].yotiSessionId
        /\ yoti[y].owner = s /\ LetterStarted(s) /\ HasLetter(y)
  BY DEF DocSelectYotiId, At, Backed, InvocationBacked, InvocationTyped
<1>2. Grows
  BY DEF DocSelectYotiId, Grows, clientVars, yotiVars, sinks
<1>3. PICK old \in Row : old = session[s] /\ RowBacked(s, old)'
  BY <1>2, LastRowBacked
<1>4. PICK row \in Row : row = [old EXCEPT !.yotiSessionId = y,
                               !.authSessionState = "F2F_YOTI_SESSION_CREATED"]
  BY DEF Row, AuthSessionState
<1>5. LetterStarted(s)' /\ HasLetter(y)' /\ yoti'[y].owner = s
  BY <1>1 DEF LetterStarted, HasLetter, DocSelectYotiId, yotiVars
<1>6. RowBacked(s, row)'
  BY <1>3, <1>4, <1>5 DEF RowBacked, Row
<1>7. RowWritten
  BY <1>1, <1>3, <1>4, <1>6, PutBacks
     DEF DocSelectYotiId, updateSessionWithYotiIdAndStatus, Backed, RowWritten
<1>8. invocation' \in [Invocations -> Invocation] /\ NewInvocationsBacked
  BY GoesOn DEF DocSelectYotiId, At
<1>9. RestTypeOK'
  BY DEF DocSelectYotiId, Backed, TypeOK, RestTypeOK, clientVars, yotiVars
<1> QED BY <1>7, <1>8, <1>9, WritingStep
        DEF DocSelectYotiId, Backed, TypeOK, RowWritten, clientVars, yotiVars, sinks

LEMMA DocSelectTtlBacks ==
  ASSUME Backed, NEW i \in Invocations, DocSelectTtl(i)
  PROVE  BacksWhatItAdds
<1>1. PICK s \in Sessions : s = invocation[i].sid
  BY DEF DocSelectTtl, At, Backed, InvocationBacked, InvocationTyped
<1>2. Grows
  BY DEF DocSelectTtl, Grows, clientVars, yotiVars, sinks
<1>3. PICK old \in Row : old = session[s] /\ RowBacked(s, old)'
  BY <1>2, LastRowBacked
<1>4. PICK row \in Row : row = [old EXCEPT !.expiryDate = now + AuthSessionTtl]
  <2>1. now + AuthSessionTtl \in Nat
    BY TtlAssumption DEF Backed, TypeOK
  <2> QED BY <2>1 DEF Row
<1>5. RowBacked(s, row)'
  BY <1>3, <1>4 DEF RowBacked, Row
<1>6. RowWritten
  BY <1>1, <1>3, <1>4, <1>5, PutBacks
     DEF DocSelectTtl, updateSessionTtl, Backed, RowWritten
<1>7. invocation' \in [Invocations -> Invocation] /\ NewInvocationsBacked
  BY GoesOn DEF DocSelectTtl, At
<1>8. RestTypeOK'
  BY DEF DocSelectTtl, Backed, TypeOK, RestTypeOK, clientVars, yotiVars
<1> QED BY <1>6, <1>7, <1>8, WritingStep
        DEF DocSelectTtl, Backed, TypeOK, RowWritten, clientVars, yotiVars, sinks

LEMMA DocSelectDocumentBacks ==
  ASSUME Backed, NEW i \in Invocations, DocSelectDocument(i)
  PROVE  BacksWhatItAdds
<1>1. PICK s \in Sessions : s = invocation[i].sid
  BY DEF DocSelectDocument, At, Backed, InvocationBacked, InvocationTyped
<1>2. /\ audit \subseteq audit'
      /\ audit' \subseteq [event : AuditEvents, sid : Sessions]
      /\ faults' \in Nat
  BY <1>1, AuditTyped DEF DocSelectDocument, Backed, AuditEvents
<1>3. Grows
  BY <1>2 DEF DocSelectDocument, Grows, clientVars, yotiVars
<1>4. PICK old \in Row : old = session[s] /\ RowBacked(s, old)'
  BY <1>3, LastRowBacked
<1>5. PICK row \in Row : row = [old EXCEPT !.documentUsed = TRUE]
  BY DEF Row
<1>6. RowBacked(s, row)'
  BY <1>4, <1>5 DEF RowBacked, Row
<1>7. RowWritten
  BY <1>1, <1>4, <1>5, <1>6, PutBacks
     DEF DocSelectDocument, addUsersSelectedDocument, Backed, RowWritten
<1>8. invocation' \in [Invocations -> Invocation] /\ NewInvocationsBacked
  BY InvocationReturns DEF DocSelectDocument, Backed
<1>9. RestTypeOK'
  BY <1>2 DEF DocSelectDocument, Backed, TypeOK, RestTypeOK, clientVars, yotiVars
<1> QED BY <1>2, <1>7, <1>8, <1>9, WritingStep
        DEF DocSelectDocument, RowWritten, clientVars, yotiVars

LEMMA AuthorizationReadBacks ==
  ASSUME Backed, NEW i \in Invocations, NEW s \in Sessions, AuthorizationRead(i, s)
  PROVE  BacksWhatItAdds
<1>1. PICK row \in Visible(s) : row.authSessionState = "F2F_YOTI_SESSION_CREATED"
  BY DEF AuthorizationRead
<1>2. LetterStarted(s)'
  BY <1>1 DEF Backed, RowBacked, InstructedStates, LetterStarted, AuthorizationRead, yotiVars
<1>3. invocation' \in [Invocations -> Invocation] /\ NewInvocationsBacked
  BY <1>2, ReadMoves DEF AuthorizationRead, Backed, Steps
<1>4. RestTypeOK'
  BY DEF AuthorizationRead, Backed, TypeOK, RestTypeOK, tables, clientVars, yotiVars
<1> QED BY <1>3, <1>4, QuietStep DEF AuthorizationRead, tables, clientVars, yotiVars

LEMMA AuthorizationCodeBacks ==
  ASSUME Backed, NEW i \in Invocations, NEW c \in Codes, AuthorizationCode(i, c)
  PROVE  BacksWhatItAdds
<1>1. PICK s \in Sessions : s = invocation[i].sid /\ LetterStarted(s)
  BY DEF AuthorizationCode, At, Backed, InvocationBacked, InvocationTyped
<1>2. /\ audit \subseteq audit'
      /\ audit' \subseteq [event : AuditEvents, sid : Sessions]
      /\ faults' \in Nat
  BY <1>1, AuditTyped DEF AuthorizationCode, Backed, AuditEvents
<1>3. /\ codes' \in [Codes -> Sessions \cup {None}]
      /\ codes[c] = None /\ codes'[c] = s
      /\ \A d \in Codes \ {c} : codes'[d] = codes[d]
  BY <1>1 DEF AuthorizationCode, Backed, TypeOK
<1>4. Grows
  BY <1>2, <1>3 DEF AuthorizationCode, Grows, yotiVars
<1>5. PICK old \in Row : old = session[s] /\ RowBacked(s, old)'
  BY <1>4, LastRowBacked
<1>6. PICK row \in Row : row = [old EXCEPT !.authorizationCode = c,
                               !.authSessionState = "F2F_AUTH_CODE_ISSUED"]
  BY DEF Row, AuthSessionState
<1>7. LetterStarted(s)'
  BY <1>1 DEF LetterStarted, AuthorizationCode, yotiVars
<1>8. RowBacked(s, row)'
  BY <1>3, <1>5, <1>6, <1>7 DEF RowBacked, Row
<1>9. RowWritten
  BY <1>1, <1>5, <1>6, <1>8, PutBacks
     DEF AuthorizationCode, setAuthorizationCode, Backed, RowWritten
<1>10. invocation' \in [Invocations -> Invocation] /\ NewInvocationsBacked
  BY InvocationReturns DEF AuthorizationCode, Backed
<1>11. NewCodesBacked
  BY <1>3, <1>7 DEF NewCodesBacked, CodeBacked
<1>12. TypeOK'
  BY <1>2, <1>3, <1>9, <1>10 DEF AuthorizationCode, Backed, TypeOK, RowWritten, yotiVars
<1> QED BY <1>4, <1>9, <1>10, <1>11, <1>12
        DEF AuthorizationCode, BacksWhatItAdds, RowWritten, NewMessagesBacked

LEMMA TokenReadBacks ==
  ASSUME Backed, NEW i \in Invocations, NEW c \in Codes, TokenRead(i, c)
  PROVE  BacksWhatItAdds
<1>1. PICK s \in Sessions :
        /\ \E row \in Visible(s) : row.authorizationCode = c
        /\ invocation' = [invocation EXCEPT ![i] =
                            [Idle EXCEPT !.at = "token:update", !.sid = s, !.code = c]]
  BY DEF TokenRead, SessionByAuthorizationCode
<1>2. codes[c] = s
  BY <1>1, NoneAssumption DEF Backed, RowBacked
<1>3. PICK v \in Invocation : v = [Idle EXCEPT !.at = "token:update", !.sid = s, !.code = c]
  BY IdleBacked DEF Invocation, Steps
<1>4. InvocationBacked(v)'
  BY <1>2, <1>3
     DEF InvocationBacked, InvocationTyped, CompletionSteps, Idle, TokenRead, clientVars
<1>5. invocation' \in [Invocations -> Invocation] /\ NewInvocationsBacked
  BY <1>1, <1>3, <1>4, InvocationMoves DEF Backed
<1>6. RestTypeOK'
  BY DEF TokenRead, Backed, TypeOK, RestTypeOK, tables, clientVars, yotiVars
<1> QED BY <1>5, <1>6, QuietStep DEF TokenRead, tables, clientVars, yotiVars

LEMMA TokenUpdateBacks ==
  ASSUME Backed, NEW i \in Invocations, TokenUpdate(i)
  PROVE  BacksWhatItAdds
<1>1. PICK s \in Sessions, c \in Codes :
        s = invocation[i].sid /\ c = invocation[i].code /\ codes[c] = s
  BY DEF TokenUpdate, At, Backed, InvocationBacked, InvocationTyped
<1>2. Grows
  BY DEF TokenUpdate, Grows, yotiVars, sinks
<1>3. LetterStarted(s)'
  <2>1. LetterStarted(s)
    BY <1>1, NoneAssumption DEF Backed, CodeBacked
  <2> QED BY <1>1, <1>2, <2>1, LetterStays DEF Backed
<1>4. PICK old \in Row : old = session[s] /\ RowBacked(s, old)'
  BY <1>2, LastRowBacked
<1>5. PICK row \in Row : row = [old EXCEPT !.authorizationCode = None,
                               !.authSessionState = "F2F_ACCESS_TOKEN_ISSUED"]
  BY DEF Row, AuthSessionState
<1>6. RowBacked(s, row)'
  BY <1>4, <1>5, <1>3 DEF RowBacked, Row
<1>7. RowWritten
  BY <1>1, <1>4, <1>5, <1>6, PutBacks
     DEF TokenUpdate, updateSessionWithAccessTokenDetails, Backed, RowWritten
<1>8. invocation' \in [Invocations -> Invocation] /\ NewInvocationsBacked
  BY InvocationReturns DEF TokenUpdate, Backed
<1>9. RestTypeOK'
  BY <1>1 DEF TokenUpdate, Backed, TypeOK, RestTypeOK, yotiVars
<1> QED BY <1>7, <1>8, <1>9, WritingStep
        DEF TokenUpdate, Backed, TypeOK, RowWritten, yotiVars, sinks

LEMMA AbortReadBacks ==
  ASSUME Backed, NEW i \in Invocations, NEW s \in Sessions, AbortRead(i, s)
  PROVE  BacksWhatItAdds
<1>1. invocation' \in [Invocations -> Invocation] /\ NewInvocationsBacked
  BY ReadMoves DEF AbortRead, Backed, Steps
<1>2. RestTypeOK'
  BY DEF AbortRead, Backed, TypeOK, RestTypeOK, tables, clientVars, yotiVars
<1> QED BY <1>1, <1>2, QuietStep DEF AbortRead, tables, clientVars, yotiVars

LEMMA AbortUpdateBacks ==
  ASSUME Backed, NEW i \in Invocations, AbortUpdate(i)
  PROVE  BacksWhatItAdds
<1>1. PICK s \in Sessions : s = invocation[i].sid
  BY DEF AbortUpdate, At, Backed, InvocationBacked, InvocationTyped
<1>2. /\ audit \subseteq audit'
      /\ audit' \subseteq [event : AuditEvents, sid : Sessions]
      /\ faults' \in Nat
  BY <1>1, AuditTyped DEF AbortUpdate, Backed, AuditEvents
<1>3. Grows
  BY <1>2 DEF AbortUpdate, Grows, clientVars, yotiVars
<1>4. RowWritten
  BY <1>1, <1>3, StateWritten DEF AbortUpdate, AuthSessionState, InstructedStates
<1>5. invocation' \in [Invocations -> Invocation] /\ NewInvocationsBacked
  BY InvocationReturns DEF AbortUpdate, Backed
<1>6. RestTypeOK'
  BY <1>2 DEF AbortUpdate, Backed, TypeOK, RestTypeOK, clientVars, yotiVars
<1> QED BY <1>2, <1>4, <1>5, <1>6, WritingStep
        DEF AbortUpdate, RowWritten, clientVars, yotiVars

-----------------------------------------------------------------------------
(* The steps of YotiCallbacks.                                             *)

LEMMA YotiReportsBacks ==
  ASSUME Backed, NEW y \in YotiSessions, NEW report \in Reports, YotiReports(y, report)
  PROVE  BacksWhatItAdds
<1>1. /\ yoti' \in [YotiSessions -> [owner : Sessions \cup {None}, createdDate : Nat,
                                     progress : YotiProgress]]
      /\ \A z \in YotiSessions : yoti'[z].owner = yoti[z].owner
  <2>1. report.to \in YotiProgress
    BY DEF Reports, YotiProgress
  <2>2. yoti \in [YotiSessions -> [owner : Sessions \cup {None}, createdDate : Nat,
                                   progress : YotiProgress]]
    BY DEF Backed, TypeOK
  <2>3. yoti' = [yoti EXCEPT ![y].progress = report.to]
    BY DEF YotiReports
  <2> QED BY <2>1, <2>2, <2>3
<1>2. callbacks' \in [YotiSessions \X Topics -> 0 .. MaxReceiveCount]
  <2>1. MaxReceiveCount \in 0 .. MaxReceiveCount
    BY TtlAssumption
  <2> QED BY <2>1 DEF YotiReports, Backed, TypeOK
<1>3. Grows
  BY <1>1 DEF YotiReports, Grows, clientVars, sinks
<1>4. TypeOK'
  BY <1>1, <1>2 DEF YotiReports, Backed, TypeOK, tables, clientVars, sinks
<1> QED BY <1>3, <1>4
        DEF YotiReports, BacksWhatItAdds, NewRowsBacked, NewInvocationsBacked,
            NewMessagesBacked, NewCodesBacked, Visible, tables, clientVars, sinks

LEMMA ReceiveTyped ==
  ASSUME TypeOK, NEW m \in YotiSessions \X Topics, Receive(m)
  PROVE  /\ callbacks' \in [YotiSessions \X Topics -> 0 .. MaxReceiveCount]
         /\ faults' \in Nat
<1>1. callbacks[m] \in 0 .. MaxReceiveCount
  BY DEF TypeOK
<1>2. 0 \in 0 .. MaxReceiveCount /\ callbacks[m] - 1 \in 0 .. MaxReceiveCount
  BY <1>1, TtlAssumption DEF Receive
<1>3. faults' \in Nat
  BY DEF Receive, TypeOK, Fault
<1> QED BY <1>2, <1>3 DEF Receive, TypeOK

LEMMA CallbackStartsBacks ==
  ASSUME Backed, NEW i \in Invocations, NEW y \in YotiSessions, NEW topic \in Topics,
         CallbackStarts(i, y, topic)
  PROVE  BacksWhatItAdds
<1>1. PICK s \in Sessions : \E row \in Visible(s) :
        /\ SessionByYotiId(y, s, YotiIndexItem(row))
        /\ invocation' = [invocation EXCEPT ![i] =
                            [Idle EXCEPT !.at = FirstStep(topic), !.sid = s,
                                         !.row = YotiIndexItem(row),
                                         !.yotiSessionId = y]]
  BY DEF CallbackStarts
<1>2. PICK item \in Row :
        /\ SessionByYotiId(y, s, item)
        /\ invocation' = [invocation EXCEPT ![i] =
                            [Idle EXCEPT !.at = FirstStep(topic), !.sid = s,
                                         !.row = item, !.yotiSessionId = y]]
  <2>1. ASSUME NEW row \in Visible(s) PROVE YotiIndexItem(row) \in Row
    <3>1. row \in Row
      BY DEF Backed, TypeOK, Visible
    <3> QED BY <3>1 DEF YotiIndexItem, Row, NoRow
  <2> QED BY <1>1, <2>1
<1>3. PICK old \in Visible(s) : old.yotiSessionId = y /\ item = YotiIndexItem(old)
  BY <1>2 DEF SessionByYotiId
<1>4. old \in Row /\ RowBacked(s, old) /\ item.authSessionState = old.authSessionState
  BY <1>3 DEF Backed, TypeOK, Visible, YotiIndexItem, NoRow
<1>5. /\ yoti'[y].owner = s
      /\ item.authSessionState = "F2F_YOTI_SESSION_COMPLETE"
           => Audited("F2F_DOCUMENT_UPLOADED", s)'
  BY <1>3, <1>4, NoneAssumption DEF RowBacked, CallbackStarts, Audited, sinks
<1>6. FirstStep(topic) \in {"visit:update", "thankYou:audit", "completion:yoti"}
  BY DEF FirstStep, Topics
<1>7. PICK v \in Invocation :
        v = [Idle EXCEPT !.at = FirstStep(topic), !.sid = s, !.row = item,
                         !.yotiSessionId = y]
  BY <1>6, IdleBacked DEF Invocation, Steps
<1>8. /\ v.at \in {"visit:update", "thankYou:audit", "completion:yoti"}
      /\ v.sid = s /\ v.row = item /\ v.yotiSessionId = y
  BY <1>6, <1>7 DEF Idle
<1>9. InvocationBacked(v)'
  BY <1>5, <1>8 DEF InvocationBacked, InvocationTyped, CompletionSteps
<1>10. invocation' \in [Invocations -> Invocation] /\ NewInvocationsBacked
  BY <1>2, <1>7, <1>9, InvocationMoves DEF Backed
<1>11. RestTypeOK'
  BY ReceiveTyped DEF CallbackStarts, Backed, TypeOK, RestTypeOK, tables, clientVars
<1> QED BY <1>10, <1>11, QuietStep DEF CallbackStarts, tables, clientVars

LEMMA CallbackLostBacks ==
  ASSUME Backed, NEW y \in YotiSessions, NEW topic \in Topics,
         CallbackLost(y, topic) \/ StartExecutionFails(y, topic)
  PROVE  BacksWhatItAdds
<1>1. Receive(<<y, topic>>)
  BY DEF CallbackLost, StartExecutionFails, Receive
<1>2. RestTypeOK'
  BY <1>1, ReceiveTyped
     DEF CallbackLost, StartExecutionFails, Backed, TypeOK, RestTypeOK, tables, clientVars
<1>3. invocation' \in [Invocations -> Invocation] /\ NewInvocationsBacked
  BY DEF CallbackLost, StartExecutionFails, Backed, TypeOK, NewInvocationsBacked
<1> QED BY <1>2, <1>3, QuietStep DEF CallbackLost, StartExecutionFails, tables, clientVars

LEMMA FirstBranchVisitBacks ==
  ASSUME Backed, NEW i \in Invocations, FirstBranchVisit(i)
  PROVE  BacksWhatItAdds
<1>1. PICK s \in Sessions : s = invocation[i].sid
  BY DEF FirstBranchVisit, At, Backed, InvocationBacked, InvocationTyped
<1>2. Grows
  BY DEF FirstBranchVisit, Grows, clientVars, yotiVars, sinks
<1>3. RowWritten
  BY <1>1, <1>2, StateWritten DEF FirstBranchVisit, AuthSessionState, InstructedStates
<1>4. invocation' \in [Invocations -> Invocation] /\ NewInvocationsBacked
  BY InvocationReturns DEF FirstBranchVisit, Backed
<1>5. RestTypeOK'
  BY DEF FirstBranchVisit, Backed, TypeOK, RestTypeOK, clientVars, yotiVars
<1> QED BY <1>3, <1>4, <1>5, WritingStep
        DEF FirstBranchVisit, Backed, TypeOK, RowWritten, clientVars, yotiVars, sinks

LEMMA ThankYouAuditBacks ==
  ASSUME Backed, NEW i \in Invocations, ThankYouAudit(i)
  PROVE  BacksWhatItAdds
<1>1. PICK s \in Sessions : s = invocation[i].sid
  BY DEF ThankYouAudit, At, Backed, InvocationBacked, InvocationTyped
<1>2. PICK v \in Invocation : /\ v = [invocation[i] EXCEPT !.at = "thankYou:update"]
                             /\ invocation' = [invocation EXCEPT ![i] = v]
  BY GotoMoves DEF ThankYouAudit, Backed, Steps
<1>3. v.at = "thankYou:update" /\ v.sid = s
  BY <1>1, <1>2 DEF Backed, TypeOK, Invocation
<1>4. /\ Audited("F2F_DOCUMENT_UPLOADED", s)'
      /\ audit \subseteq audit'
      /\ audit' \subseteq [event : AuditEvents, sid : Sessions]
  BY <1>1 DEF ThankYouAudit, SendToTxma, Audited, Backed, TypeOK, AuditEvents
<1>5. InvocationBacked(v)'
  BY <1>3, <1>4 DEF InvocationBacked, InvocationTyped, CompletionSteps
<1>6. invocation' \in [Invocations -> Invocation] /\ NewInvocationsBacked
  BY <1>2, <1>5, InvocationMoves DEF Backed
<1>7. RestTypeOK'
  BY DEF ThankYouAudit, Backed, TypeOK, RestTypeOK, tables, clientVars, yotiVars
<1>8. RowWritten
  BY DEF ThankYouAudit, Backed, TypeOK, RowWritten, NewRowsBacked, Visible, tables
<1> QED BY <1>4, <1>6, <1>7, <1>8, WritingStep
        DEF ThankYouAudit, RowWritten, clientVars, yotiVars

LEMMA ThankYouUpdateBacks ==
  ASSUME Backed, NEW i \in Invocations, ThankYouUpdate(i)
  PROVE  BacksWhatItAdds
<1>1. PICK s \in Sessions : s = invocation[i].sid /\ Audited("F2F_DOCUMENT_UPLOADED", s)
  BY DEF ThankYouUpdate, At, Backed, InvocationBacked, InvocationTyped
<1>2. Grows /\ Audited("F2F_DOCUMENT_UPLOADED", s)'
  BY <1>1 DEF ThankYouUpdate, Grows, Audited, clientVars, yotiVars, sinks
<1>3. RowWritten
  BY <1>1, <1>2, StateWritten DEF ThankYouUpdate, AuthSessionState, InstructedStates
<1>4. invocation' \in [Invocations -> Invocation] /\ NewInvocationsBacked
  BY InvocationReturns DEF ThankYouUpdate, Backed
<1>5. RestTypeOK'
  BY DEF ThankYouUpdate, Backed, TypeOK, RestTypeOK, clientVars, yotiVars
<1> QED BY <1>3, <1>4, <1>5, WritingStep
        DEF ThankYouUpdate, Backed, TypeOK, RowWritten, clientVars, yotiVars, sinks

\* A message that is no credential needs no backing.
LEMMA MessageAdded ==
  ASSUME Backed, NEW s \in Sessions, NEW y \in YotiSessions \cup {None},
         NEW kind \in {"credential", "error", "expired"}, sendToIPVCore(kind, s, y),
         kind = "credential" => /\ y \in YotiSessions /\ yoti'[y].owner = s
                                /\ Audited("F2F_DOCUMENT_UPLOADED", s)'
  PROVE  /\ toCore \subseteq toCore'
         /\ toCore' \subseteq CoreMessage
         /\ NewMessagesBacked
<1>1. toCore' = toCore \cup {[kind |-> kind, sid |-> s, yotiSessionId |-> y]}
  BY DEF sendToIPVCore
<1>2. [kind |-> kind, sid |-> s, yotiSessionId |-> y] \in CoreMessage
  BY DEF CoreMessage
<1>3. ASSUME NEW m, m = [kind |-> kind, sid |-> s, yotiSessionId |-> y]
      PROVE  MessageBacked(m)'
  BY <1>3 DEF MessageBacked
<1> QED BY <1>1, <1>2, <1>3 DEF Backed, TypeOK, NewMessagesBacked

\* A step that adds messages and moves an invocation.
LEMMA SendingStep ==
  ASSUME Backed, UNCHANGED <<now, tables, clientVars, yoti, letters, audit>>,
         callbacks' \in [YotiSessions \X Topics -> 0 .. MaxReceiveCount],
         expiry' \in [at : {"idle", "notify", "mark"}, todo : SUBSET Sessions,
                      batch : SUBSET Sessions],
         faults' \in Nat,
         toCore \subseteq toCore', toCore' \subseteq CoreMessage, NewMessagesBacked,
         invocation' \in [Invocations -> Invocation], NewInvocationsBacked
  PROVE  BacksWhatItAdds
<1>1. TypeOK'
  BY DEF Backed, TypeOK, tables, clientVars
<1>2. Grows /\ NewRowsBacked /\ NewCodesBacked
  BY DEF Grows, NewRowsBacked, NewCodesBacked, Visible, tables, clientVars
<1> QED BY <1>1, <1>2 DEF BacksWhatItAdds

LEMMA CompletionRefusedBacks ==
  ASSUME Backed, NEW i \in Invocations,
         invocation[i].at \in {"completion:yoti", "completion:credential"},
         CompletionRefused(i),
         UNCHANGED <<now, tables, clientVars, yotiVars, expiry, audit>>
  PROVE  BacksWhatItAdds
<1>1. PICK s \in Sessions, y \in YotiSessions :
        s = invocation[i].sid /\ y = invocation[i].yotiSessionId
  BY DEF Backed, InvocationBacked, InvocationTyped, CompletionSteps
<1>2. invocation' \in [Invocations -> Invocation] /\ NewInvocationsBacked
  BY InvocationReturns DEF CompletionRefused, Backed
<1>3. faults' \in Nat
  BY DEF CompletionRefused, Fault, Backed, TypeOK
<1>4. /\ toCore \subseteq toCore'
      /\ toCore' \subseteq CoreMessage
      /\ NewMessagesBacked
  <2>1. CASE sendToIPVCore("error", invocation[i].sid, invocation[i].yotiSessionId)
    BY <1>1, <2>1, MessageAdded
  <2>2. CASE UNCHANGED toCore
    BY <2>2 DEF Backed, TypeOK, NewMessagesBacked
  <2> QED BY <2>1, <2>2 DEF CompletionRefused
<1>5. /\ callbacks' \in [YotiSessions \X Topics -> 0 .. MaxReceiveCount]
      /\ expiry' \in [at : {"idle", "notify", "mark"}, todo : SUBSET Sessions,
                      batch : SUBSET Sessions]
  BY DEF Backed, TypeOK, yotiVars
<1> QED BY <1>2, <1>3, <1>4, <1>5, SendingStep DEF yotiVars

LEMMA CompletionAnswerUsableBacks ==
  ASSUME Backed, NEW i \in Invocations, CompletionAnswerUsable(i)
  PROVE  BacksWhatItAdds
<1>1. PICK s \in Sessions, y \in YotiSessions :
        /\ s = invocation[i].sid /\ y = invocation[i].yotiSessionId
        /\ yoti[y].owner = s
        /\ Audited("F2F_DOCUMENT_UPLOADED", s)
  BY DEF CompletionAnswerUsable, At, Backed, InvocationBacked, InvocationTyped,
         CompletionSteps
<1>2. /\ audit \subseteq audit'
      /\ audit' \subseteq [event : AuditEvents, sid : Sessions]
      /\ faults' \in Nat
  BY <1>1, AuditTyped DEF CompletionAnswerUsable, Backed, AuditEvents
<1>3. PICK v \in Invocation :
        /\ v = [invocation[i] EXCEPT !.at = "completion:credential", !.row = NoRow]
        /\ invocation' = [invocation EXCEPT ![i] = v]
  <2>1. invocation[i] \in Invocation
    BY DEF Backed, TypeOK
  <2>2. [invocation[i] EXCEPT !.at = "completion:credential", !.row = NoRow] \in Invocation
    BY <2>1, MovedTyped, NoRowTyped DEF Steps
  <2>3. invocation' = [invocation EXCEPT ![i] =
          [invocation[i] EXCEPT !.at = "completion:credential", !.row = NoRow]]
    BY DEF CompletionAnswerUsable, Backed, TypeOK
  <2> QED BY <2>2, <2>3
<1>4. v.at = "completion:credential" /\ v.sid = s /\ v.yotiSessionId = y
  BY <1>1, <1>3 DEF Backed, TypeOK, Invocation
<1>5. /\ Audited("F2F_DOCUMENT_UPLOADED", s)'
      /\ yoti'[y].owner = s
  BY <1>1, <1>2 DEF Audited, CompletionAnswerUsable, yotiVars
<1>6. InvocationBacked(v)'
  BY <1>4, <1>5 DEF InvocationBacked, InvocationTyped, CompletionSteps
<1>7. invocation' \in [Invocations -> Invocation] /\ NewInvocationsBacked
  BY <1>3, <1>6, InvocationMoves DEF Backed
<1>8. RestTypeOK'
  BY <1>2 DEF CompletionAnswerUsable, Backed, TypeOK, RestTypeOK, tables, clientVars, yotiVars
<1>9. RowWritten
  BY DEF CompletionAnswerUsable, Backed, TypeOK, RowWritten, NewRowsBacked, Visible, tables
<1> QED BY <1>2, <1>7, <1>8, <1>9, WritingStep
        DEF CompletionAnswerUsable, RowWritten, clientVars, yotiVars

LEMMA CompletionCredentialBacks ==
  ASSUME Backed, NEW i \in Invocations, CompletionCredential(i)
  PROVE  BacksWhatItAdds
<1>1. PICK s \in Sessions, y \in YotiSessions :
        /\ s = invocation[i].sid /\ y = invocation[i].yotiSessionId
        /\ yoti[y].owner = s
        /\ Audited("F2F_DOCUMENT_UPLOADED", s)
  BY DEF CompletionCredential, At, Backed, InvocationBacked, InvocationTyped,
         CompletionSteps
<1>2. yoti'[y].owner = s /\ Audited("F2F_DOCUMENT_UPLOADED", s)'
  BY <1>1 DEF CompletionCredential, Audited, yotiVars
<1>3. /\ toCore \subseteq toCore'
      /\ toCore' \subseteq CoreMessage
      /\ NewMessagesBacked
  BY <1>1, <1>2, MessageAdded DEF CompletionCredential
<1>4. Issued(s)'
  <2>1. [kind |-> "credential", sid |-> s, yotiSessionId |-> y] \in toCore'
    BY <1>1 DEF CompletionCredential, sendToIPVCore
  <2> QED BY <2>1 DEF Issued
<1>5. PICK v \in Invocation : /\ v = [invocation[i] EXCEPT !.at = "completion:update"]
                             /\ invocation' = [invocation EXCEPT ![i] = v]
  BY GotoMoves DEF CompletionCredential, Backed, Steps
<1>6. v.at = "completion:update" /\ v.sid = s /\ v.yotiSessionId = y
  BY <1>1, <1>5 DEF Backed, TypeOK, Invocation
<1>7. InvocationBacked(v)'
  BY <1>2, <1>4, <1>6 DEF InvocationBacked, InvocationTyped, CompletionSteps
<1>8. invocation' \in [Invocations -> Invocation] /\ NewInvocationsBacked
  BY <1>5, <1>7, InvocationMoves DEF Backed
<1>9. /\ callbacks' \in [YotiSessions \X Topics -> 0 .. MaxReceiveCount]
      /\ expiry' \in [at : {"idle", "notify", "mark"}, todo : SUBSET Sessions,
                      batch : SUBSET Sessions]
      /\ faults' \in Nat
  BY DEF CompletionCredential, Backed, TypeOK, yotiVars
<1> QED BY <1>3, <1>8, <1>9, SendingStep DEF CompletionCredential, yotiVars

LEMMA CompletionUpdateBacks ==
  ASSUME Backed, NEW i \in Invocations, CompletionUpdate(i)
  PROVE  BacksWhatItAdds
<1>1. PICK s \in Sessions : s = invocation[i].sid /\ Issued(s)
  BY DEF CompletionUpdate, At, Backed, InvocationBacked, InvocationTyped, CompletionSteps
<1>2. /\ audit \subseteq audit'
      /\ audit' \subseteq [event : AuditEvents, sid : Sessions]
      /\ faults' \in Nat
  BY <1>1, AuditTyped DEF CompletionUpdate, Backed, AuditEvents
<1>3. Grows /\ Issued(s)'
  BY <1>1, <1>2 DEF CompletionUpdate, Grows, Issued, clientVars, yotiVars
<1>4. RowWritten
  BY <1>1, <1>3, StateWritten DEF CompletionUpdate, AuthSessionState, InstructedStates
<1>5. invocation' \in [Invocations -> Invocation] /\ NewInvocationsBacked
  BY InvocationReturns DEF CompletionUpdate, Backed
<1>6. RestTypeOK'
  BY <1>2 DEF CompletionUpdate, Backed, TypeOK, RestTypeOK, clientVars, yotiVars
<1> QED BY <1>2, <1>4, <1>5, <1>6, WritingStep
        DEF CompletionUpdate, RowWritten, clientVars, yotiVars

\* An invocation that ends and changes nothing, or fails.
LEMMA InvocationEndsBacks ==
  ASSUME Backed, NEW i \in Invocations, CompletionThrows(i) \/ InvocationFails(i)
  PROVE  BacksWhatItAdds
<1>1. invocation' \in [Invocations -> Invocation] /\ NewInvocationsBacked
  BY InvocationReturns DEF CompletionThrows, InvocationFails, Backed
<1>2. RestTypeOK'
  BY DEF CompletionThrows, InvocationFails, Fault, Backed, TypeOK, RestTypeOK,
         tables, clientVars, yotiVars
<1> QED BY <1>1, <1>2, QuietStep
        DEF CompletionThrows, InvocationFails, tables, clientVars, yotiVars

-----------------------------------------------------------------------------
(* The steps of ExpiredSessions, of the tables and of time.                *)

ExpiryTyped == expiry \in [at : {"idle", "notify", "mark"}, todo : SUBSET Sessions,
                           batch : SUBSET Sessions]

LEMMA ExpiryAdvanceTyped ==
  ASSUME TypeOK, NEW s \in Sessions, ExpiryAdvance(s)
  PROVE  ExpiryTyped'
BY DEF TypeOK, ExpiryAdvance, ExpiryTyped

LEMMA ExpiryWaitsBacks ==
  ASSUME Backed, ExpiryQuery \/ ExpiryFails
  PROVE  BacksWhatItAdds
<1>1. ExpiryTyped' /\ faults' \in Nat
  BY DEF ExpiryQuery, ExpiryFails, ExpiryTyped, Backed, TypeOK, Fault
<1>2. RestTypeOK'
  BY <1>1 DEF ExpiryQuery, ExpiryFails, ExpiryTyped, Backed, TypeOK, RestTypeOK,
              tables, clientVars, yotiVars
<1>3. invocation' \in [Invocations -> Invocation] /\ NewInvocationsBacked
  BY DEF ExpiryQuery, ExpiryFails, Backed, TypeOK, NewInvocationsBacked
<1> QED BY <1>2, <1>3, QuietStep DEF ExpiryQuery, ExpiryFails, tables, clientVars, yotiVars

LEMMA ExpiryNotifyBacks ==
  ASSUME Backed, NEW s \in Sessions, ExpiryNotify(s)
  PROVE  BacksWhatItAdds
<1>1. /\ toCore \subseteq toCore'
      /\ toCore' \subseteq CoreMessage
      /\ NewMessagesBacked
  <2>1. CASE sendToIPVCore("expired", s, None)
    BY <2>1, MessageAdded
  <2>2. CASE UNCHANGED toCore
    BY <2>2 DEF Backed, TypeOK, NewMessagesBacked
  <2> QED BY <2>1, <2>2 DEF ExpiryNotify
<1>2. ExpiryTyped'
  BY ExpiryAdvanceTyped DEF ExpiryNotify, Backed
<1>3. /\ invocation' \in [Invocations -> Invocation] /\ NewInvocationsBacked
      /\ callbacks' \in [YotiSessions \X Topics -> 0 .. MaxReceiveCount]
      /\ faults' \in Nat
  BY DEF ExpiryNotify, Backed, TypeOK, NewInvocationsBacked, Fault, yotiVars
<1> QED BY <1>1, <1>2, <1>3, SendingStep DEF ExpiryNotify, ExpiryTyped, yotiVars

LEMMA ExpiryMarkBacks ==
  ASSUME Backed, NEW s \in Sessions, ExpiryMark(s)
  PROVE  BacksWhatItAdds
<1>1. Grows
  BY DEF ExpiryMark, Grows, clientVars, yotiVars, sinks
<1>2. RowWritten
  <2>1. CASE markSessionAsExpired(s)
    <3>1. PICK old \in Row : old = session[s] /\ RowBacked(s, old)'
      BY <1>1, LastRowBacked
    <3>2. PICK row \in Row : row = [old EXCEPT !.expiredNotificationSent = TRUE,
                                   !.authSessionState = "F2F_SESSION_EXPIRED"]
      BY DEF Row, AuthSessionState
    <3>3. RowBacked(s, row)'
      BY <3>1, <3>2 DEF RowBacked, InstructedStates, Row
    <3> QED BY <2>1, <3>1, <3>2, <3>3, PutBacks DEF markSessionAsExpired, Backed, RowWritten
  <2>2. CASE UNCHANGED <<session, stale>>
    BY <2>2 DEF Backed, TypeOK, RowWritten, NewRowsBacked, Visible
  <2> QED BY <2>1, <2>2 DEF ExpiryMark
<1>3. ExpiryTyped'
  BY ExpiryAdvanceTyped DEF ExpiryMark, Backed
<1>4. RestTypeOK'
  BY <1>3 DEF ExpiryMark, ExpiryTyped, Fault, Backed, TypeOK, RestTypeOK, clientVars, yotiVars
<1>5. invocation' \in [Invocations -> Invocation] /\ NewInvocationsBacked
  BY DEF ExpiryMark, Backed, TypeOK, NewInvocationsBacked
<1> QED BY <1>2, <1>4, <1>5, WritingStep
        DEF ExpiryMark, Backed, TypeOK, RowWritten, clientVars, yotiVars, sinks

LEMMA TableBacks ==
  ASSUME Backed, NEW s \in Sessions, TimeToLive(s) \/ Propagate(s)
  PROVE  BacksWhatItAdds
<1>1. RowWritten
  <2>1. CASE TimeToLive(s)
    <3>1. RowBacked(s, NoRow)'
      BY NoneAssumption DEF RowBacked, InstructedStates, NoRow, AuthSessionState
    <3> QED BY <2>1, <3>1, NoRowTyped, PutBacks DEF TimeToLive, Backed, RowWritten
  <2>2. CASE Propagate(s)
    <3>1. stale' \in [Sessions -> SUBSET Row]
      BY <2>2 DEF Propagate, Backed, TypeOK
    <3>2. \A t \in Sessions : Visible(t)' \subseteq Visible(t)
      BY <2>2 DEF Propagate, Visible, Backed, TypeOK
    <3> QED BY <2>2, <3>1, <3>2 DEF Propagate, Backed, TypeOK, RowWritten, NewRowsBacked
  <2> QED BY <2>1, <2>2
<1>2. RestTypeOK'
  BY DEF TimeToLive, Propagate, Backed, TypeOK, RestTypeOK, clientVars, yotiVars
<1>3. invocation' \in [Invocations -> Invocation] /\ NewInvocationsBacked
  BY DEF TimeToLive, Propagate, Backed, TypeOK, NewInvocationsBacked
<1> QED BY <1>1, <1>2, <1>3, WritingStep
        DEF TimeToLive, Propagate, Backed, TypeOK, RowWritten, clientVars, yotiVars, sinks

LEMMA TickBacks ==
  ASSUME Backed, Tick
  PROVE  BacksWhatItAdds
<1>1. RestTypeOK'
  BY DEF Tick, Backed, TypeOK, RestTypeOK, tables, clientVars, yotiVars
<1>2. invocation' \in [Invocations -> Invocation] /\ NewInvocationsBacked
  BY DEF Tick, Backed, TypeOK, NewInvocationsBacked
<1> QED BY <1>1, <1>2, QuietStep DEF Tick, tables, clientVars, yotiVars

-----------------------------------------------------------------------------
(* The theorems.                                                           *)

LEMMA InitBacked == Init => Backed
<1> SUFFICES ASSUME Init PROVE Backed
  OBVIOUS
<1> USE DEF Init, ServiceInit
<1>1. \A s \in Sessions : \A row \in Visible(s) : RowBacked(s, row)
  BY NoneAssumption DEF Visible, RowBacked, InstructedStates, NoRow, AuthSessionState
<1>2. \A i \in Invocations : InvocationBacked(invocation[i])
  BY DEF InvocationBacked, InvocationTyped, CompletionSteps, Idle
<1>3. NoRow \in Row /\ Idle \in Invocation
  BY NoRowTyped DEF Idle, Invocation, Steps
<1>4. callbacks \in [YotiSessions \X Topics -> 0 .. MaxReceiveCount]
  BY TtlAssumption
<1>5. TypeOK
  BY <1>3, <1>4 DEF TypeOK, PersonRow, YotiProgress
<1> QED BY <1>1, <1>2, <1>5 DEF Backed, CodeBacked

\* No step takes a fact back, and what it adds is backed.
LEMMA NextAdds ==
  ASSUME Backed, [Next]_vars
  PROVE  BacksWhatItAdds
<1>1. CASE UNCHANGED vars
  <2>1. RestTypeOK'
    BY <1>1 DEF vars, Backed, TypeOK, RestTypeOK, tables, clientVars, yotiVars
  <2>2. invocation' \in [Invocations -> Invocation] /\ NewInvocationsBacked
    BY <1>1 DEF vars, Backed, TypeOK, NewInvocationsBacked
  <2> QED BY <1>1, <2>1, <2>2, QuietStep DEF vars, tables, clientVars, yotiVars
<1>2. CASE ServiceNext
  BY <1>2, TableBacks, InvocationEndsBacks, TickBacks DEF ServiceNext
<1>3. CASE ApiNext
  BY <1>3, SessionCreateBacks, SessionSavePersonBacks, DocSelectReadBacks,
     DocSelectPreferenceBacks, DocSelectYotiBacks, DocSelectLetterBacks,
     DocSelectYotiIdBacks, DocSelectTtlBacks, DocSelectDocumentBacks,
     AuthorizationReadBacks, AuthorizationCodeBacks, TokenReadBacks, TokenUpdateBacks,
     AbortReadBacks, AbortUpdateBacks
     DEF ApiNext
<1>4. CASE CallbackNext
  <2>1. ASSUME NEW i \in Invocations,
               \/ CompletionAnswerUnusable(i) \/ CompletionWrongState(i)
               \/ CompletionNoCredential(i)
        PROVE  BacksWhatItAdds
    BY <2>1, CompletionRefusedBacks
       DEF CompletionAnswerUnusable, CompletionWrongState, CompletionNoCredential, At
  <2> QED BY <1>4, <2>1, YotiReportsBacks, CallbackStartsBacks, CallbackLostBacks,
             FirstBranchVisitBacks, ThankYouAuditBacks, ThankYouUpdateBacks,
             CompletionAnswerUsableBacks, CompletionCredentialBacks,
             CompletionUpdateBacks, InvocationEndsBacks
          DEF CallbackNext
<1>5. CASE ExpiryNext
  BY <1>5, ExpiryWaitsBacks, ExpiryNotifyBacks, ExpiryMarkBacks DEF ExpiryNext
<1> QED BY <1>1, <1>2, <1>3, <1>4, <1>5 DEF Next

LEMMA NextBacked == Backed /\ [Next]_vars => Backed'
BY NextAdds, BackedStep

\* Whatever interleaves, lags or fails, every visible row and every invocation is
\* backed by facts that stay.
THEOREM AlwaysBacked == Spec => []Backed
BY InitBacked, NextBacked, PTL DEF Spec

\* Every variable keeps its type.
THEOREM TypeCorrect == Spec => []TypeOK
<1>1. Backed => TypeOK
  BY DEF Backed
<1> QED BY <1>1, AlwaysBacked, PTL

\* No credential without the F2F_DOCUMENT_UPLOADED event of its session.
THEOREM CredentialsFollowUploads == Spec => []CredentialAfterUpload
<1>1. Backed => CredentialAfterUpload
  BY DEF Backed, CredentialAfterUpload, Credentials, MessageBacked
<1> QED BY <1>1, AlwaysBacked, PTL

\* The credential of a Yoti session goes to the session it was opened for.
THEOREM CredentialsReachTheirOwner == Spec => []CredentialForOwner
<1>1. Backed => CredentialForOwner
  BY DEF Backed, CredentialForOwner, Credentials, MessageBacked
<1> QED BY <1>1, AlwaysBacked, PTL

\* F2F_CREDENTIAL_ISSUED is written only after a credential was sent.
THEOREM IssuedSessionsHaveCredentials == Spec => []IssuedMeansSent
<1>1. Backed => IssuedMeansSent
  BY DEF Backed, IssuedMeansSent, Credentials, Visible, RowBacked, Issued
<1> QED BY <1>1, AlwaysBacked, PTL

\* No authorization code before the letter of the session was started.
THEOREM CodesFollowLetters == Spec => []CodeAfterLetter
<1>1. Backed => CodeAfterLetter
  BY DEF Backed, CodeAfterLetter, CodeBacked
<1> QED BY <1>1, AlwaysBacked, PTL

\* A token is made for the session its code was generated for.
THEOREM TokensBelongToTheirCode == Spec => []TokenForCodeOwner
<1>1. Backed => TokenForCodeOwner
  BY DEF Backed, TokenForCodeOwner, InvocationBacked, At
<1> QED BY <1>1, AlwaysBacked, PTL

-----------------------------------------------------------------------------
(* F2fJourney implements ServicePromise.                                   *)

PromiseStep == [Promise!PromiseNext]_(Promise!promiseVars)

Uploaded == {s \in Sessions : Audited("F2F_DOCUMENT_UPLOADED", s)}

Delivered == {[sid |-> m.sid, yotiSessionId |-> m.yotiSessionId] : m \in Credentials}

\* A step that opens no Yoti session, starts no letter, issues no code, reports no
\* upload and sends no credential is a stuttering step of the promise.
LEMMA PromiseStutters ==
  ASSUME [y \in YotiSessions |-> yoti[y].owner]' = [y \in YotiSessions |-> yoti[y].owner],
         UNCHANGED <<letters, codes>>, Uploaded' = Uploaded, Delivered' = Delivered
  PROVE  PromiseStep
BY DEF PromiseStep, Promise!promiseVars, Uploaded, Delivered

\* The events sent with SendToTxmaOrLog report no upload.
LEMMA NoUploadReported ==
  ASSUME TypeOK, NEW s \in Sessions, NEW events, "F2F_DOCUMENT_UPLOADED" \notin events,
         SendToTxmaOrLog(s, events)
  PROVE  Uploaded' = Uploaded
BY DEF SendToTxmaOrLog, Uploaded, Audited

\* Messages other than credentials deliver nothing.
LEMMA NothingDelivered ==
  ASSUME NEW s, NEW y, NEW kind \in {"error", "expired"}, sendToIPVCore(kind, s, y)
  PROVE  Delivered' = Delivered
<1>1. Credentials' = Credentials
  BY DEF Credentials, sendToIPVCore
<1> QED BY <1>1 DEF Delivered

LEMMA PromiseInitially == Init => Promise!PromiseInit
BY DEF Init, ServiceInit, Promise!PromiseInit, Audited, Credentials

LEMMA QuietPromise ==
  ASSUME UNCHANGED <<yoti, letters, codes, toCore>>, Uploaded' = Uploaded
  PROVE  PromiseStep
BY PromiseStutters DEF Delivered, Credentials

LEMMA SendingPromise ==
  ASSUME UNCHANGED <<yoti, letters, codes, audit>>, Delivered' = Delivered
  PROVE  PromiseStep
BY PromiseStutters DEF Uploaded, Audited

LEMMA ServiceKeepsPromise ==
  ASSUME ServiceNext \/ UNCHANGED vars
  PROVE  PromiseStep
<1>1. UNCHANGED <<yoti, letters, codes, sinks>>
  BY DEF ServiceNext, TimeToLive, Propagate, InvocationFails, Tick, vars,
         tables, clientVars, yotiVars
<1> QED BY <1>1, QuietPromise DEF sinks, Uploaded, Audited

LEMMA OpenKeepsPromise ==
  ASSUME Backed, NEW i \in Invocations, NEW y \in YotiSessions, DocSelectYoti(i, y)
  PROVE  PromiseStep
<1>1. PICK s \in Sessions : s = invocation[i].sid
  BY DEF DocSelectYoti, At, Backed, InvocationBacked, InvocationTyped
<1>2. [z \in YotiSessions |-> yoti[z].owner]' =
        [[z \in YotiSessions |-> yoti[z].owner] EXCEPT ![y] = s]
  BY <1>1 DEF DocSelectYoti, Backed, TypeOK
<1>3. Uploaded' = Uploaded /\ Delivered' = Delivered
  BY DEF DocSelectYoti, sinks, Uploaded, Audited, Delivered, Credentials
<1>4. Promise!Open(s, y)
  BY <1>2, <1>3 DEF Promise!Open, DocSelectYoti, clientVars, Uploaded, Delivered
<1> QED BY <1>4 DEF PromiseStep, Promise!PromiseNext

LEMMA InstructKeepsPromise ==
  ASSUME Backed, NEW i \in Invocations, DocSelectLetter(i)
  PROVE  PromiseStep
<1>1. PICK s \in Sessions, y \in YotiSessions :
        s = invocation[i].sid /\ yoti[y].owner = s
  BY DEF DocSelectLetter, At, Backed, InvocationBacked, InvocationTyped
<1>2. {letter.sid : letter \in letters}' = {letter.sid : letter \in letters} \cup {s}
  <2>1. PICK new : new.sid = s /\ letters' = letters \cup {new}
    BY <1>1 DEF DocSelectLetter
  <2> QED BY <2>1
<1>3. Uploaded' = Uploaded /\ Delivered' = Delivered
  BY DEF DocSelectLetter, sinks, Uploaded, Audited, Delivered, Credentials
<1>4. Promise!Instruct(s)
  BY <1>1, <1>2, <1>3 DEF Promise!Instruct, DocSelectLetter, clientVars, Uploaded, Delivered
<1> QED BY <1>4 DEF PromiseStep, Promise!PromiseNext

LEMMA AuthoriseKeepsPromise ==
  ASSUME Backed, NEW i \in Invocations, NEW c \in Codes, AuthorizationCode(i, c)
  PROVE  PromiseStep
<1>1. PICK s \in Sessions : s = invocation[i].sid /\ LetterStarted(s)
  BY DEF AuthorizationCode, At, Backed, InvocationBacked, InvocationTyped
<1>2. Uploaded' = Uploaded
  BY <1>1, NoUploadReported DEF AuthorizationCode, Backed
<1>3. Delivered' = Delivered
  BY DEF AuthorizationCode, Delivered, Credentials
<1>4. s \in {letter.sid : letter \in letters}
  BY <1>1 DEF LetterStarted
<1>5. Promise!Authorise(s, c)
  BY <1>1, <1>2, <1>3, <1>4
     DEF Promise!Authorise, AuthorizationCode, yotiVars, Uploaded, Delivered
<1> QED BY <1>5 DEF PromiseStep, Promise!PromiseNext

LEMMA UploadKeepsPromise ==
  ASSUME Backed, NEW i \in Invocations, ThankYouAudit(i)
  PROVE  PromiseStep
<1>1. PICK s \in Sessions, y \in YotiSessions :
        s = invocation[i].sid /\ yoti[y].owner = s
  BY DEF ThankYouAudit, At, Backed, InvocationBacked, InvocationTyped
<1>2. Uploaded' = Uploaded \cup {s}
  BY <1>1 DEF ThankYouAudit, SendToTxma, Uploaded, Audited
<1>3. Delivered' = Delivered
  BY DEF ThankYouAudit, Delivered, Credentials
<1>4. Promise!Upload(s)
  BY <1>1, <1>2, <1>3
     DEF Promise!Upload, ThankYouAudit, clientVars, yotiVars, Uploaded, Delivered
<1> QED BY <1>4 DEF PromiseStep, Promise!PromiseNext

LEMMA DeliverKeepsPromise ==
  ASSUME Backed, NEW i \in Invocations, CompletionCredential(i)
  PROVE  PromiseStep
<1>1. PICK s \in Sessions, y \in YotiSessions :
        /\ s = invocation[i].sid /\ y = invocation[i].yotiSessionId
        /\ yoti[y].owner = s
        /\ Audited("F2F_DOCUMENT_UPLOADED", s)
  BY DEF CompletionCredential, At, Backed, InvocationBacked, InvocationTyped,
         CompletionSteps
<1>2. PICK new : /\ new = [kind |-> "credential", sid |-> s, yotiSessionId |-> y]
                 /\ toCore' = toCore \cup {new}
  BY <1>1 DEF CompletionCredential, sendToIPVCore
<1>3. Delivered' = Delivered \cup {[sid |-> s, yotiSessionId |-> y]}
  <2>1. new.kind = "credential" /\ new.sid = s /\ new.yotiSessionId = y
    BY <1>2
  <2>2. Credentials' = Credentials \cup {new}
    BY <1>2, <2>1 DEF Credentials
  <2>3. Delivered' = Delivered \cup {[sid |-> new.sid, yotiSessionId |-> new.yotiSessionId]}
    BY <2>2 DEF Delivered
  <2> QED BY <2>1, <2>3
<1>4. Uploaded' = Uploaded /\ s \in Uploaded
  BY <1>1 DEF CompletionCredential, Uploaded, Audited
<1>5. Promise!Deliver(s, y)
  BY <1>1, <1>3, <1>4
     DEF Promise!Deliver, CompletionCredential, clientVars, yotiVars, Uploaded, Delivered
<1> QED BY <1>5 DEF PromiseStep, Promise!PromiseNext

LEMMA ApiKeepsPromise ==
  ASSUME Backed, ApiNext
  PROVE  PromiseStep
<1>1. ASSUME NEW i \in Invocations, NEW s \in Sessions,
             \/ SessionCreate(i, s) \/ AuthorizationRead(i, s) \/ AbortRead(i, s)
             \/ \E pref \in PdfPreferences : DocSelectRead(i, s, pref)
      PROVE  PromiseStep
  BY <1>1, QuietPromise
     DEF SessionCreate, AuthorizationRead, AbortRead, DocSelectRead, clientVars, yotiVars,
         sinks, Uploaded, Audited
<1>2. ASSUME NEW i \in Invocations,
             \/ DocSelectPreference(i) \/ DocSelectYotiId(i) \/ DocSelectTtl(i)
             \/ TokenUpdate(i) \/ \E c \in Codes : TokenRead(i, c)
      PROVE  PromiseStep
  BY <1>2, QuietPromise
     DEF DocSelectPreference, DocSelectYotiId, DocSelectTtl, TokenUpdate, TokenRead,
         clientVars, yotiVars, sinks, Uploaded, Audited
<1>3. ASSUME NEW i \in Invocations,
             SessionSavePerson(i) \/ DocSelectDocument(i) \/ AbortUpdate(i)
      PROVE  PromiseStep
  <2>1. PICK s \in Sessions : s = invocation[i].sid
    BY <1>3 DEF SessionSavePerson, DocSelectDocument, AbortUpdate, At, Backed,
                InvocationBacked, InvocationTyped
  <2>2. Uploaded' = Uploaded
    BY <1>3, <2>1, NoUploadReported
       DEF SessionSavePerson, DocSelectDocument, AbortUpdate, Backed
  <2> QED BY <1>3, <2>2, QuietPromise
          DEF SessionSavePerson, DocSelectDocument, AbortUpdate, clientVars, yotiVars
<1> QED BY <1>1, <1>2, <1>3, OpenKeepsPromise, InstructKeepsPromise, AuthoriseKeepsPromise
        DEF ApiNext

LEMMA CallbacksKeepPromise ==
  ASSUME Backed, CallbackNext
  PROVE  PromiseStep
<1>1. ASSUME NEW y \in YotiSessions, NEW report \in Reports, YotiReports(y, report)
      PROVE  PromiseStep
  <2>1. [z \in YotiSessions |-> yoti[z].owner]' = [z \in YotiSessions |-> yoti[z].owner]
    BY <1>1 DEF YotiReports, Backed, TypeOK
  <2> QED BY <1>1, <2>1, PromiseStutters
          DEF YotiReports, clientVars, sinks, Uploaded, Audited, Delivered, Credentials
<1>2. ASSUME NEW y \in YotiSessions, NEW topic \in Topics,
             \/ \E i \in Invocations : CallbackStarts(i, y, topic)
             \/ CallbackLost(y, topic) \/ StartExecutionFails(y, topic)
      PROVE  PromiseStep
  BY <1>2, QuietPromise
     DEF CallbackStarts, CallbackLost, StartExecutionFails, clientVars, sinks,
         Uploaded, Audited
<1>3. ASSUME NEW i \in Invocations,
             FirstBranchVisit(i) \/ ThankYouUpdate(i) \/ CompletionThrows(i)
      PROVE  PromiseStep
  BY <1>3, QuietPromise
     DEF FirstBranchVisit, ThankYouUpdate, CompletionThrows, clientVars, yotiVars, sinks,
         Uploaded, Audited
<1>4. ASSUME NEW i \in Invocations, CompletionAnswerUsable(i) \/ CompletionUpdate(i)
      PROVE  PromiseStep
  <2>1. PICK s \in Sessions : s = invocation[i].sid
    BY <1>4 DEF CompletionAnswerUsable, CompletionUpdate, At, Backed, InvocationBacked,
                InvocationTyped
  <2>2. Uploaded' = Uploaded
    BY <1>4, <2>1, NoUploadReported DEF CompletionAnswerUsable, CompletionUpdate, Backed
  <2> QED BY <1>4, <2>2, QuietPromise
          DEF CompletionAnswerUsable, CompletionUpdate, clientVars, yotiVars
<1>5. ASSUME NEW i \in Invocations,
             \/ CompletionAnswerUnusable(i) \/ CompletionWrongState(i)
             \/ CompletionNoCredential(i)
      PROVE  PromiseStep
  <2>1. CompletionRefused(i) /\ UNCHANGED <<yoti, letters, codes, audit>>
    BY <1>5 DEF CompletionAnswerUnusable, CompletionWrongState, CompletionNoCredential,
                clientVars, yotiVars
  <2>2. Delivered' = Delivered
    BY <2>1, NothingDelivered DEF CompletionRefused, Delivered, Credentials
  <2> QED BY <2>1, <2>2, SendingPromise
<1> QED BY <1>1, <1>2, <1>3, <1>4, <1>5, UploadKeepsPromise, DeliverKeepsPromise
        DEF CallbackNext

LEMMA ExpiryKeepsPromise ==
  ASSUME ExpiryNext
  PROVE  PromiseStep
<1>1. CASE ExpiryQuery \/ ExpiryFails \/ \E s \in Sessions : ExpiryMark(s)
  BY <1>1, QuietPromise
     DEF ExpiryQuery, ExpiryFails, ExpiryMark, clientVars, yotiVars, sinks, Uploaded, Audited
<1>2. ASSUME NEW s \in Sessions, ExpiryNotify(s) PROVE PromiseStep
  <2>1. Delivered' = Delivered
    BY <1>2, NothingDelivered DEF ExpiryNotify, Delivered, Credentials
  <2> QED BY <1>2, <2>1, SendingPromise DEF ExpiryNotify, clientVars, yotiVars
<1> QED BY <1>1, <1>2 DEF ExpiryNext

\* Every behaviour of the journey is one ServicePromise allows.
THEOREM JourneyKeepsPromise == Spec => KeepsPromise
<1>1. Backed /\ [Next]_vars => PromiseStep
  BY ServiceKeepsPromise, ApiKeepsPromise, CallbacksKeepPromise, ExpiryKeepsPromise DEF Next
<1> QED BY <1>1, PromiseInitially, AlwaysBacked, PTL
        DEF Spec, KeepsPromise, Promise!PromiseSpec, PromiseStep
=============================================================================
