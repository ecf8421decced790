--------------------------- MODULE F2fSystemProofs ---------------------------
(***************************************************************************)
(* Proofs about F2fSystem, for any sets of ids and bounds: the letters and *)
(* the reminders keep what F2fProofs says of the journey, and what is sent *)
(* to the user has been asked for and is recorded truthfully.              *)
(***************************************************************************)
EXTENDS ExpiryProofs, F2fSystem

-----------------------------------------------------------------------------
(* The letters and the reminders keep Backed.                              *)

LEMMA FaultsTyped ==
  ASSUME TypeOK, UNCHANGED faults \/ Fault
  PROVE  faults' \in Nat
BY DEF TypeOK, Fault

\* A step that moves no invocation and writes no row but session rows.
LEMMA OutsideStep ==
  ASSUME Backed, RowWritten,
         UNCHANGED <<now, person, clientVars, yotiVars, invocation, expiry, toCore>>,
         audit \subseteq audit', audit' \subseteq [event : AuditEvents, sid : Sessions],
         faults' \in Nat
  PROVE  Backed'
<1>1. RestTypeOK'
  BY DEF Backed, TypeOK, RestTypeOK, clientVars, yotiVars
<1>2. invocation' \in [Invocations -> Invocation] /\ NewInvocationsBacked
  BY DEF Backed, TypeOK, NewInvocationsBacked
<1>3. UNCHANGED <<codes, yoti, letters, toCore>>
  BY DEF clientVars, yotiVars
<1> QED BY <1>1, <1>2, <1>3, WritingStep, BackedStep DEF RowWritten

LEMMA NoRowWritten ==
  ASSUME Backed, UNCHANGED <<session, stale>>
  PROVE  RowWritten
BY DEF Backed, TypeOK, RowWritten, NewRowsBacked, Visible

LEMMA NoEventSent ==
  ASSUME Backed, UNCHANGED audit
  PROVE  audit \subseteq audit' /\ audit' \subseteq [event : AuditEvents, sid : Sessions]
BY DEF Backed, TypeOK

LEMMA LetterBacked ==
  ASSUME Backed, LetterNext
  PROVE  Backed'
<1>1. PICK l \in letters :
        \/ GenerateYotiLetter(l) \/ GeneratePrintedLetter(l) \/ LetterNotGenerated(l)
        \/ SendLetter(l) \/ SendEmail(l) \/ InstructionsNotSent(l)
  BY DEF LetterNext
<1>2. TypeOK /\ l.sid \in Sessions
  BY DEF Backed, TypeOK, Letter
<1>3. UNCHANGED others
  BY <1>1 DEF GenerateYotiLetter, GeneratePrintedLetter, LetterNotGenerated, SendLetter,
              SendEmail, InstructionsNotSent
<1>4. /\ audit \subseteq audit'
      /\ audit' \subseteq [event : AuditEvents, sid : Sessions]
      /\ faults' \in Nat
  <2>1. CASE \/ GenerateYotiLetter(l) \/ GeneratePrintedLetter(l) \/ LetterNotGenerated(l)
             \/ InstructionsNotSent(l)
    <3>1. UNCHANGED audit
      BY <2>1 DEF GenerateYotiLetter, GeneratePrintedLetter, LetterNotGenerated,
                  InstructionsNotSent
    <3>2. UNCHANGED faults \/ Fault
      BY <2>1 DEF GenerateYotiLetter, GeneratePrintedLetter, LetterNotGenerated,
                  InstructionsNotSent, MoveOrCrash
    <3> QED BY <1>2, <3>1, <3>2, NoEventSent, FaultsTyped
  <2>2. CASE SendLetter(l) \/ SendEmail(l)
    <3>1. \/ SendToTxmaOrLog(l.sid, {"F2F_YOTI_PDF_LETTER_POSTED"})
          \/ SendToTxmaOrLog(l.sid, {"F2F_YOTI_PDF_EMAILED"})
          \/ UNCHANGED audit /\ (UNCHANGED faults \/ Fault)
      BY <2>2 DEF SendLetter, SendEmail
    <3>2. /\ {"F2F_YOTI_PDF_LETTER_POSTED"} \in SUBSET AuditEvents
          /\ {"F2F_YOTI_PDF_EMAILED"} \in SUBSET AuditEvents
      BY DEF AuditEvents
    <3> QED BY <1>2, <3>1, <3>2, AuditTyped, NoEventSent, FaultsTyped
  <2> QED BY <1>1, <2>1, <2>2
<1>5. RowWritten
  BY <1>3, NoRowWritten DEF others, tables
<1> QED BY <1>3, <1>4, <1>5, OutsideStep DEF others, tables

LEMMA ReminderBacked ==
  ASSUME Backed, ReminderNext
  PROVE  Backed'
<1>1. /\ UNCHANGED <<now, person, clientVars, yotiVars, invocation, expiry, toCore, audit>>
      /\ UNCHANGED faults \/ Fault
  BY DEF ReminderNext, ReminderQuery, ReminderFetch, ReminderSend, ReminderFlag,
         ReminderEnds, ReminderFails, ReminderEmail, ReminderEmailFails, Received,
         vars, tables, sinks
<1>2. RowWritten
  <2>1. CASE UNCHANGED <<session, stale>>
    BY <2>1, NoRowWritten
  <2>2. CASE \E s \in Sessions : updateReminderEmailFlag(s)
    <3>1. PICK s \in Sessions : updateReminderEmailFlag(s)
      BY <2>2
    <3>2. Grows
      BY <1>1 DEF Grows, clientVars, yotiVars
    <3>3. PICK old \in Row : old = session[s] /\ RowBacked(s, old)'
      BY <3>2, LastRowBacked
    <3>4. PICK row \in Row : row = [old EXCEPT !.reminderEmailSent = TRUE]
      BY DEF Row
    <3>5. RowBacked(s, row)'
      BY <3>3, <3>4 DEF RowBacked, Row
    <3> QED BY <3>1, <3>3, <3>4, <3>5, PutBacks DEF updateReminderEmailFlag, Backed, RowWritten
  <2>3. UNCHANGED <<session, stale>> \/ \E s \in Sessions : updateReminderEmailFlag(s)
    BY DEF ReminderNext, ReminderQuery, ReminderFetch, ReminderSend, ReminderFlag,
           ReminderEnds, ReminderFails, ReminderEmail, ReminderEmailFails, vars, tables
  <2> QED BY <2>1, <2>2, <2>3
<1> QED BY <1>1, <1>2, NoEventSent, FaultsTyped, OutsideStep DEF Backed

-----------------------------------------------------------------------------
(* Types.                                                                  *)

LEMMA LetterTyped ==
  ASSUME Backed, LetterTypeOK, LetterNext
  PROVE  LetterTypeOK'
<1>1. PICK l \in letters :
        \/ GenerateYotiLetter(l) \/ GeneratePrintedLetter(l) \/ LetterNotGenerated(l)
        \/ SendLetter(l) \/ SendEmail(l) \/ InstructionsNotSent(l)
  BY DEF LetterNext
<1>2. l.yotiSessionId \in YotiSessions /\ l.sid \in Sessions
  BY DEF Backed, TypeOK, Letter
<1>3. ASSUME NEW at \in {"generate", "print", "send", "email", "done", "failed"},
             Move(l, at)
      PROVE  execution' \in [YotiSessions -> Execution]
  <2>1. PICK e \in Execution : e = execution[l.yotiSessionId]
    BY <1>2 DEF LetterTypeOK
  <2>2. [e EXCEPT !.at = at] \in Execution
    BY DEF Execution
  <2>3. execution' = [execution EXCEPT ![l.yotiSessionId] = [e EXCEPT !.at = at]]
    BY <1>3, <2>1 DEF Move
  <2> QED BY <2>2, <2>3 DEF LetterTypeOK
<1>4. ASSUME NEW row \in Visible(l.sid)
      PROVE  row.yotiSessionId \in YotiSessions \cup {None}
  BY <1>2 DEF Visible, Backed, TypeOK, Row
<1>5. CASE GenerateYotiLetter(l)
  <2>1. LetterChoice(l.pdfPreference) \in {"send", "print", "failed"}
    BY PreferenceAssumption DEF LetterChoice
  <2>2. execution' \in [YotiSessions -> Execution]
    BY <1>3, <1>5, <2>1 DEF GenerateYotiLetter, MoveOrCrash
  <2>3. bucket' \subseteq Pdf
    BY <1>4, <1>5 DEF GenerateYotiLetter, SessionById, LetterTypeOK, Pdf
  <2> QED BY <1>5, <2>2, <2>3 DEF GenerateYotiLetter, LetterTypeOK
<1>6. CASE GeneratePrintedLetter(l)
  <2>1. execution' \in [YotiSessions -> Execution]
    BY <1>3, <1>6 DEF GeneratePrintedLetter, MoveOrCrash
  <2>2. bucket' \subseteq Pdf
    BY <1>6 DEF GeneratePrintedLetter, LetterTypeOK, Pdf
  <2> QED BY <1>6, <2>1, <2>2 DEF GeneratePrintedLetter, LetterTypeOK
<1>7. CASE LetterNotGenerated(l) \/ InstructionsNotSent(l)
  BY <1>3, <1>7 DEF LetterNotGenerated, InstructionsNotSent, LetterTypeOK
<1>8. CASE SendLetter(l)
  <2>1. PICK row \in Visible(l.sid) :
          /\ \/ Move(l, "failed")
             \/ execution' = [execution EXCEPT ![l.yotiSessionId] =
                                [at |-> "email", yotiSessionId |-> row.yotiSessionId]]
          /\ \/ ToBePosted(l, row.yotiSessionId)
                  /\ Notify("letter", l.sid, row.yotiSessionId)
             \/ UNCHANGED sent
    BY <1>8 DEF SendLetter
  <2>2. [at |-> "email", yotiSessionId |-> row.yotiSessionId] \in Execution
    BY <1>4 DEF Execution
  <2>3. execution' \in [YotiSessions -> Execution]
    BY <1>3, <2>1, <2>2 DEF LetterTypeOK
  <2>4. sent' \subseteq Sent
    BY <1>2, <2>1 DEF ToBePosted, Notify, LetterTypeOK, Pdf, Sent
  <2> QED BY <1>8, <2>3, <2>4 DEF SendLetter, LetterTypeOK
<1>9. CASE SendEmail(l)
  <2>1. execution' \in [YotiSessions -> Execution]
    BY <1>3, <1>9 DEF SendEmail
  <2>2. sent' \subseteq Sent
    BY <1>2, <1>9 DEF SendEmail, Notify, LetterTypeOK, Pdf, Sent
  <2> QED BY <1>9, <2>1, <2>2 DEF SendEmail, LetterTypeOK
<1> QED BY <1>1, <1>5, <1>6, <1>7, <1>8, <1>9

Run ==
  [at : {"idle", "fetch", "send"}, fetch : SUBSET Sessions, users : SUBSET Reminder,
   flag : SUBSET Sessions, rejected : BOOLEAN]

LEMMA ReminderTyped ==
  ASSUME Backed, ReminderTypeOK, ReminderNext
  PROVE  ReminderTypeOK'
<1>1. reminder \in Run
  BY DEF ReminderTypeOK, Run
<1>2. NoRun \in Run
  BY DEF NoRun, Run
<1>3. ASSUME NEW m \in Reminder
      PROVE  /\ [notifyQueue EXCEPT ![m] = NotifyReceiveCount]
                  \in [Reminder -> 0 .. NotifyReceiveCount]
             /\ [notifyQueue EXCEPT ![m] = 0] \in [Reminder -> 0 .. NotifyReceiveCount]
             /\ notifyQueue[m] > 0 => [notifyQueue EXCEPT ![m] = @ - 1]
                                        \in [Reminder -> 0 .. NotifyReceiveCount]
  BY ReminderAssumption DEF ReminderTypeOK
<1>4. CASE ReminderQuery
  <2>1. PICK batch \in SUBSET Sessions :
          reminder' = [[NoRun EXCEPT !.at = "fetch"] EXCEPT !.fetch = batch]
    BY <1>4 DEF ReminderQuery
  <2>2. reminder' \in Run
    BY <2>1 DEF NoRun, Run
  <2> QED BY <1>4, <2>2 DEF ReminderQuery, ReminderTypeOK, Run
<1>5. CASE ReminderEnds \/ ReminderFails
  BY <1>2, <1>5 DEF ReminderEnds, ReminderFails, ReminderTypeOK, Run
<1>6. ASSUME NEW s \in Sessions, ReminderFetch(s) PROVE ReminderTypeOK'
  <2>1. ASSUME NEW users \in SUBSET Reminder, NEW rejected \in BOOLEAN,
               Fetched(s, users, rejected)
        PROVE  reminder' \in Run
    BY <1>1, <2>1 DEF Fetched, Run
  <2>2. reminder' \in Run
    <3>1. CASE Fetched(s, {}, TRUE)
      BY <2>1, <3>1
    <3>2. ASSUME NEW row \in Visible(s),
                 IF SessionById(s, row) /\ person[s].claims
                   THEN Fetched(s, {[sid |-> s, yotiSessionId |-> row.yotiSessionId]}, FALSE)
                   ELSE Fetched(s, {}, Expired(row))
          PROVE  reminder' \in Run
      <4>1. row.yotiSessionId \in YotiSessions \cup {None}
        BY DEF Visible, Backed, TypeOK, Row
      <4>2. {[sid |-> s, yotiSessionId |-> row.yotiSessionId]} \in SUBSET Reminder
        BY <4>1 DEF Reminder
      <4>3. Expired(row) \in BOOLEAN
        BY DEF Expired
      <4> QED BY <2>1, <3>2, <4>2, <4>3
    <3> QED BY <1>6, <3>1, <3>2 DEF ReminderFetch
  <2> QED BY <1>6, <2>2 DEF ReminderFetch, ReminderTypeOK, Run
<1>7. ASSUME NEW s \in Sessions, ReminderFlag(s) PROVE ReminderTypeOK'
  <2>1. reminder' \in Run
    BY <1>1, <1>7 DEF ReminderFlag, Run
  <2> QED BY <1>7, <2>1 DEF ReminderFlag, ReminderTypeOK, Run
<1>8. ASSUME NEW m \in Reminder, ReminderSend(m) PROVE ReminderTypeOK'
  <2>1. m.sid \in Sessions
    BY DEF Reminder
  <2>2. reminder' \in Run
    <3>1. PICK run \in Run : run = reminder
      BY <1>1
    <3>2. /\ [run EXCEPT !.users = @ \ {m}] \in Run
          /\ [run EXCEPT !.users = @ \ {m}, !.flag = @ \cup {m.sid}] \in Run
      BY <2>1 DEF Run
    <3> QED BY <1>8, <3>1, <3>2 DEF ReminderSend
  <2>3. queued' \in [Sessions -> Nat]
    BY <1>8, <2>1 DEF ReminderSend, ReminderTypeOK
  <2>4. notifyQueue' \in [Reminder -> 0 .. NotifyReceiveCount]
    BY <1>3, <1>8 DEF ReminderSend, ReminderTypeOK
  <2> QED BY <1>8, <2>2, <2>3, <2>4 DEF ReminderSend, ReminderTypeOK, Run
<1>9. ASSUME NEW m \in Reminder, ReminderEmail(m) \/ ReminderEmailFails(m)
      PROVE  ReminderTypeOK'
  BY <1>3, <1>9 DEF ReminderEmail, ReminderEmailFails, Received, ReminderTypeOK
<1> QED BY <1>4, <1>5, <1>6, <1>7, <1>8, <1>9 DEF ReminderNext

LEMMA SystemStarts == SystemInit => Backed /\ LetterTypeOK /\ ReminderTypeOK
<1> SUFFICES ASSUME SystemInit PROVE Backed /\ LetterTypeOK /\ ReminderTypeOK
  OBVIOUS
<1>1. Backed
  BY InitBacked DEF SystemInit
<1>2. LetterTypeOK
  BY DEF SystemInit, LetterInit, LetterTypeOK, Execution
<1>3. ReminderTypeOK
  <2>1. NoRun \in [at : {"idle", "fetch", "send"}, fetch : SUBSET Sessions,
                   users : SUBSET Reminder, flag : SUBSET Sessions, rejected : BOOLEAN]
    BY DEF NoRun
  <2>2. [m \in Reminder |-> 0] \in [Reminder -> 0 .. NotifyReceiveCount]
    BY ReminderAssumption
  <2> QED BY <2>1, <2>2 DEF SystemInit, ReminderInit, ReminderTypeOK
<1> QED BY <1>1, <1>2, <1>3

\* What F2fProofs says of the journey holds with letters and reminders under way.
SystemBacked == Backed /\ LetterTypeOK /\ ReminderTypeOK

LEMMA SystemStepBacked == SystemBacked /\ [SystemNext]_systemVars => SystemBacked'
<1> SUFFICES ASSUME SystemBacked, [SystemNext]_systemVars PROVE SystemBacked'
  OBVIOUS
<1> USE DEF SystemBacked
<1>1. CASE (Next /\ UNCHANGED <<letterVars, reminderVars>>) \/ UNCHANGED systemVars
  <2>1. [Next]_vars /\ UNCHANGED <<letterVars, reminderVars>>
    BY <1>1 DEF systemVars
  <2> QED BY <2>1, NextBacked DEF letterVars, reminderVars, LetterTypeOK, ReminderTypeOK
<1>2. CASE LetterNext /\ UNCHANGED reminderVars
  BY <1>2, LetterBacked, LetterTyped DEF reminderVars, ReminderTypeOK
<1>3. CASE ReminderNext /\ UNCHANGED letterVars
  BY <1>3, ReminderBacked, ReminderTyped DEF letterVars, LetterTypeOK
<1> QED BY <1>1, <1>2, <1>3 DEF SystemNext

LEMMA SystemAlwaysBacked == SystemSpec => []SystemBacked
<1>1. SystemInit => SystemBacked
  BY SystemStarts DEF SystemBacked
<1> QED BY <1>1, SystemStepBacked, PTL DEF SystemSpec

\* Every variable of the journey, the letters and the reminders keeps its type.
THEOREM SystemTypes == SystemSpec => []SystemTypeOK
<1>1. SystemBacked => SystemTypeOK
  BY DEF SystemBacked, SystemTypeOK, Backed
<1> QED BY <1>1, SystemAlwaysBacked, PTL

-----------------------------------------------------------------------------
(* The reminder flag tells the truth.                                      *)

\* Whoever is about to be marked has been put on the queue, too.
FlagsFollow == FlagMeansQueued /\ \A s \in reminder.flag : queued[s] > 0

LEMMA FlagsFollowStep == SystemBacked /\ FlagsFollow /\ [SystemNext]_systemVars => FlagsFollow'
<1> SUFFICES ASSUME SystemBacked, FlagsFollow, [SystemNext]_systemVars PROVE FlagsFollow'
  OBVIOUS
<1>1. Backed /\ reminder \in Run /\ queued \in [Sessions -> Nat] /\ TypeOK
  BY DEF SystemBacked, ReminderTypeOK, Run, Backed
<1>2. CASE FlagsStay /\ UNCHANGED <<queued, reminder>>
  BY <1>2 DEF FlagsFollow, FlagMeansQueued, FlagsStay
<1>3. CASE (Next /\ UNCHANGED <<letterVars, reminderVars>>) \/ UNCHANGED systemVars
  BY <1>1, <1>2, <1>3, JourneyWrites DEF systemVars, reminderVars
<1>4. CASE LetterNext /\ UNCHANGED reminderVars
  <2>1. UNCHANGED session
    BY <1>4 DEF LetterNext, GenerateYotiLetter, GeneratePrintedLetter, LetterNotGenerated,
                SendLetter, SendEmail, InstructionsNotSent, others, tables
  <2> QED BY <1>2, <1>4, <2>1 DEF FlagsStay, reminderVars
<1>5. CASE ReminderNext
  <2>1. ASSUME NEW m \in Reminder, ReminderSend(m) PROVE FlagsFollow'
    <3>1. m.sid \in Sessions
      BY DEF Reminder
    <3>2. \A s \in Sessions : queued[s] > 0 => queued'[s] > 0
      BY <1>1, <2>1, <3>1 DEF ReminderSend
    <3>3. \A s \in reminder'.flag : queued'[s] > 0
      <4>1. PICK run \in Run : run = reminder
        BY <1>1
      <4>2. CASE /\ queued' = [queued EXCEPT ![m.sid] = queued[m.sid] + 1]
                 /\ reminder' = [reminder EXCEPT !.users = reminder.users \ {m},
                                                !.flag = reminder.flag \cup {m.sid}]
        <5>1. reminder'.flag = reminder.flag \cup {m.sid}
          BY <4>1, <4>2 DEF Run
        <5>2. queued'[m.sid] > 0 /\ reminder.flag \subseteq Sessions
          BY <1>1, <3>1, <4>1, <4>2 DEF Run
        <5> QED BY <3>2, <5>1, <5>2 DEF FlagsFollow
      <4>3. CASE reminder' = [reminder EXCEPT !.users = reminder.users \ {m}]
        <5>1. reminder'.flag = reminder.flag /\ reminder.flag \subseteq Sessions
          BY <4>1, <4>3 DEF Run
        <5> QED BY <3>2, <5>1 DEF FlagsFollow
      <4> QED BY <2>1, <4>2, <4>3 DEF ReminderSend
    <3> QED BY <2>1, <3>2, <3>3 DEF ReminderSend, tables, FlagsFollow, FlagMeansQueued
  <2>2. ASSUME NEW s \in Sessions, ReminderFlag(s) PROVE FlagsFollow'
    <3>1. queued[s] > 0
      BY <2>2 DEF ReminderFlag, FlagsFollow
    <3>2. \A t \in Sessions :
            session'[t].reminderEmailSent => t = s \/ session[t].reminderEmailSent
      BY <1>1, <2>2 DEF ReminderFlag, updateReminderEmailFlag, Put, TypeOK
    <3>3. reminder'.flag \subseteq reminder.flag
      BY <1>1, <2>2 DEF ReminderFlag, Run
    <3> QED BY <2>2, <3>1, <3>2, <3>3 DEF ReminderFlag, FlagsFollow, FlagMeansQueued
  <2>3. CASE \/ ReminderQuery \/ ReminderEnds \/ ReminderFails
             \/ \E s \in Sessions : ReminderFetch(s)
             \/ \E m \in Reminder : ReminderEmail(m) \/ ReminderEmailFails(m)
    <3>1. UNCHANGED <<session, queued>>
      BY <2>3 DEF ReminderQuery, ReminderEnds, ReminderFails, ReminderFetch, ReminderEmail,
                  ReminderEmailFails, vars, tables
    <3>2. reminder'.flag \subseteq reminder.flag
      <4>1. PICK run \in Run : run = reminder
        BY <1>1
      <4>2. CASE ReminderQuery
        <5>1. reminder'.flag = {}
          BY <4>2 DEF ReminderQuery, NoRun
        <5> QED BY <5>1
      <4>3. CASE ReminderEnds \/ ReminderFails
        BY <4>3 DEF ReminderEnds, ReminderFails, NoRun
      <4>4. ASSUME NEW s \in Sessions, ReminderFetch(s) PROVE reminder'.flag = reminder.flag
        BY <4>1, <4>4 DEF ReminderFetch, Fetched, Run
      <4>5. ASSUME NEW m \in Reminder, ReminderEmail(m) \/ ReminderEmailFails(m)
            PROVE  reminder' = reminder
        BY <4>5 DEF ReminderEmail, ReminderEmailFails
      <4> QED BY <2>3, <4>2, <4>3, <4>4, <4>5
    <3> QED BY <3>1, <3>2 DEF FlagsFollow, FlagMeansQueued
  <2> QED BY <1>5, <2>1, <2>2, <2>3 DEF ReminderNext
<1> QED BY <1>3, <1>4, <1>5 DEF SystemNext

\* A row says that the user was reminded only if a reminder was put on the queue: the
\* flag is written after the send, and every other write keeps or clears it.
THEOREM FlagsAreTrue == SystemSpec => []FlagMeansQueued
<1>1. SystemInit => FlagsFollow
  BY DEF SystemInit, Init, ServiceInit, ReminderInit, NoRun, NoRow, FlagsFollow, FlagMeansQueued
<1>2. SystemSpec => []FlagsFollow
  BY <1>1, SystemAlwaysBacked, FlagsFollowStep, PTL DEF SystemSpec
<1>3. FlagsFollow => FlagMeansQueued
  BY DEF FlagsFollow
<1> QED BY <1>2, <1>3, PTL

-----------------------------------------------------------------------------
(* A letter is posted to the user who asked for it.                        *)

\* A step of the journey keeps the letters and the owners of the Yoti sessions, and
\* starts a letter only for the owner of its Yoti session.
LettersGrow ==
  /\ letters \subseteq letters'
  /\ \A y \in YotiSessions : yoti[y].owner # None => yoti'[y].owner = yoti[y].owner
  /\ \A l \in letters' \ letters : yoti'[l.yotiSessionId].owner = l.sid

LEMMA NothingStarted == UNCHANGED <<yoti, letters>> => LettersGrow
BY DEF LettersGrow

LEMMA ApiGrowsLetters ==
  ASSUME Backed, ApiNext
  PROVE  LettersGrow
<1>1. PICK i \in Invocations :
        \/ \E s \in Sessions :
             \/ SessionCreate(i, s) \/ AuthorizationRead(i, s) \/ AbortRead(i, s)
             \/ \E pref \in PdfPreferences : DocSelectRead(i, s, pref)
        \/ SessionSavePerson(i)
        \/ DocSelectPreference(i) \/ DocSelectLetter(i) \/ DocSelectYotiId(i)
        \/ DocSelectTtl(i) \/ DocSelectDocument(i)
        \/ \E y \in YotiSessions : DocSelectYoti(i, y)
        \/ \E c \in Codes : AuthorizationCode(i, c) \/ TokenRead(i, c)
        \/ TokenUpdate(i)
        \/ AbortUpdate(i)
  BY DEF ApiNext
<1>2. ASSUME NEW y \in YotiSessions, DocSelectYoti(i, y) PROVE LettersGrow
  <2>1. UNCHANGED letters /\ yoti[y].owner = None
    BY <1>2 DEF DocSelectYoti
  <2>2. \A z \in YotiSessions : z # y => yoti'[z] = yoti[z]
    BY <1>2 DEF DocSelectYoti, Backed, TypeOK
  <2> QED BY <2>1, <2>2 DEF LettersGrow
<1>3. CASE DocSelectLetter(i)
  <2>1. yoti[invocation[i].yotiSessionId].owner = invocation[i].sid
    BY <1>3 DEF DocSelectLetter, At, Backed, InvocationBacked
  <2> QED BY <1>3, <2>1 DEF DocSelectLetter, LettersGrow
<1>4. CASE \/ \E s \in Sessions :
                \/ SessionCreate(i, s) \/ AuthorizationRead(i, s) \/ AbortRead(i, s)
                \/ \E pref \in PdfPreferences : DocSelectRead(i, s, pref)
           \/ SessionSavePerson(i) \/ DocSelectPreference(i) \/ DocSelectYotiId(i)
           \/ DocSelectTtl(i) \/ DocSelectDocument(i)
           \/ \E c \in Codes : AuthorizationCode(i, c) \/ TokenRead(i, c)
           \/ TokenUpdate(i) \/ AbortUpdate(i)
  <2>1. UNCHANGED <<yoti, letters>>
    BY <1>4 DEF SessionCreate, AuthorizationRead, AbortRead, DocSelectRead, SessionSavePerson,
                DocSelectPreference, DocSelectYotiId, DocSelectTtl, DocSelectDocument,
                AuthorizationCode, TokenRead, TokenUpdate, AbortUpdate, yotiVars
  <2> QED BY <2>1, NothingStarted
<1> QED BY <1>1, <1>2, <1>3, <1>4

LEMMA CallbackGrowsLetters ==
  ASSUME Backed, CallbackNext
  PROVE  LettersGrow
<1>1. ASSUME NEW y \in YotiSessions, NEW report \in Reports, YotiReports(y, report)
      PROVE  LettersGrow
  <2>1. UNCHANGED letters
    BY <1>1 DEF YotiReports
  <2>2. \A z \in YotiSessions : yoti'[z].owner = yoti[z].owner
    BY <1>1 DEF YotiReports, Backed, TypeOK
  <2>3. letters \subseteq letters' /\ letters' \ letters = {}
    BY <2>1
  <2> QED BY <2>2, <2>3 DEF LettersGrow
<1>2. \/ UNCHANGED <<yoti, letters>>
      \/ \E y \in YotiSessions : \E report \in Reports : YotiReports(y, report)
  BY DEF CallbackNext, CallbackStarts, CallbackLost, StartExecutionFails, FirstBranchVisit,
         ThankYouAudit, ThankYouUpdate, CompletionAnswerUnusable, CompletionWrongState,
         CompletionAnswerUsable, CompletionNoCredential, CompletionCredential,
         CompletionUpdate, CompletionThrows, yotiVars
<1> QED BY <1>1, <1>2, NothingStarted

LEMMA JourneyGrowsLetters ==
  ASSUME Backed, [Next]_vars
  PROVE  LettersGrow
<1>1. CASE ServiceNext \/ ExpiryNext \/ UNCHANGED vars
  <2>1. UNCHANGED <<yoti, letters>>
    BY <1>1 DEF ServiceNext, TimeToLive, Propagate, InvocationFails, Tick, ExpiryNext,
                ExpiryQuery, ExpiryNotify, ExpiryMark, ExpiryFails, yotiVars, vars
  <2> QED BY <2>1, NothingStarted
<1> QED BY <1>1, ApiGrowsLetters, CallbackGrowsLetters DEF Next

PrintedFor(s) == \E l \in letters : l.sid = s /\ l.pdfPreference = PrintedLetter

\* Why PostedWasAskedFor holds. GenerateYotiLetter takes its choice by the letter it was
\* started for, GeneratePrintedLetter writes under the Yoti session of the row, and both
\* Yoti sessions belong to the same session.
AskedFor ==
  /\ \A l \in letters : yoti[l.yotiSessionId].owner = l.sid
  /\ \A y \in YotiSessions : execution[y].at = "print" => PrintedFor(yoti[y].owner)
  /\ \A y \in YotiSessions :
       [folder |-> "merged", yotiSessionId |-> y] \in bucket => PrintedFor(yoti[y].owner)
  /\ PostedWasAskedFor

\* What was printed stays asked for while letters and owners stay.
LEMMA AskedForStays ==
  ASSUME SystemBacked, AskedFor, LettersGrow, UNCHANGED letterVars
  PROVE  AskedFor'
<1>1. \A l \in letters : l.yotiSessionId \in YotiSessions /\ l.sid \in Sessions /\ l.sid # None
  BY NoneAssumption DEF SystemBacked, Backed, TypeOK, Letter
<1>2. \A s : PrintedFor(s) => PrintedFor(s)' /\ s # None
  BY <1>1 DEF PrintedFor, LettersGrow
<1>3. \A l \in letters' : yoti'[l.yotiSessionId].owner = l.sid
  BY <1>1 DEF LettersGrow, AskedFor
<1>4. \A y \in YotiSessions : PrintedFor(yoti[y].owner) => PrintedFor(yoti[y].owner)'
  BY <1>2 DEF LettersGrow, PrintedFor
<1>5. PostedWasAskedFor'
  BY DEF AskedFor, PostedWasAskedFor, LettersGrow, letterVars
<1> QED BY <1>3, <1>4, <1>5 DEF AskedFor, letterVars

\* The Yoti session a read of a letter's session row names belongs to that session.
LEMMA RowOfItsOwner ==
  ASSUME Backed, NEW s \in Sessions, NEW row \in Visible(s), row.yotiSessionId \in YotiSessions
  PROVE  yoti[row.yotiSessionId].owner = s
BY NoneAssumption DEF Backed, RowBacked

LEMMA LetterAskedFor ==
  ASSUME SystemBacked, AskedFor, LetterNext
  PROVE  AskedFor'
<1>1. PICK l \in letters :
        \/ GenerateYotiLetter(l) \/ GeneratePrintedLetter(l) \/ LetterNotGenerated(l)
        \/ SendLetter(l) \/ SendEmail(l) \/ InstructionsNotSent(l)
  BY DEF LetterNext
<1>2. /\ UNCHANGED <<yoti, letters>>
      /\ \A s : PrintedFor(s)' <=> PrintedFor(s)
  BY <1>1 DEF GenerateYotiLetter, GeneratePrintedLetter, LetterNotGenerated, SendLetter,
              SendEmail, InstructionsNotSent, others, yotiVars, PrintedFor
<1>3. /\ l.yotiSessionId \in YotiSessions /\ l.sid \in Sessions
      /\ yoti[l.yotiSessionId].owner = l.sid
      /\ execution \in [YotiSessions -> Execution]
  BY DEF SystemBacked, Backed, TypeOK, Letter, LetterTypeOK, AskedFor
<1>4. ASSUME NEW at, Move(l, at), at = "print" => PrintedFor(l.sid)
      PROVE  \A y \in YotiSessions : execution'[y].at = "print" => PrintedFor(yoti[y].owner)
  <2>1. PICK e \in Execution : e = execution[l.yotiSessionId]
    BY <1>3
  <2>2. execution' = [execution EXCEPT ![l.yotiSessionId] = [e EXCEPT !.at = at]]
    BY <1>4, <2>1 DEF Move
  <2>3. execution'[l.yotiSessionId].at = at
    BY <1>3, <2>2 DEF Execution
  <2>4. \A y \in YotiSessions : y # l.yotiSessionId => execution'[y] = execution[y]
    BY <1>3, <2>2
  <2> QED BY <1>3, <1>4, <2>3, <2>4 DEF AskedFor
<1>5. CASE GenerateYotiLetter(l)
  <2>1. LetterChoice(l.pdfPreference) = "print" => PrintedFor(l.sid)
    BY DEF LetterChoice, PrintedFor
  <2>2. \A y \in YotiSessions : execution'[y].at = "print" => PrintedFor(yoti[y].owner)
    BY <1>4, <1>5, <2>1 DEF GenerateYotiLetter, MoveOrCrash
  <2>3. \A y : [folder |-> "merged", yotiSessionId |-> y] \in bucket' =>
               [folder |-> "merged", yotiSessionId |-> y] \in bucket
    BY <1>5 DEF GenerateYotiLetter
  <2>4. UNCHANGED sent
    BY <1>5 DEF GenerateYotiLetter
  <2> QED BY <1>2, <2>2, <2>3, <2>4 DEF AskedFor, PostedWasAskedFor
<1>6. CASE GeneratePrintedLetter(l)
  <2>1. \A y \in YotiSessions : execution'[y].at = "print" => PrintedFor(yoti[y].owner)
    BY <1>4, <1>6 DEF GeneratePrintedLetter, MoveOrCrash
  <2>2. PrintedFor(l.sid)
    BY <1>3, <1>6 DEF GeneratePrintedLetter, Stands, AskedFor
  <2>3. PICK row \in Visible(l.sid) :
          /\ [folder |-> "yoti", yotiSessionId |-> row.yotiSessionId] \in bucket
          /\ bucket' = bucket \cup {[folder |-> "merged", yotiSessionId |-> row.yotiSessionId]}
    BY <1>6 DEF GeneratePrintedLetter
  <2>4. row.yotiSessionId \in YotiSessions
    BY <2>3 DEF SystemBacked, LetterTypeOK, Pdf
  <2>5. yoti[row.yotiSessionId].owner = l.sid
    BY <1>3, <2>4, RowOfItsOwner DEF SystemBacked
  <2>6. \A y \in YotiSessions :
          [folder |-> "merged", yotiSessionId |-> y] \in bucket' => PrintedFor(yoti[y].owner)
    BY <2>2, <2>3, <2>5 DEF AskedFor
  <2>7. UNCHANGED sent
    BY <1>6 DEF GeneratePrintedLetter
  <2> QED BY <1>2, <2>1, <2>6, <2>7 DEF AskedFor, PostedWasAskedFor
<1>7. CASE LetterNotGenerated(l) \/ InstructionsNotSent(l)
  <2>1. \A y \in YotiSessions : execution'[y].at = "print" => PrintedFor(yoti[y].owner)
    BY <1>4, <1>7 DEF LetterNotGenerated, InstructionsNotSent
  <2>2. UNCHANGED <<bucket, sent>>
    BY <1>7 DEF LetterNotGenerated, InstructionsNotSent
  <2> QED BY <1>2, <2>1, <2>2 DEF AskedFor, PostedWasAskedFor
<1>8. CASE SendLetter(l)
  <2>1. PICK row \in Visible(l.sid) :
          /\ \/ Move(l, "failed")
             \/ execution' = [execution EXCEPT ![l.yotiSessionId] =
                                [at |-> "email", yotiSessionId |-> row.yotiSessionId]]
          /\ \/ ToBePosted(l, row.yotiSessionId)
                  /\ Notify("letter", l.sid, row.yotiSessionId)
             \/ UNCHANGED sent
    BY <1>8 DEF SendLetter
  <2>2. \A y \in YotiSessions : execution'[y].at = "print" => PrintedFor(yoti[y].owner)
    <3>1. CASE Move(l, "failed")
      BY <1>4, <3>1
    <3>2. CASE execution' = [execution EXCEPT ![l.yotiSessionId] =
                               [at |-> "email", yotiSessionId |-> row.yotiSessionId]]
      <4>1. /\ execution'[l.yotiSessionId].at = "email"
            /\ \A y \in YotiSessions : y # l.yotiSessionId => execution'[y] = execution[y]
        BY <1>3, <3>2
      <4> QED BY <4>1 DEF AskedFor
    <3> QED BY <2>1, <3>1, <3>2
  <2>3. UNCHANGED bucket
    BY <1>8 DEF SendLetter
  <2>4. PostedWasAskedFor'
    <3>1. CASE UNCHANGED sent
      BY <1>2, <3>1 DEF AskedFor, PostedWasAskedFor
    <3>2. CASE ToBePosted(l, row.yotiSessionId) /\ Notify("letter", l.sid, row.yotiSessionId)
      <4>1. row.yotiSessionId \in YotiSessions
        BY <3>2 DEF ToBePosted, SystemBacked, LetterTypeOK, Pdf
      <4>2. yoti[row.yotiSessionId].owner = l.sid
        BY <1>3, <4>1, RowOfItsOwner DEF SystemBacked
      <4>3. PrintedFor(l.sid)
        BY <3>2, <4>1, <4>2 DEF ToBePosted, AskedFor
      <4>4. \A m \in sent' : m \in sent \/ m.sid = l.sid
        BY <3>2 DEF Notify
      <4> QED BY <1>2, <4>3, <4>4 DEF AskedFor, PostedWasAskedFor, PrintedFor
    <3> QED BY <2>1, <3>1, <3>2
  <2> QED BY <1>2, <2>2, <2>3, <2>4 DEF AskedFor
<1>9. CASE SendEmail(l)
  <2>1. \A y \in YotiSessions : execution'[y].at = "print" => PrintedFor(yoti[y].owner)
    BY <1>4, <1>9 DEF SendEmail
  <2>2. UNCHANGED bucket /\ \A m \in sent' : m \in sent \/ m.kind = "email"
    BY <1>9 DEF SendEmail, Notify
  <2> QED BY <1>2, <2>1, <2>2 DEF AskedFor, PostedWasAskedFor
<1> QED BY <1>1, <1>5, <1>6, <1>7, <1>8, <1>9

LEMMA AskedForStep == SystemBacked /\ AskedFor /\ [SystemNext]_systemVars => AskedFor'
<1> SUFFICES ASSUME SystemBacked, AskedFor, [SystemNext]_systemVars PROVE AskedFor'
  OBVIOUS
<1>1. CASE (Next /\ UNCHANGED <<letterVars, reminderVars>>) \/ UNCHANGED systemVars
  <2>1. [Next]_vars /\ UNCHANGED letterVars
    BY <1>1 DEF systemVars
  <2> QED BY <2>1, JourneyGrowsLetters, AskedForStays DEF SystemBacked
<1>2. CASE LetterNext /\ UNCHANGED reminderVars
  BY <1>2, LetterAskedFor
<1>3. CASE ReminderNext /\ UNCHANGED letterVars
  <2>1. UNCHANGED <<yoti, letters>>
    BY <1>3 DEF ReminderNext, ReminderQuery, ReminderFetch, ReminderSend, ReminderFlag,
                ReminderEnds, ReminderFails, ReminderEmail, ReminderEmailFails, vars, yotiVars
  <2> QED BY <1>3, <2>1, NothingStarted, AskedForStays
<1> QED BY <1>1, <1>2, <1>3 DEF SystemNext

LEMMA SystemAsksFor == SystemSpec => [](SystemBacked /\ AskedFor)
<1>1. SystemInit => AskedFor
  BY DEF SystemInit, Init, ServiceInit, LetterInit, AskedFor, PostedWasAskedFor
<1> QED BY <1>1, SystemAlwaysBacked, AskedForStep, PTL DEF SystemSpec

\* A letter goes only to a user one of whose Yoti sessions was opened with the printed
\* letter as the preference, whichever Yoti session their row names when it is merged
\* and whatever preference is saved meanwhile.
THEOREM PostedLettersWereAskedFor == SystemSpec => []PostedWasAskedFor
<1>1. AskedFor => PostedWasAskedFor
  BY DEF AskedFor
<1> QED BY <1>1, SystemAsksFor, PTL

-----------------------------------------------------------------------------
(* F2fSystem implements InstructionsPromise.                               *)

TellStep == [Told!TellNext]_(Told!tellVars)

Owners == [y \in YotiSessions |-> yoti[y].owner]

Tellings == sent \cup {[kind |-> "reminder", sid |-> m.sid,
                        yotiSessionId |-> m.yotiSessionId] : m \in reminded}

\* A step that opens no Yoti session, starts no letter, queues no reminder and sends
\* the user nothing is a stuttering step of the promise.
LEMMA TellStutters ==
  ASSUME Owners' = Owners, UNCHANGED <<letters, queued, sent, reminded>>
  PROVE  TellStep
BY DEF TellStep, Told!tellVars, Owners

LEMMA NothingTold ==
  ASSUME UNCHANGED <<yoti, letters, queued, sent, reminded>>
  PROVE  TellStep
BY TellStutters DEF Owners

LEMMA Telling ==
  ASSUME NEW kind \in {"email", "letter", "reminder"}, NEW s \in Sessions,
         NEW y \in YotiSessions, yoti[y].owner = s, HasLetter(y),
         kind = "letter" => PrintedFor(s), kind = "reminder" => queued[s] > 0,
         UNCHANGED <<yoti, letters, queued>>,
         Tellings' = Tellings \cup {[kind |-> kind, sid |-> s, yotiSessionId |-> y]}
  PROVE  TellStep
<1>1. y \in {letter.yotiSessionId : letter \in letters}
  BY DEF HasLetter
<1>2. kind = "letter" =>
        s \in {letter.sid : letter \in {l \in letters : l.pdfPreference = PrintedLetter}}
  BY DEF PrintedFor
<1>3. Told!Tell(kind, s, y)
  BY <1>1, <1>2 DEF Told!Tell, Tellings
<1> QED BY <1>3 DEF TellStep, Told!TellNext

LEMMA OpenTells ==
  ASSUME Backed, NEW i \in Invocations, NEW y \in YotiSessions, DocSelectYoti(i, y),
         UNCHANGED <<letterVars, reminderVars>>
  PROVE  TellStep
<1>1. PICK s \in Sessions : s = invocation[i].sid
  BY DEF DocSelectYoti, At, Backed, InvocationBacked, InvocationTyped
<1>2. Owners' = [Owners EXCEPT ![y] = s]
  BY <1>1 DEF DocSelectYoti, Backed, TypeOK, Owners
<1>3. Told!Open(s, y)
  BY <1>2 DEF Told!Open, DocSelectYoti, Owners, letterVars, reminderVars
<1> QED BY <1>3 DEF TellStep, Told!TellNext

LEMMA InstructTells ==
  ASSUME Backed, NEW i \in Invocations, DocSelectLetter(i),
         UNCHANGED <<letterVars, reminderVars>>
  PROVE  TellStep
<1>1. PICK s \in Sessions, y \in YotiSessions :
        s = invocation[i].sid /\ y = invocation[i].yotiSessionId /\ yoti[y].owner = s
  BY DEF DocSelectLetter, At, Backed, InvocationBacked, InvocationTyped
<1>2. PICK new : /\ new.sid = s /\ new.yotiSessionId = y
                 /\ letters' = letters \cup {new}
  BY <1>1 DEF DocSelectLetter
<1>3. {letter.yotiSessionId : letter \in letters}'
        = {letter.yotiSessionId : letter \in letters} \cup {y}
  BY <1>2
<1>4. {letter.sid : letter \in {l \in letters : l.pdfPreference = PrintedLetter}}'
        \in {{letter.sid : letter \in {l \in letters : l.pdfPreference = PrintedLetter}},
             {letter.sid : letter \in {l \in letters : l.pdfPreference = PrintedLetter}}
               \cup {s}}
  <2>1. CASE new.pdfPreference = PrintedLetter
    BY <1>2, <2>1
  <2>2. CASE new.pdfPreference # PrintedLetter
    BY <1>2, <2>2
  <2> QED BY <2>1, <2>2
<1>5. Told!Instruct(s, y)
  BY <1>1, <1>3, <1>4 DEF Told!Instruct, DocSelectLetter, letterVars, reminderVars
<1> QED BY <1>5 DEF TellStep, Told!TellNext

LEMMA JourneyTells ==
  ASSUME Backed, [Next]_vars, UNCHANGED <<letterVars, reminderVars>>
  PROVE  TellStep
<1>1. CASE ServiceNext \/ ExpiryNext \/ UNCHANGED vars
  <2>1. UNCHANGED <<yoti, letters>>
    BY <1>1 DEF ServiceNext, TimeToLive, Propagate, InvocationFails, Tick, ExpiryNext,
                ExpiryQuery, ExpiryNotify, ExpiryMark, ExpiryFails, yotiVars, vars
  <2> QED BY <2>1, NothingTold DEF letterVars, reminderVars
<1>2. CASE ApiNext
  <2>1. PICK i \in Invocations :
          \/ \E y \in YotiSessions : DocSelectYoti(i, y)
          \/ DocSelectLetter(i)
          \/ UNCHANGED <<yoti, letters>>
    BY <1>2 DEF ApiNext, SessionCreate, AuthorizationRead, AbortRead, DocSelectRead,
                SessionSavePerson, DocSelectPreference, DocSelectYotiId, DocSelectTtl,
                DocSelectDocument, AuthorizationCode, TokenRead, TokenUpdate, AbortUpdate,
                yotiVars
  <2> QED BY <2>1, OpenTells, InstructTells, NothingTold DEF letterVars, reminderVars
<1>3. CASE CallbackNext
  <2>1. \/ UNCHANGED <<yoti, letters>>
        \/ \E y \in YotiSessions : \E report \in Reports : YotiReports(y, report)
    BY <1>3 DEF CallbackNext, CallbackStarts, CallbackLost, StartExecutionFails,
                FirstBranchVisit, ThankYouAudit, ThankYouUpdate, CompletionAnswerUnusable,
                CompletionWrongState, CompletionAnswerUsable, CompletionNoCredential,
                CompletionCredential, CompletionUpdate, CompletionThrows, yotiVars
  <2>2. ASSUME NEW y \in YotiSessions, NEW report \in Reports, YotiReports(y, report)
        PROVE  UNCHANGED letters /\ Owners' = Owners
    BY <2>2 DEF YotiReports, Backed, TypeOK, Owners
  <2> QED BY <2>1, <2>2, NothingTold, TellStutters DEF letterVars, reminderVars
<1> QED BY <1>1, <1>2, <1>3 DEF Next

\* y, if there is one, was opened for s and the letter with its barcode was started.
BarcodeOf(s, y) == y # None => yoti[y].owner = s /\ HasLetter(y)

\* Why the barcodes reach their own users: whatever an execution or a run of the schedule
\* has read and the queue holds is still true when it is sent.
ToldFollow ==
  /\ \A y \in YotiSessions : execution[y].at = "email" =>
       yoti[y].owner # None /\ BarcodeOf(yoti[y].owner, execution[y].yotiSessionId)
  /\ \A s \in reminder.fetch : LetterStarted(s)
  /\ \A m \in reminder.users : LetterStarted(m.sid) /\ BarcodeOf(m.sid, m.yotiSessionId)
  /\ \A m \in Reminder : notifyQueue[m] > 0 =>
       queued[m.sid] > 0 /\ BarcodeOf(m.sid, m.yotiSessionId)

\* A version of a row gives its user's own barcode.
LEMMA RowGivesBarcode ==
  ASSUME Backed, NEW s \in Sessions, NEW row \in Visible(s)
  PROVE  BarcodeOf(s, row.yotiSessionId)
BY DEF Backed, RowBacked, BarcodeOf

\* Whom the schedule finds was told where to go.
LEMMA DueWereInstructed ==
  ASSUME Backed, NEW s \in Sessions, NEW row \in Visible(s), DueForReminder(row)
  PROVE  LetterStarted(s)
BY DEF Backed, RowBacked, DueForReminder, RemindedStates, InstructedStates

LEMMA ToldFollowStays ==
  ASSUME SystemBacked, ToldFollow, LettersGrow, UNCHANGED <<letterVars, reminderVars>>
  PROVE  ToldFollow'
<1>1. ASSUME NEW s \in Sessions, LetterStarted(s) PROVE LetterStarted(s)'
  <2>1. \A l \in letters : l.yotiSessionId \in YotiSessions
    BY DEF SystemBacked, Backed, TypeOK, Letter
  <2> QED BY <1>1, <2>1, NoneAssumption DEF LetterStarted, LettersGrow
<1>2. ASSUME NEW s, s # None, NEW y \in YotiSessions \cup {None}, BarcodeOf(s, y)
      PROVE  BarcodeOf(s, y)'
  <2>1. CASE y = None
    BY <2>1 DEF BarcodeOf
  <2>2. CASE y \in YotiSessions /\ y # None
    <3>1. HasLetter(y)'
      BY <1>2, <2>2 DEF BarcodeOf, HasLetter, LettersGrow
    <3> QED BY <1>2, <2>2, <3>1 DEF BarcodeOf, LettersGrow
  <2> QED BY <2>1, <2>2
<1>3. /\ UNCHANGED <<execution, reminder, notifyQueue, queued>>
      /\ execution \in [YotiSessions -> Execution]
      /\ reminder.users \subseteq Reminder /\ reminder.fetch \subseteq Sessions
      /\ \A m \in Reminder : /\ m.sid \in Sessions /\ m.sid # None
                             /\ m.yotiSessionId \in YotiSessions \cup {None}
  BY NoneAssumption DEF SystemBacked, LetterTypeOK, ReminderTypeOK, Reminder, letterVars,
                        reminderVars
<1>4. ASSUME NEW y \in YotiSessions, execution[y].at = "email"
      PROVE  /\ yoti'[y].owner = yoti[y].owner /\ yoti[y].owner # None
             /\ BarcodeOf(yoti[y].owner, execution[y].yotiSessionId)'
  <2>1. PICK s : s = yoti[y].owner
    OBVIOUS
  <2>2. PICK z \in YotiSessions \cup {None} : z = execution[y].yotiSessionId
    BY <1>3 DEF Execution
  <2>3. s # None /\ BarcodeOf(s, z) /\ yoti'[y].owner = s /\ execution'[y].yotiSessionId = z
    BY <1>3, <1>4, <2>1, <2>2 DEF ToldFollow, LettersGrow
  <2>4. BarcodeOf(s, z)'
    BY <1>2, <2>3
  <2> QED BY <2>1, <2>3, <2>4 DEF BarcodeOf
<1>5. \A m \in Reminder : BarcodeOf(m.sid, m.yotiSessionId)
                            => BarcodeOf(m.sid, m.yotiSessionId)'
  BY <1>2, <1>3
<1> QED BY <1>1, <1>3, <1>4, <1>5 DEF ToldFollow

\* The steps of an execution: only SendToGovNotify goes on to the e-mail, with the Yoti
\* session of the row it read.
LEMMA LetterFollows ==
  ASSUME SystemBacked, AskedFor, ToldFollow, LetterNext, UNCHANGED reminderVars
  PROVE  ToldFollow'
<1>1. PICK l \in letters :
        \/ GenerateYotiLetter(l) \/ GeneratePrintedLetter(l) \/ LetterNotGenerated(l)
        \/ SendLetter(l) \/ SendEmail(l) \/ InstructionsNotSent(l)
  BY DEF LetterNext
<1>2. UNCHANGED <<yoti, letters, reminder, notifyQueue, queued>>
  BY <1>1 DEF GenerateYotiLetter, GeneratePrintedLetter, LetterNotGenerated, SendLetter,
              SendEmail, InstructionsNotSent, others, yotiVars, reminderVars
<1>3. /\ l.yotiSessionId \in YotiSessions /\ l.sid \in Sessions
      /\ yoti[l.yotiSessionId].owner = l.sid
      /\ execution \in [YotiSessions -> Execution]
  BY DEF SystemBacked, Backed, TypeOK, Letter, LetterTypeOK, AskedFor
<1>4. \/ \E at \in {"send", "print", "done", "failed"} : Move(l, at)
      \/ \E row \in Visible(l.sid) :
           execution' = [execution EXCEPT ![l.yotiSessionId] =
                           [at |-> "email", yotiSessionId |-> row.yotiSessionId]]
  <2>1. LetterChoice(l.pdfPreference) \in {"send", "print", "failed"}
    BY PreferenceAssumption DEF LetterChoice
  <2> QED BY <1>1, <2>1 DEF GenerateYotiLetter, GeneratePrintedLetter, LetterNotGenerated,
                            SendLetter, SendEmail, InstructionsNotSent, MoveOrCrash
<1>5. ASSUME NEW y \in YotiSessions, execution'[y].at = "email"
      PROVE  yoti[y].owner # None /\ BarcodeOf(yoti[y].owner, execution'[y].yotiSessionId)
  <2>1. ASSUME NEW at \in {"send", "print", "done", "failed"}, Move(l, at)
        PROVE  execution'[y] = execution[y]
    <3>1. PICK e \in Execution : e = execution[l.yotiSessionId]
      BY <1>3
    <3>2. execution' = [execution EXCEPT ![l.yotiSessionId] = [e EXCEPT !.at = at]]
      BY <2>1, <3>1 DEF Move
    <3>3. y # l.yotiSessionId
      BY <1>3, <1>5, <3>2 DEF Execution
    <3> QED BY <1>3, <3>2, <3>3
  <2>2. ASSUME NEW row \in Visible(l.sid),
               execution' = [execution EXCEPT ![l.yotiSessionId] =
                               [at |-> "email", yotiSessionId |-> row.yotiSessionId]]
        PROVE  \/ execution'[y] = execution[y]
               \/ y = l.yotiSessionId /\ execution'[y].yotiSessionId = row.yotiSessionId
    BY <1>3, <2>2
  <2>3. CASE execution'[y] = execution[y]
    BY <1>5, <2>3 DEF ToldFollow
  <2>4. ASSUME NEW row \in Visible(l.sid), y = l.yotiSessionId,
               execution'[y].yotiSessionId = row.yotiSessionId
        PROVE  yoti[y].owner # None /\ BarcodeOf(yoti[y].owner, execution'[y].yotiSessionId)
    BY <1>3, <2>4, RowGivesBarcode, NoneAssumption DEF SystemBacked
  <2> QED BY <1>4, <2>1, <2>2, <2>3, <2>4
<1> QED BY <1>2, <1>5 DEF ToldFollow, BarcodeOf, HasLetter, LetterStarted

LEMMA LetterTells ==
  ASSUME SystemBacked, AskedFor, ToldFollow, LetterNext, UNCHANGED reminderVars
  PROVE  TellStep
<1>1. PICK l \in letters :
        \/ GenerateYotiLetter(l) \/ GeneratePrintedLetter(l) \/ LetterNotGenerated(l)
        \/ SendLetter(l) \/ SendEmail(l) \/ InstructionsNotSent(l)
  BY DEF LetterNext
<1>2. UNCHANGED <<yoti, letters, queued, reminded>>
  BY <1>1 DEF GenerateYotiLetter, GeneratePrintedLetter, LetterNotGenerated, SendLetter,
              SendEmail, InstructionsNotSent, others, yotiVars, reminderVars
<1>3. /\ l.yotiSessionId \in YotiSessions /\ l.sid \in Sessions
      /\ yoti[l.yotiSessionId].owner = l.sid
  BY DEF SystemBacked, Backed, TypeOK, Letter, AskedFor
<1>4. ASSUME NEW kind \in {"email", "letter"}, NEW y \in YotiSessions,
             Notify(kind, l.sid, y), BarcodeOf(l.sid, y),
             kind = "letter" => PrintedFor(l.sid)
      PROVE  TellStep
  <2>1. yoti[y].owner = l.sid /\ HasLetter(y)
    BY <1>4, NoneAssumption DEF BarcodeOf
  <2>2. Tellings' = Tellings \cup {[kind |-> kind, sid |-> l.sid, yotiSessionId |-> y]}
    BY <1>2, <1>4 DEF Notify, Tellings
  <2> QED BY <1>2, <1>3, <1>4, <2>1, <2>2, Telling
<1>5. CASE UNCHANGED sent
  BY <1>2, <1>5, NothingTold
<1>6. ASSUME NEW row \in Visible(l.sid), ToBePosted(l, row.yotiSessionId),
             Notify("letter", l.sid, row.yotiSessionId)
      PROVE  TellStep
  <2>1. row.yotiSessionId \in YotiSessions
    BY <1>6 DEF ToBePosted, SystemBacked, LetterTypeOK, Pdf
  <2>2. BarcodeOf(l.sid, row.yotiSessionId)
    BY <1>3, RowGivesBarcode DEF SystemBacked
  <2>3. yoti[row.yotiSessionId].owner = l.sid
    BY <1>3, <2>1, RowOfItsOwner DEF SystemBacked
  <2>4. PrintedFor(l.sid)
    BY <1>6, <2>1, <2>3 DEF ToBePosted, AskedFor
  <2> QED BY <1>4, <1>6, <2>1, <2>2, <2>4
<1>7. CASE SendEmail(l)
  <2>1. PICK y : y = execution[l.yotiSessionId].yotiSessionId
    OBVIOUS
  <2>2. /\ execution[l.yotiSessionId].at = "email" /\ Notify("email", l.sid, y)
        /\ [folder |-> "yoti", yotiSessionId |-> y] \in bucket
    BY <1>7, <2>1 DEF SendEmail, Stands
  <2>3. y \in YotiSessions
    BY <2>2 DEF SystemBacked, LetterTypeOK, Pdf
  <2>4. BarcodeOf(l.sid, y)
    BY <1>3, <2>1, <2>2 DEF ToldFollow
  <2> QED BY <1>4, <2>2, <2>3, <2>4
<1>8. \/ UNCHANGED sent
      \/ SendEmail(l)
      \/ \E row \in Visible(l.sid) : /\ ToBePosted(l, row.yotiSessionId)
                                     /\ Notify("letter", l.sid, row.yotiSessionId)
  BY <1>1 DEF GenerateYotiLetter, GeneratePrintedLetter, LetterNotGenerated, SendLetter,
              InstructionsNotSent
<1> QED BY <1>5, <1>6, <1>7, <1>8

\* The steps of the schedule and of the Notify queue: it finds those who were told where
\* to go, reads their barcode, and hands it on.
LEMMA ReminderFollows ==
  ASSUME SystemBacked, ToldFollow, ReminderNext, UNCHANGED letterVars
  PROVE  ToldFollow'
<1>1. Backed /\ TypeOK
  BY DEF SystemBacked, Backed
<1>2. UNCHANGED <<yoti, letters, execution>>
  BY DEF ReminderNext, ReminderQuery, ReminderFetch, ReminderSend, ReminderFlag, ReminderEnds,
         ReminderFails, ReminderEmail, ReminderEmailFails, vars, yotiVars, letterVars
<1>3. PICK run \in Run : run = reminder
  BY DEF SystemBacked, ReminderTypeOK, Run
<1>4. /\ notifyQueue \in [Reminder -> 0 .. NotifyReceiveCount]
      /\ queued \in [Sessions -> Nat]
  BY DEF SystemBacked, ReminderTypeOK
<1>5. ASSUME \A s \in reminder'.fetch : LetterStarted(s),
             \A m \in reminder'.users : LetterStarted(m.sid) /\ BarcodeOf(m.sid, m.yotiSessionId),
             \A m \in Reminder : notifyQueue'[m] > 0 =>
               queued'[m.sid] > 0 /\ BarcodeOf(m.sid, m.yotiSessionId)
      PROVE  ToldFollow'
  BY <1>2, <1>5 DEF ToldFollow, BarcodeOf, HasLetter, LetterStarted
<1>6. ASSUME reminder'.fetch \subseteq reminder.fetch, reminder'.users \subseteq reminder.users,
             UNCHANGED <<notifyQueue, queued>>
      PROVE  ToldFollow'
  BY <1>5, <1>6 DEF ToldFollow
<1>7. ASSUME NEW m \in Reminder, reminder' = reminder, UNCHANGED queued,
             notifyQueue' = [notifyQueue EXCEPT ![m] = notifyQueue[m] - 1]
               \/ notifyQueue' = [notifyQueue EXCEPT ![m] = 0]
      PROVE  ToldFollow'
  <2>1. \A n \in Reminder : notifyQueue'[n] > 0 => notifyQueue[n] > 0
    BY <1>4, <1>7
  <2> QED BY <1>5, <1>7, <2>1 DEF ToldFollow
<1>8. CASE ReminderQuery
  <2>1. PICK batch \in SUBSET Sessions :
          /\ \A s \in batch : \E row \in Visible(s) : DueForReminder(row)
          /\ reminder' = [NoRun EXCEPT !.at = "fetch", !.fetch = batch]
    BY <1>8 DEF ReminderQuery
  <2>2. reminder'.fetch = batch /\ reminder'.users = {}
    BY <2>1 DEF NoRun
  <2>3. \A s \in batch : LetterStarted(s)
    BY <1>1, <2>1, DueWereInstructed
  <2> QED BY <1>5, <1>8, <2>2, <2>3 DEF ReminderQuery, ToldFollow
<1>9. CASE ReminderEnds \/ ReminderFails
  <2>1. reminder'.fetch = {} /\ reminder'.users = {}
    BY <1>9 DEF ReminderEnds, ReminderFails, NoRun
  <2> QED BY <1>6, <1>9, <2>1 DEF ReminderEnds, ReminderFails
<1>10. ASSUME NEW s \in Sessions, ReminderFetch(s) PROVE ToldFollow'
  <2>1. LetterStarted(s)
    BY <1>10 DEF ReminderFetch, ToldFollow
  <2>2. ASSUME NEW users \in SUBSET Reminder, NEW rejected \in BOOLEAN,
               Fetched(s, users, rejected)
        PROVE  /\ reminder'.fetch = reminder.fetch \ {s}
               /\ reminder'.users = reminder.users \cup users
    BY <1>3, <2>2 DEF Fetched, Run
  <2>3. PICK users \in SUBSET Reminder :
          /\ reminder'.fetch = reminder.fetch \ {s}
          /\ reminder'.users = reminder.users \cup users
          /\ \A m \in users : m.sid = s /\ BarcodeOf(s, m.yotiSessionId)
    <3>1. CASE Fetched(s, {}, TRUE)
      <4>1. reminder'.fetch = reminder.fetch \ {s} /\ reminder'.users = reminder.users \cup {}
        BY <2>2, <3>1
      <4> WITNESS {} \in SUBSET Reminder
      <4> QED BY <4>1
    <3>2. ASSUME NEW row \in Visible(s),
                 IF SessionById(s, row) /\ person[s].claims
                   THEN Fetched(s, {[sid |-> s, yotiSessionId |-> row.yotiSessionId]}, FALSE)
                   ELSE Fetched(s, {}, Expired(row))
          PROVE  \E users \in SUBSET Reminder :
                   /\ reminder'.fetch = reminder.fetch \ {s}
                   /\ reminder'.users = reminder.users \cup users
                   /\ \A m \in users : m.sid = s /\ BarcodeOf(s, m.yotiSessionId)
      <4>1. PICK m \in Reminder : m = [sid |-> s, yotiSessionId |-> row.yotiSessionId]
        <5>1. row.yotiSessionId \in YotiSessions \cup {None}
          BY <1>1 DEF Visible, TypeOK, Row
        <5> QED BY <5>1 DEF Reminder
      <4>2. BarcodeOf(s, m.yotiSessionId) /\ m.sid = s
        BY <1>1, <4>1, RowGivesBarcode
      <4>3. Expired(row) \in BOOLEAN
        BY DEF Expired
      <4>4. {m} \in SUBSET Reminder /\ {} \in SUBSET Reminder
        OBVIOUS
      <4>5. CASE Fetched(s, {m}, FALSE)
        BY <2>2, <4>2, <4>4, <4>5
      <4>6. CASE Fetched(s, {}, Expired(row))
        BY <2>2, <4>3, <4>4, <4>6
      <4> QED BY <3>2, <4>1, <4>5, <4>6
    <3> QED BY <1>10, <3>1, <3>2 DEF ReminderFetch
  <2>4. /\ reminder'.fetch \subseteq reminder.fetch
        /\ \A m \in reminder'.users : LetterStarted(m.sid) /\ BarcodeOf(m.sid, m.yotiSessionId)
    BY <2>1, <2>3 DEF ToldFollow
  <2> QED BY <1>5, <1>10, <2>4 DEF ReminderFetch, ToldFollow
<1>11. ASSUME NEW s \in Sessions, ReminderFlag(s) PROVE ToldFollow'
  <2>1. reminder'.fetch = reminder.fetch /\ reminder'.users = reminder.users
    BY <1>3, <1>11 DEF ReminderFlag, Run
  <2> QED BY <1>6, <1>11, <2>1 DEF ReminderFlag
<1>12. ASSUME NEW m \in Reminder, ReminderSend(m) PROVE ToldFollow'
  <2>1. m.sid \in Sessions /\ BarcodeOf(m.sid, m.yotiSessionId)
    BY <1>12 DEF Reminder, ReminderSend, ToldFollow
  <2>2. reminder'.fetch = reminder.fetch /\ reminder'.users \subseteq reminder.users
    BY <1>3, <1>12 DEF ReminderSend, Run
  <2>3. CASE UNCHANGED <<notifyQueue, queued>>
    BY <1>6, <2>2, <2>3
  <2>4. CASE /\ notifyQueue' = [notifyQueue EXCEPT ![m] = NotifyReceiveCount]
             /\ queued' = [queued EXCEPT ![m.sid] = queued[m.sid] + 1]
    <3>1. \A n \in Reminder : notifyQueue'[n] > 0 => n = m \/ notifyQueue[n] > 0
      BY <1>4, <2>4
    <3>2. queued'[m.sid] > 0 /\ \A s \in Sessions : queued[s] > 0 => queued'[s] > 0
      BY <1>4, <2>1, <2>4
    <3>3. \A n \in Reminder : n.sid \in Sessions
      BY DEF Reminder
    <3> QED BY <1>5, <2>1, <2>2, <3>1, <3>2, <3>3 DEF ToldFollow
  <2> QED BY <1>12, <2>3, <2>4 DEF ReminderSend
<1>13. ASSUME NEW m \in Reminder, ReminderEmail(m) \/ ReminderEmailFails(m) PROVE ToldFollow'
  BY <1>7, <1>13 DEF ReminderEmail, ReminderEmailFails, Received
<1> QED BY <1>8, <1>9, <1>10, <1>11, <1>12, <1>13 DEF ReminderNext

LEMMA ReminderTells ==
  ASSUME SystemBacked, ToldFollow, ReminderNext, UNCHANGED letterVars
  PROVE  TellStep
<1>1. UNCHANGED <<yoti, letters, sent>>
  BY DEF ReminderNext, ReminderQuery, ReminderFetch, ReminderSend, ReminderFlag, ReminderEnds,
         ReminderFails, ReminderEmail, ReminderEmailFails, vars, yotiVars, letterVars
<1>2. queued \in [Sessions -> Nat]
  BY DEF SystemBacked, ReminderTypeOK
<1>3. CASE UNCHANGED <<queued, reminded>>
  BY <1>1, <1>3, NothingTold
<1>4. ASSUME NEW m \in Reminder, ReminderSend(m), ~UNCHANGED queued PROVE TellStep
  <2>1. m.sid \in Sessions /\ LetterStarted(m.sid)
    BY <1>4 DEF Reminder, ReminderSend, ToldFollow
  <2>2. {s \in Sessions : queued[s] > 0}' = {s \in Sessions : queued[s] > 0} \cup {m.sid}
    BY <1>2, <1>4, <2>1 DEF ReminderSend
  <2>3. \E y \in {letter.yotiSessionId : letter \in letters} : Owners[y] = m.sid
    BY <2>1 DEF LetterStarted, Owners, SystemBacked, Backed, TypeOK, Letter
  <2>4. Told!Remind(m.sid)
    BY <1>1, <1>4, <2>2, <2>3 DEF Told!Remind, Owners, ReminderSend
  <2> QED BY <2>1, <2>4 DEF TellStep, Told!TellNext
<1>5. ASSUME NEW m \in Reminder, ReminderEmail(m) PROVE TellStep
  <2>1. /\ m.sid \in Sessions /\ m.yotiSessionId \in YotiSessions
        /\ queued[m.sid] > 0 /\ BarcodeOf(m.sid, m.yotiSessionId)
    BY <1>5 DEF Reminder, ReminderEmail, ToldFollow
  <2>2. yoti[m.yotiSessionId].owner = m.sid /\ HasLetter(m.yotiSessionId)
    BY <2>1, NoneAssumption DEF BarcodeOf
  <2>3. Tellings' = Tellings \cup
          {[kind |-> "reminder", sid |-> m.sid, yotiSessionId |-> m.yotiSessionId]}
    BY <1>1, <1>5 DEF Tellings, ReminderEmail
  <2>4. UNCHANGED queued
    BY <1>5 DEF ReminderEmail
  <2> QED BY <1>1, <2>1, <2>2, <2>3, <2>4, Telling
<1>6. \/ UNCHANGED <<queued, reminded>>
      \/ \E m \in Reminder : ReminderSend(m) \/ ReminderEmail(m)
  BY DEF ReminderNext, ReminderQuery, ReminderFetch, ReminderFlag, ReminderEnds,
         ReminderFails, ReminderEmailFails
<1>7. \A m \in Reminder : ReminderSend(m) => UNCHANGED reminded
  BY DEF ReminderSend
<1> QED BY <1>3, <1>4, <1>5, <1>6, <1>7

LEMMA ToldFollowStep ==
  SystemBacked /\ AskedFor /\ ToldFollow /\ [SystemNext]_systemVars => ToldFollow' /\ TellStep
<1> SUFFICES ASSUME SystemBacked, AskedFor, ToldFollow, [SystemNext]_systemVars
             PROVE  ToldFollow' /\ TellStep
  OBVIOUS
<1>1. CASE (Next /\ UNCHANGED <<letterVars, reminderVars>>) \/ UNCHANGED systemVars
  <2>1. [Next]_vars /\ UNCHANGED <<letterVars, reminderVars>>
    BY <1>1 DEF systemVars
  <2> QED BY <2>1, JourneyGrowsLetters, ToldFollowStays, JourneyTells DEF SystemBacked
<1>2. CASE LetterNext /\ UNCHANGED reminderVars
  BY <1>2, LetterFollows, LetterTells
<1>3. CASE ReminderNext /\ UNCHANGED letterVars
  BY <1>3, ReminderFollows, ReminderTells
<1> QED BY <1>1, <1>2, <1>3 DEF SystemNext

\* Every behaviour of the system is one InstructionsPromise allows: the barcode a user is
\* sent by e-mail, by post or with a reminder is of a Yoti session opened for them whose
\* instructions were started, a letter goes to those who asked for one, and a reminder to
\* those who have instructions.
THEOREM UsersAreToldAsPromised == SystemSpec => KeepsInstructions
<1>1. SystemInit => ToldFollow
  BY DEF SystemInit, LetterInit, ReminderInit, NoRun, ToldFollow
<1>2. SystemInit => Told!TellInit
  BY DEF SystemInit, Init, ServiceInit, LetterInit, ReminderInit, Told!TellInit
<1> QED BY <1>1, <1>2, SystemAsksFor, ToldFollowStep, PTL
        DEF SystemSpec, KeepsInstructions, Told!TellSpec, TellStep

-----------------------------------------------------------------------------
(* F2fSystem implements ServicePromise.                                    *)

\* Letters and reminders open no Yoti session, issue no code, and report to TxMA and to
\* IPV Core nothing the promise speaks of.
LEMMA LettersKeepPromise ==
  ASSUME Backed, LetterNext
  PROVE  PromiseStep
<1>1. PICK l \in letters :
        \/ GenerateYotiLetter(l) \/ GeneratePrintedLetter(l) \/ LetterNotGenerated(l)
        \/ SendLetter(l) \/ SendEmail(l) \/ InstructionsNotSent(l)
  BY DEF LetterNext
<1>2. UNCHANGED <<yoti, letters, codes, toCore>>
  BY <1>1 DEF GenerateYotiLetter, GeneratePrintedLetter, LetterNotGenerated, SendLetter,
              SendEmail, InstructionsNotSent, others, yotiVars, clientVars
<1>3. \/ UNCHANGED audit
      \/ SendToTxmaOrLog(l.sid, {"F2F_YOTI_PDF_LETTER_POSTED"})
      \/ SendToTxmaOrLog(l.sid, {"F2F_YOTI_PDF_EMAILED"})
  BY <1>1 DEF GenerateYotiLetter, GeneratePrintedLetter, LetterNotGenerated, SendLetter,
              SendEmail, InstructionsNotSent
<1>4. Uploaded' = Uploaded
  <2>1. CASE UNCHANGED audit
    BY <2>1 DEF Uploaded, Audited
  <2>2. TypeOK /\ l.sid \in Sessions
    BY DEF Backed, TypeOK, Letter
  <2> QED BY <1>3, <2>1, <2>2, NoUploadReported
<1> QED BY <1>2, <1>4, QuietPromise

LEMMA RemindersKeepPromise ==
  ASSUME ReminderNext
  PROVE  PromiseStep
<1>1. UNCHANGED <<yoti, letters, codes, sinks>>
  BY DEF ReminderNext, ReminderQuery, ReminderFetch, ReminderSend, ReminderFlag, ReminderEnds,
         ReminderFails, ReminderEmail, ReminderEmailFails, vars, yotiVars, clientVars
<1> QED BY <1>1, QuietPromise DEF sinks, Uploaded, Audited

\* What JourneyKeepsPromise says of the journey alone holds with letters and reminders
\* under way, too.
THEOREM SystemKeepsPromise == SystemSpec => KeepsPromise
<1>1. SystemBacked /\ [SystemNext]_systemVars => PromiseStep
  <2> SUFFICES ASSUME SystemBacked, [SystemNext]_systemVars PROVE PromiseStep
    OBVIOUS
  <2>1. CASE (Next /\ UNCHANGED <<letterVars, reminderVars>>) \/ UNCHANGED systemVars
    <3>1. [Next]_vars
      BY <2>1 DEF systemVars
    <3> QED BY <3>1, ServiceKeepsPromise, ApiKeepsPromise, CallbacksKeepPromise,
               ExpiryKeepsPromise DEF Next, SystemBacked
  <2> QED BY <2>1, LettersKeepPromise, RemindersKeepPromise DEF SystemNext, SystemBacked
<1>2. SystemInit => Promise!PromiseInit
  BY PromiseInitially DEF SystemInit
<1> QED BY <1>1, <1>2, SystemAlwaysBacked, PTL
        DEF SystemSpec, KeepsPromise, Promise!PromiseSpec, PromiseStep
==============================================================================
