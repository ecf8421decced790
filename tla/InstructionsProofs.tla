-------------------------- MODULE InstructionsProofs --------------------------
(***************************************************************************)
(* Proofs of what F2fSystem promises of what the user is sent when reads   *)
(* see every write: the instructions are those of the Yoti session on the  *)
(* row, and a reminder is sent once. For any sets of ids and bounds.       *)
(***************************************************************************)
EXTENDS OrderlyProofs, F2fSystemProofs, F2fSystemInvariant

-----------------------------------------------------------------------------
(* What the letters and the reminders do to the journey: nothing, but for  *)
(* the flag on a row.                                                      *)

Outside ==
  /\ UNCHANGED <<now, clientVars, yotiVars, invocation, expiry, toCore>>
  /\ faults' = 0 => faults = 0
  /\ NoWrite \/ \E s \in reminder.flag : updateReminderEmailFlag(s)

LEMMA LetterOutside ==
  ASSUME Backed, LetterNext
  PROVE  Outside /\ NoWrite
<1>1. PICK l \in letters :
        \/ GenerateYotiLetter(l) \/ GeneratePrintedLetter(l) \/ LetterNotGenerated(l)
        \/ SendLetter(l) \/ SendEmail(l) \/ InstructionsNotSent(l)
  BY DEF LetterNext
<1>2. UNCHANGED others
  BY <1>1 DEF GenerateYotiLetter, GeneratePrintedLetter, LetterNotGenerated, SendLetter,
              SendEmail, InstructionsNotSent
<1>3. \/ UNCHANGED faults \/ Fault
      \/ \E s, events : SendToTxmaOrLog(s, events)
  BY <1>1 DEF GenerateYotiLetter, GeneratePrintedLetter, LetterNotGenerated, SendLetter,
              SendEmail, InstructionsNotSent, MoveOrCrash
<1>4. faults' = 0 => faults = 0
  BY <1>3, FaultCounts DEF Backed
<1> QED BY <1>2, <1>4 DEF Outside, others, tables, NoWrite

LEMMA ReminderOutside ==
  ASSUME Backed, ReminderNext
  PROVE  Outside
<1>1. UNCHANGED <<now, clientVars, yotiVars, invocation, expiry, toCore>>
  BY DEF ReminderNext, ReminderQuery, ReminderFetch, ReminderSend, ReminderFlag,
         ReminderEnds, ReminderFails, ReminderEmail, ReminderEmailFails, vars, sinks
<1>2. UNCHANGED faults \/ Fault
  BY DEF ReminderNext, ReminderQuery, ReminderFetch, ReminderSend, ReminderFlag,
         ReminderEnds, ReminderFails, ReminderEmail, ReminderEmailFails, Received, vars
<1>3. faults' = 0 => faults = 0
  BY <1>2, FaultCounts DEF Backed
<1>4. NoWrite \/ \E s \in reminder.flag : updateReminderEmailFlag(s)
  BY DEF ReminderNext, ReminderQuery, ReminderFetch, ReminderSend, ReminderFlag,
         ReminderEnds, ReminderFails, ReminderEmail, ReminderEmailFails, vars, tables, NoWrite
<1> QED BY <1>1, <1>3, <1>4 DEF Outside

\* A step of the composition is one of the journey, or leaves the journey alone.
LEMMA SystemSteps ==
  ASSUME Backed, [SystemNext]_systemVars
  PROVE  \/ [Next]_vars /\ UNCHANGED <<letterVars, reminderVars>>
         \/ Outside
<1>1. CASE (Next /\ UNCHANGED <<letterVars, reminderVars>>) \/ UNCHANGED systemVars
  BY <1>1 DEF systemVars
<1> QED BY <1>1, LetterOutside, ReminderOutside DEF SystemNext

\* Marking a user as reminded changes the flag and nothing else of the row.
LEMMA FlagWrites ==
  ASSUME TypeOK, NEW s \in Sessions, updateReminderEmailFlag(s)
  PROVE  /\ RowSays(s, session[s].yotiSessionId, session[s].authorizationCode,
                    session[s].authSessionState)
         /\ session'[s].reminderEmailSent
         /\ session'[s].createdDate = session[s].createdDate
         /\ DatesStay
<1>1. PICK old \in Row : old = session[s]
  BY DEF TypeOK
<1> DEFINE row == [old EXCEPT !.reminderEmailSent = TRUE]
<1>2. /\ row.reminderEmailSent
      /\ row.yotiSessionId = old.yotiSessionId
      /\ row.authorizationCode = old.authorizationCode
      /\ row.authSessionState = old.authSessionState
      /\ row.createdDate = old.createdDate
  BY DEF Row
<1>3. Put(s, row)
  BY <1>1 DEF updateReminderEmailFlag
<1> HIDE DEF row
<1>4. session'[s] = row
  BY <1>3, PutWrites
<1> QED BY <1>1, <1>2, <1>3, <1>4, PutSays, PutKeepsDate

\* Whom the run of the schedule is about to mark.
LEMMA Flagged ==
  ASSUME ReminderTypeOK
  PROVE  reminder.fetch \subseteq Sessions /\ reminder.flag \subseteq Sessions
         /\ reminder.users \subseteq Reminder
BY DEF ReminderTypeOK

\* Outside steps leave of every row what they do not mark.
LEMMA OutsideRows ==
  ASSUME SystemBacked, Outside, NEW s \in Sessions
  PROVE  /\ session'[s].yotiSessionId = session[s].yotiSessionId
         /\ session'[s].authSessionState = session[s].authSessionState
         /\ session'[s].createdDate = session[s].createdDate
         /\ session[s].reminderEmailSent => session'[s].reminderEmailSent
         /\ s \notin reminder.flag => session'[s] = session[s]
<1>1. CASE NoWrite
  BY <1>1 DEF NoWrite
<1>2. CASE \E t \in reminder.flag : updateReminderEmailFlag(t)
  <2>1. PICK t \in Sessions : t \in reminder.flag /\ updateReminderEmailFlag(t)
    BY <1>2, Flagged DEF SystemBacked
  <2> QED BY <2>1, FlagWrites DEF RowSays, SystemBacked, Backed
<1> QED BY <1>1, <1>2 DEF Outside

-----------------------------------------------------------------------------
(* What is known of the journey, with letters and reminders under way.     *)

LEMMA SystemStepAges == SystemBacked /\ Aged /\ [SystemNext]_systemVars => Aged'
<1> SUFFICES ASSUME SystemBacked, Aged, [SystemNext]_systemVars PROVE Aged'
  OBVIOUS
<1>1. TypeOK /\ Backed /\ now \in Nat
  BY DEF SystemBacked, Backed, TypeOK
<1>2. CASE Outside
  <2>1. DatesStay
    <3>1. CASE NoWrite
      BY <3>1, NoWriteStays
    <3>2. CASE \E s \in reminder.flag : updateReminderEmailFlag(s)
      BY <1>1, <3>2, Flagged, FlagWrites DEF SystemBacked
    <3> QED BY <1>2, <3>1, <3>2 DEF Outside
  <2>2. UNCHANGED <<now, client, expiry, toCore>>
    BY <1>2 DEF Outside, clientVars
  <2> QED BY <1>1, <2>1, <2>2, AgedStays DEF NothingNew
<1> QED BY <1>1, <1>2, SystemSteps, StepAges

\* One version of the row that is due for a reminder has a date.
LEMMA DueHasDate ==
  ASSUME Aged, NEW s \in Sessions, NEW row \in Visible(s), DueForReminder(row)
  PROVE  client[s] # "none"
BY DEF Aged, Unopened, DueForReminder

\* What a step of the schedule's run leaves of its lists.
LEMMA QueryMoves ==
  ASSUME ReminderQuery
  PROVE  /\ reminder = NoRun /\ reminder'.users = {} /\ reminder'.flag = {}
         /\ \A s \in reminder'.fetch :
              s \in Sessions /\ \E row \in Visible(s) : DueForReminder(row)
         /\ UNCHANGED <<notifyQueue, queued, reminded, cutShort, vars>>
<1>1. PICK batch \in SUBSET Sessions :
        /\ \A s \in batch : \E row \in Visible(s) : DueForReminder(row)
        /\ reminder' = [NoRun EXCEPT !.at = "fetch", !.fetch = batch]
  BY DEF ReminderQuery
<1>2. reminder'.users = {} /\ reminder'.flag = {} /\ reminder'.fetch = batch
  BY <1>1 DEF NoRun
<1> QED BY <1>1, <1>2 DEF ReminderQuery

LEMMA FetchMoves ==
  ASSUME ReminderTypeOK, NEW s \in Sessions, ReminderFetch(s)
  PROVE  /\ s \in reminder.fetch /\ reminder'.fetch = reminder.fetch \ {s}
         /\ reminder'.flag = reminder.flag
         /\ \E users : /\ reminder'.users = reminder.users \cup users
                       /\ \/ users = {}
                          \/ \E row \in Visible(s) :
                               users = {[sid |-> s, yotiSessionId |-> row.yotiSessionId]}
         /\ UNCHANGED <<notifyQueue, queued, reminded, cutShort, session>>
<1>1. PICK run \in Run : run = reminder
  BY DEF ReminderTypeOK, Run
<1>2. ASSUME NEW users, NEW rejected, Fetched(s, users, rejected)
      PROVE  /\ reminder'.fetch = reminder.fetch \ {s}
             /\ reminder'.flag = reminder.flag
             /\ reminder'.users = reminder.users \cup users
  BY <1>1, <1>2 DEF Fetched, Run
<1>3. \E users, rejected :
        /\ Fetched(s, users, rejected)
        /\ \/ users = {}
           \/ \E row \in Visible(s) :
                users = {[sid |-> s, yotiSessionId |-> row.yotiSessionId]}
  BY DEF ReminderFetch
<1> QED BY <1>2, <1>3 DEF ReminderFetch, tables

LEMMA SendMoves ==
  ASSUME ReminderTypeOK, NEW m \in Reminder, ReminderSend(m)
  PROVE  /\ m \in reminder.users /\ reminder'.users = reminder.users \ {m}
         /\ reminder'.fetch = reminder.fetch
         /\ \/ /\ queued' = [queued EXCEPT ![m.sid] = @ + 1]
               /\ notifyQueue' = [notifyQueue EXCEPT ![m] = NotifyReceiveCount]
               /\ reminder'.flag = reminder.flag \cup {m.sid}
            \/ /\ UNCHANGED <<queued, notifyQueue>> /\ Fault
               /\ reminder'.flag = reminder.flag
         /\ UNCHANGED <<reminded, cutShort, session>>
<1>1. PICK run \in Run : run = reminder
  BY DEF ReminderTypeOK, Run
<1>2. CASE reminder' = [reminder EXCEPT !.users = @ \ {m}, !.flag = @ \cup {m.sid}]
  <2>1. /\ reminder'.users = reminder.users \ {m} /\ reminder'.fetch = reminder.fetch
        /\ reminder'.flag = reminder.flag \cup {m.sid}
    BY <1>1, <1>2 DEF Run
  <2> QED BY <1>1, <1>2, <2>1 DEF ReminderSend, tables, Run
<1>3. CASE reminder' = [reminder EXCEPT !.users = @ \ {m}]
  <2>1. /\ reminder'.users = reminder.users \ {m} /\ reminder'.fetch = reminder.fetch
        /\ reminder'.flag = reminder.flag
    BY <1>1, <1>3 DEF Run
  <2> QED BY <1>1, <1>3, <2>1 DEF ReminderSend, tables, Run
<1> QED BY <1>2, <1>3 DEF ReminderSend

LEMMA FlagMoves ==
  ASSUME ReminderTypeOK, NEW s \in Sessions, ReminderFlag(s)
  PROVE  /\ s \in reminder.flag /\ reminder'.flag = reminder.flag \ {s}
         /\ reminder'.fetch = reminder.fetch /\ reminder'.users = reminder.users
         /\ updateReminderEmailFlag(s) \/ Fault
         /\ UNCHANGED <<notifyQueue, queued, reminded, cutShort>>
<1>1. PICK run \in Run : run = reminder
  BY DEF ReminderTypeOK, Run
<1> QED BY <1>1 DEF ReminderFlag, Run

LEMMA EndMoves ==
  ASSUME ReminderEnds \/ ReminderFails
  PROVE  /\ reminder'.fetch = {} /\ reminder'.users = {} /\ reminder'.flag = {}
         /\ Fault \/ (~cutShort' => ~cutShort /\ reminder.flag = {})
         /\ UNCHANGED <<notifyQueue, queued, reminded, session>>
<1>1. reminder'.fetch = {} /\ reminder'.users = {} /\ reminder'.flag = {}
  BY DEF ReminderEnds, ReminderFails, NoRun
<1> QED BY <1>1 DEF ReminderEnds, ReminderFails, vars, tables

LEMMA QueueMoves ==
  ASSUME ReminderTypeOK, NEW m \in Reminder, ReminderEmail(m) \/ ReminderEmailFails(m)
  PROVE  /\ notifyQueue[m] > 0
         /\ \A n \in Reminder : notifyQueue'[n] > 0 => notifyQueue[n] > 0
         /\ \/ UNCHANGED reminded
            \/ reminded' = reminded \cup {m} /\ m.yotiSessionId # None
         /\ UNCHANGED <<reminder, queued, cutShort, session>>
<1>1. \A n \in Reminder : notifyQueue[n] \in Nat
  BY ReminderAssumption DEF ReminderTypeOK
<1>2. notifyQueue[m] > 0
  BY DEF ReminderEmail, ReminderEmailFails
<1>3. \A n \in Reminder : notifyQueue'[n] > 0 => notifyQueue[n] > 0
  BY <1>1, <1>2 DEF ReminderTypeOK, ReminderEmail, ReminderEmailFails, Received
<1> QED BY <1>2, <1>3 DEF ReminderEmail, ReminderEmailFails, tables

-----------------------------------------------------------------------------
(* Nothing is known of a session nobody has asked for.                     *)

LEMMA ReminderNotices ==
  ASSUME SystemBacked, Aged, NoticedWhenAsked, ReminderNext
  PROVE  NoticedWhenAsked'
<1> SUFFICES ASSUME NEW s \in Sessions, client[s] = "none"
             PROVE  Unnoticed(s)'
  <2>1. UNCHANGED client
    BY ReminderOutside DEF SystemBacked, Outside, clientVars
  <2> QED BY <2>1 DEF NoticedWhenAsked
<1>1. /\ s \notin reminder.fetch /\ s \notin reminder.flag
      /\ \A m \in reminder.users : m.sid # s
      /\ queued[s] = 0
  BY DEF NoticedWhenAsked, Unnoticed
<1>2. ReminderTypeOK /\ queued \in [Sessions -> Nat]
  BY DEF SystemBacked, ReminderTypeOK
<1>3. CASE ReminderQuery
  <2>1. s \notin reminder'.fetch
    BY <1>3, QueryMoves, DueHasDate
  <2> QED BY <1>1, <1>3, <2>1, QueryMoves DEF Unnoticed
<1>4. ASSUME NEW t \in Sessions, ReminderFetch(t) PROVE Unnoticed(s)'
  <2>1. t # s /\ reminder'.fetch = reminder.fetch \ {t} /\ reminder'.flag = reminder.flag
    BY <1>1, <1>2, <1>4, FetchMoves
  <2>2. \A m \in reminder'.users : m \in reminder.users \/ m.sid = t
    BY <1>2, <1>4, FetchMoves
  <2>3. UNCHANGED queued
    BY <1>2, <1>4, FetchMoves
  <2> QED BY <1>1, <2>1, <2>2, <2>3 DEF Unnoticed
<1>5. ASSUME NEW m \in Reminder, ReminderSend(m) PROVE Unnoticed(s)'
  <2>1. m.sid # s
    BY <1>1, <1>2, <1>5, SendMoves
  <2>2. queued'[s] = queued[s]
    BY <1>2, <1>5, <2>1, SendMoves
  <2> QED BY <1>1, <1>2, <1>5, <2>1, <2>2, SendMoves DEF Unnoticed
<1>6. ASSUME NEW t \in Sessions, ReminderFlag(t) PROVE Unnoticed(s)'
  BY <1>1, <1>2, <1>6, FlagMoves DEF Unnoticed
<1>7. CASE ReminderEnds \/ ReminderFails
  BY <1>1, <1>7, EndMoves DEF Unnoticed
<1>8. ASSUME NEW m \in Reminder, ReminderEmail(m) \/ ReminderEmailFails(m)
      PROVE  Unnoticed(s)'
  BY <1>1, <1>2, <1>8, QueueMoves DEF Unnoticed
<1> QED BY <1>3, <1>4, <1>5, <1>6, <1>7, <1>8 DEF ReminderNext

LEMMA SystemStepNotices ==
  SystemBacked /\ Aged /\ FreshReads /\ NoticedWhenAsked /\ [SystemNext]_systemVars
    => NoticedWhenAsked'
<1> SUFFICES ASSUME SystemBacked, Aged, FreshReads, NoticedWhenAsked,
                    [SystemNext]_systemVars
             PROVE  NoticedWhenAsked'
  OBVIOUS
<1>1. CASE /\ [Next]_vars \/ LetterNext
           /\ UNCHANGED reminderVars
  <2>1. ASSUME [Next]_vars PROVE ClientsStay
    <3>1. StepKinds
      BY <2>1, EveryStep DEF SystemBacked
    <3> QED BY <3>1 DEF StepKinds, Drifts, Begins, Admitted, Selects, Writes, ClientsStay
  <2>2. ASSUME LetterNext PROVE ClientsStay
    BY <2>2, LetterOutside DEF SystemBacked, Outside, clientVars, ClientsStay
  <2> QED BY <1>1, <2>1, <2>2
          DEF ClientsStay, NoticedWhenAsked, Unnoticed, reminderVars
<1>2. CASE ReminderNext
  BY <1>2, ReminderNotices
<1>3. \/ /\ [Next]_vars \/ LetterNext
         /\ UNCHANGED reminderVars
      \/ ReminderNext
  BY DEF SystemNext, systemVars
<1> QED BY <1>1, <1>2, <1>3

\* What does not touch the journey keeps RowsWait: nobody is marked whom nobody knows.
LEMMA OutsideWaits ==
  ASSUME SystemBacked, RowsWait, NoticedWhenAsked, Outside
  PROVE  RowsWait'
<1>1. UNCHANGED <<client, yoti, invocation>>
  BY DEF Outside, clientVars, yotiVars
<1>2. ASSUME NEW s \in Sessions, client'[s] = "none" PROVE Unasked(s)'
  <2>1. Unasked(s) /\ s \notin reminder.flag
    BY <1>1, <1>2 DEF RowsWait, NoticedWhenAsked, Unnoticed
  <2> QED BY <1>1, <2>1, OutsideRows DEF Unasked
<1>3. ASSUME NEW i \in Invocations, Opens(invocation'[i]) \/ HasOpened(invocation'[i])
      PROVE  session'[invocation'[i].sid].yotiSessionId = None
  <2>1. session[invocation[i].sid].yotiSessionId = None
    BY <1>1, <1>3 DEF RowsWait
  <2>2. invocation[i].sid \in Sessions
    BY <1>1, <1>3, WatchedSteps, WatchedTyped DEF SystemBacked
  <2> QED BY <1>1, <2>1, <2>2, OutsideRows
<1> QED BY <1>2, <1>3 DEF RowsWait

LEMMA SystemStepWaits ==
  SystemBacked /\ Aged /\ Alone /\ NoticedWhenAsked /\ RowsWait /\ [SystemNext]_systemVars
    => RowsWait'
BY SystemSteps, StepWaits, OutsideWaits DEF SystemBacked

-----------------------------------------------------------------------------
(* A user is reminded once.                                                *)

\* A step of the journey on one row: the date and the flag stay, or the row goes, or a
\* session nobody had asked for gets its first row.
RowKept(s) ==
  \/ session'[s] = NoRow \/ client[s] = "none"
  \/ /\ session'[s].createdDate = session[s].createdDate
     /\ session'[s].reminderEmailSent = session[s].reminderEmailSent

LEMMA JourneyKeepsRows ==
  ASSUME Backed, [Next]_vars, NEW s \in Sessions
  PROVE  RowKept(s)
<1>1. TypeOK
  BY DEF Backed
<1>2. ASSUME NEW t \in Sessions, Update(t) \/ markSessionAsExpired(t) PROVE RowKept(s)
  BY <1>1, <1>2, UpdateKeeps DEF Keeps, RowKept
<1>3. CASE UNCHANGED session
  BY <1>3 DEF RowKept
<1>4. CASE Creates
  <2>1. PICK t \in Sessions : client[t] = "none" /\ createAuthSession(t)
    BY <1>4 DEF Creates, SessionCreate
  <2>2. s # t => session'[s] = session[s]
    BY <1>1, <2>1 DEF createAuthSession, Put, TypeOK
  <2> QED BY <2>1, <2>2 DEF RowKept
<1>5. UNCHANGED vars \/ NoWrite => UNCHANGED session
  BY DEF vars, tables, NoWrite
<1>6. ServiceNext => UNCHANGED session \/ \E t \in Sessions : Update(t)
  BY DEF ServiceNext, TimeToLive, Propagate, InvocationFails, Tick, tables, Update
<1> QED BY <1>2, <1>3, <1>4, <1>5, <1>6, ApiWrites, CallbackWrites, ExpiryWrites DEF Next

LEMMA JourneyQueues ==
  ASSUME SystemBacked, NoticedWhenAsked, QueuedOnce, [Next]_vars, UNCHANGED reminderVars
  PROVE  QueuedOnce'
<1> SUFFICES ASSUME faults' = 0, ~cutShort' PROVE QueuedOnce'
  BY DEF QueuedOnce
<1>1. faults = 0 /\ ~cutShort /\ Backed
  BY FaultsGrow DEF reminderVars, SystemBacked, Backed
<1>2. ASSUME NEW s \in Sessions, queued[s] = 1 PROVE Remembered(s)'
  <2>1. Remembered(s) /\ client[s] # "none"
    BY <1>1, <1>2 DEF QueuedOnce, NoticedWhenAsked, Unnoticed
  <2>2. RowKept(s)
    BY <1>1, JourneyKeepsRows
  <2> QED BY <2>1, <2>2 DEF RowKept, Remembered, NoRow, reminderVars
<1> QED BY <1>1, <1>2 DEF QueuedOnce, reminderVars

LEMMA LetterQueues ==
  ASSUME SystemBacked, QueuedOnce, LetterNext, UNCHANGED reminderVars
  PROVE  QueuedOnce'
<1>1. UNCHANGED session /\ (faults' = 0 => faults = 0)
  BY LetterOutside DEF SystemBacked, Outside, NoWrite
<1> QED BY <1>1 DEF QueuedOnce, Remembered, reminderVars

LEMMA ReminderQueues ==
  ASSUME SystemBacked, FreshReads, QueuedOnce, ReminderNext
  PROVE  QueuedOnce'
<1> SUFFICES ASSUME faults' = 0, ~cutShort' PROVE QueuedOnce'
  BY DEF QueuedOnce
<1>1. /\ faults = 0 /\ ~Fault
      /\ ReminderTypeOK /\ TypeOK /\ queued \in [Sessions -> Nat] /\ cutShort \in BOOLEAN
  BY ReminderOutside, FaultCounts DEF SystemBacked, Outside, ReminderTypeOK, Backed
<1>2. ASSUME ~cutShort
      PROVE  /\ \A s \in Sessions : queued[s] <= 1 /\ (queued[s] = 1 => Remembered(s))
             /\ \A s \in reminder.fetch : queued[s] = 0
             /\ \A m \in reminder.users : queued[m.sid] = 0 /\ m.sid \notin reminder.fetch
             /\ \A m, n \in reminder.users : m.sid = n.sid => m = n
  BY <1>1, <1>2 DEF QueuedOnce
<1>3. CASE ReminderQuery
  <2>1. /\ ~cutShort /\ reminder.flag = {}
        /\ reminder'.users = {} /\ reminder'.flag = {}
        /\ UNCHANGED queued /\ UNCHANGED session
    BY <1>3, QueryMoves DEF NoRun, vars, tables
  <2>2. ASSUME NEW s \in reminder'.fetch PROVE queued[s] = 0
    <3>1. s \in Sessions /\ DueForReminder(session[s])
      BY <1>3, QueryMoves, FreshRow
    <3>2. ~Remembered(s)
      BY <2>1, <3>1 DEF DueForReminder, Remembered
    <3> QED BY <1>1, <1>2, <2>1, <3>1, <3>2
  <2>3. \A s \in Sessions : Remembered(s) => Remembered(s)'
    BY <2>1 DEF Remembered
  <2> QED BY <1>2, <2>1, <2>2, <2>3 DEF QueuedOnce
<1>4. ASSUME NEW s \in Sessions, ReminderFetch(s) PROVE QueuedOnce'
  <2>1. /\ ~cutShort /\ s \in reminder.fetch /\ reminder'.fetch = reminder.fetch \ {s}
        /\ reminder'.flag = reminder.flag /\ UNCHANGED queued /\ UNCHANGED session
    BY <1>1, <1>4, FetchMoves
  <2>2. PICK users :
          /\ reminder'.users = reminder.users \cup users
          /\ \/ users = {}
             \/ \E row \in Visible(s) :
                  users = {[sid |-> s, yotiSessionId |-> row.yotiSessionId]}
    BY <1>1, <1>4, FetchMoves
  <2>3. (\A m \in users : m.sid = s) /\ (\A m, n \in users : m = n)
    BY <2>2
  <2>4. \A t \in Sessions : Remembered(t) => Remembered(t)'
    BY <2>1 DEF Remembered
  <2>5. \A m \in reminder'.users : queued[m.sid] = 0 /\ m.sid \notin reminder'.fetch
    BY <1>2, <2>1, <2>2, <2>3
  <2>6. \A m, n \in reminder'.users : m.sid = n.sid => m = n
    BY <1>2, <2>1, <2>2, <2>3
  <2> QED BY <1>2, <2>1, <2>4, <2>5, <2>6 DEF QueuedOnce
<1>5. ASSUME NEW m \in Reminder, ReminderSend(m) PROVE QueuedOnce'
  <2>1. /\ ~cutShort /\ m \in reminder.users /\ reminder'.users = reminder.users \ {m}
        /\ reminder'.fetch = reminder.fetch /\ UNCHANGED session
        /\ queued' = [queued EXCEPT ![m.sid] = @ + 1]
        /\ reminder'.flag = reminder.flag \cup {m.sid}
    BY <1>1, <1>5, SendMoves
  <2>2. m.sid \in Sessions /\ queued[m.sid] = 0 /\ m.sid \notin reminder.fetch
    BY <1>2, <2>1 DEF Reminder
  <2>3. queued'[m.sid] = 1 /\ \A s \in Sessions : s # m.sid => queued'[s] = queued[s]
    BY <1>1, <2>1, <2>2
  <2>4. Remembered(m.sid)' /\ \A s \in Sessions : Remembered(s) => Remembered(s)'
    BY <2>1 DEF Remembered
  <2>5. \A s \in Sessions : queued'[s] <= 1 /\ (queued'[s] = 1 => Remembered(s)')
    BY <1>2, <2>1, <2>3, <2>4
  <2>6. /\ reminder.fetch \subseteq Sessions
        /\ \A n \in reminder.users : n.sid \in Sessions
    BY <1>1, Flagged DEF Reminder
  <2>7. \A s \in reminder'.fetch : queued'[s] = 0
    BY <1>2, <2>1, <2>2, <2>3, <2>6
  <2>8. \A n \in reminder'.users : queued'[n.sid] = 0 /\ n.sid \notin reminder'.fetch
    BY <1>2, <2>1, <2>3, <2>6
  <2>9. \A k, n \in reminder'.users : k.sid = n.sid => k = n
    BY <1>2, <2>1
  <2> QED BY <2>5, <2>7, <2>8, <2>9 DEF QueuedOnce
<1>6. ASSUME NEW s \in Sessions, ReminderFlag(s) PROVE QueuedOnce'
  <2>1. /\ ~cutShort /\ reminder'.flag = reminder.flag \ {s}
        /\ reminder'.fetch = reminder.fetch /\ reminder'.users = reminder.users
        /\ updateReminderEmailFlag(s) /\ UNCHANGED queued
    BY <1>1, <1>6, FlagMoves
  <2>2. session'[s].reminderEmailSent /\ \A t \in Sessions : t # s => session'[t] = session[t]
    BY <1>1, <2>1, FlagWrites DEF RowSays
  <2>3. \A t \in Sessions : Remembered(t) => Remembered(t)'
    BY <2>1, <2>2 DEF Remembered
  <2> QED BY <1>2, <2>1, <2>3 DEF QueuedOnce
<1>7. CASE ReminderEnds \/ ReminderFails
  <2>1. /\ ~cutShort /\ reminder.flag = {} /\ UNCHANGED queued /\ UNCHANGED session
        /\ reminder'.fetch = {} /\ reminder'.users = {} /\ reminder'.flag = {}
    BY <1>1, <1>7, EndMoves
  <2>2. \A t \in Sessions : Remembered(t) => Remembered(t)'
    BY <2>1 DEF Remembered
  <2> QED BY <1>2, <2>1, <2>2 DEF QueuedOnce
<1>8. ASSUME NEW m \in Reminder, ReminderEmail(m) \/ ReminderEmailFails(m)
      PROVE  QueuedOnce'
  <2>1. UNCHANGED <<reminder, queued, cutShort, session>>
    BY <1>1, <1>8, QueueMoves
  <2> QED BY <1>1, <2>1 DEF QueuedOnce, Remembered
<1> QED BY <1>3, <1>4, <1>5, <1>6, <1>7, <1>8 DEF ReminderNext

LEMMA SystemStepQueues ==
  SystemBacked /\ FreshReads /\ NoticedWhenAsked /\ QueuedOnce /\ [SystemNext]_systemVars
    => QueuedOnce'
<1> SUFFICES ASSUME SystemBacked, FreshReads, NoticedWhenAsked, QueuedOnce,
                    [SystemNext]_systemVars
             PROVE  QueuedOnce'
  OBVIOUS
<1>1. \/ [Next]_vars /\ UNCHANGED reminderVars
      \/ LetterNext /\ UNCHANGED reminderVars
      \/ ReminderNext
  BY DEF SystemNext, systemVars
<1> QED BY <1>1, JourneyQueues, LetterQueues, ReminderQueues

LEMMA SystemStartsUnnoticed ==
  SystemInit => Aged /\ NoticedWhenAsked /\ QueuedOnce /\ RowsWait
<1> SUFFICES ASSUME SystemInit
             PROVE  Aged /\ NoticedWhenAsked /\ QueuedOnce /\ RowsWait
  OBVIOUS
<1>1. Aged
  BY DEF SystemInit, Init, ServiceInit, NoRow, Visible, Aged, Old, Unopened
<1>2. NoticedWhenAsked /\ QueuedOnce
  BY DEF SystemInit, ReminderInit, NoRun, NoticedWhenAsked, Unnoticed, QueuedOnce
<1>3. RowsWait
  BY InitAlone DEF SystemInit
<1> QED BY <1>1, <1>2, <1>3

LEMMA SystemStepLags ==
  ASSUME MaxStale = 0, SystemBacked, FreshReads, [SystemNext]_systemVars
  PROVE  FreshReads'
<1>1. Backed /\ TypeOK
  BY DEF SystemBacked, Backed
<1>2. CASE Outside
  <2>1. CASE NoWrite
    BY <2>1 DEF NoWrite, FreshReads
  <2>2. CASE \E s \in reminder.flag : updateReminderEmailFlag(s)
    <3>1. PICK s \in Sessions : updateReminderEmailFlag(s)
      BY <2>2, Flagged DEF SystemBacked
    <3> QED BY <1>1, <3>1, PutLags DEF updateReminderEmailFlag
  <2> QED BY <1>2, <2>1, <2>2 DEF Outside
<1> QED BY <1>1, <1>2, SystemSteps, StepLags

LEMMA SystemAlwaysFresh ==
  ASSUME MaxStale = 0
  PROVE  SystemSpec => []FreshReads
<1>1. SystemInit => FreshReads
  BY DEF SystemInit, Init, ServiceInit, FreshReads
<1>2. SystemBacked /\ FreshReads /\ [SystemNext]_systemVars => FreshReads'
  BY SystemStepLags
<1> QED BY <1>1, <1>2, SystemAlwaysBacked, PTL DEF SystemSpec

LEMMA SystemNotices ==
  SystemSpec /\ []FreshReads => [](SystemBacked /\ Aged /\ NoticedWhenAsked)
BY SystemStartsUnnoticed, SystemStepAges, SystemStepNotices, SystemAlwaysBacked, PTL
   DEF SystemSpec

\* When reads see every write, a reminder is put on the queue once for a session, up to
\* the first failed call and the first run that ends before it has served everyone:
\* whatever the order in which a run reads, sends and marks, whatever writes to the row
\* meanwhile, and although an expired row may come back without its flag, since it comes
\* back without its date, too.
THEOREM RemindersAreSentOnce ==
  ASSUME MaxStale = 0
  PROVE  SystemSpec => []RemindedOnce
<1>1. QueuedOnce => RemindedOnce
  BY DEF QueuedOnce, RemindedOnce
<1>2. SystemSpec => []FreshReads
  BY SystemAlwaysFresh
<1> QED BY <1>1, <1>2, SystemStartsUnnoticed, SystemStepQueues, SystemNotices, PTL
        DEF SystemSpec

-----------------------------------------------------------------------------
(* What the user is sent names the Yoti session of their row.              *)

RowsSettled ==
  \A s \in Sessions : session[s].yotiSessionId # None =>
    session[s].authSessionState # "F2F_SESSION_CREATED"

\* Whatever is sent is read off a row, and a row that has a Yoti session is settled.
LEMMA RowIsSettled ==
  ASSUME Backed, RowsWait, RowsSettled, NEW s \in Sessions,
         session[s].yotiSessionId \in YotiSessions
  PROVE  Settled(s, session[s].yotiSessionId)
<1>1. session[s].yotiSessionId # None
  BY NoneAssumption
<1>2. yoti[session[s].yotiSessionId].owner = s
  BY RowOfItsOwner DEF Visible
<1> QED BY <1>1, <1>2 DEF RowsSettled, RowsWait, Settled

\* The steps of the journey settle rows and keep them settled.
LEMMA JourneySettles ==
  ASSUME Backed, Alone, RowsWait, RowsSettled, [Next]_vars
  PROVE  RowsSettled'
<1>1. StepKinds
  BY EveryStep DEF Alone
<1>2. CASE Drifts
  BY <1>2 DEF Drifts, Marked, NoRow, RowsSettled
<1>3. ASSUME NEW i \in Invocations, NEW s \in Sessions, Begins(i, s) PROVE RowsSettled'
  BY <1>3 DEF Begins, RowSays, RowsSettled
<1>4. ASSUME NEW i \in Invocations, Selects(i) \/ \E s \in Sessions : Admitted(i, s)
      PROVE  RowsSettled'
  BY <1>4 DEF Admitted, Selects, RowsSettled
<1>5. ASSUME NEW i \in Invocations, Writes(i) PROVE RowsSettled'
  <2>1. invocation[i].sid \in Sessions
    BY <1>5, WriteApart DEF Alone
  <2>2. ASSUME NEW s \in Sessions, s = invocation[i].sid, session'[s].yotiSessionId # None
        PROVE  session'[s].authSessionState # "F2F_SESSION_CREATED"
    BY <1>5, <2>2 DEF Writes, Wrote, RowSays, CallbackStates, RowsSettled
  <2> QED BY <1>5, <2>1, <2>2, WriteApart DEF Alone, RowsSettled
<1> QED BY <1>1, <1>2, <1>3, <1>4, <1>5 DEF StepKinds

LEMMA JourneyStaysSettled ==
  ASSUME Backed, Alone, RowsWait, [Next]_vars, NEW s \in Sessions, NEW y \in YotiSessions,
         Settled(s, y)
  PROVE  Settled(s, y)'
<1>1. StepKinds
  BY EveryStep DEF Alone
<1>2. /\ session[s].yotiSessionId \in {y, None} /\ yoti[y].owner = s /\ s # None
      /\ session[s].authSessionState # "F2F_SESSION_CREATED"
      /\ \A i \in Invocations : invocation[i].sid = s =>
           ~Opens(invocation[i]) /\ ~HasOpened(invocation[i])
  BY NoneAssumption DEF Settled
<1>3. yoti'[y].owner = s
  BY <1>2, JourneyGrowsLetters DEF LettersGrow
<1>4. client[s] # "none"
  BY <1>2 DEF RowsWait, Unasked
<1>5. \A v : v.at \notin Watched => ~Opens(v) /\ ~HasOpened(v)
  BY WatchedSteps
<1> SUFFICES /\ session'[s].yotiSessionId \in {y, None}
             /\ session'[s].authSessionState # "F2F_SESSION_CREATED"
             /\ \A i \in Invocations : invocation'[i].sid = s =>
                  ~Opens(invocation'[i]) /\ ~HasOpened(invocation'[i])
  BY <1>3 DEF Settled
<1>6. CASE Drifts
  <2>1. session'[s] \in {session[s], NoRow} \/ Marked(s)
    BY <1>6 DEF Drifts
  <2>2. /\ session'[s].yotiSessionId \in {y, None}
        /\ session'[s].authSessionState # "F2F_SESSION_CREATED"
    <3>1. CASE session'[s] = NoRow
      BY <3>1, NoneAssumption DEF NoRow, AuthSessionState
    <3>2. CASE Marked(s)
      BY <1>2, <3>2 DEF Marked
    <3> QED BY <1>2, <2>1, <3>1, <3>2
  <2>3. \A i \in Invocations :
          invocation'[i] = invocation[i] \/ invocation'[i].at \notin Watched
    BY <1>6 DEF Drifts, Moved, Turn
  <2> QED BY <1>2, <1>5, <2>2, <2>3
<1>7. ASSUME NEW i \in Invocations, NEW t \in Sessions, Begins(i, t)
      PROVE  /\ session'[s] = session[s]
             /\ \A j \in Invocations :
                  invocation'[j] = invocation[j] \/ invocation'[j].at \notin Watched
  BY <1>4, <1>7 DEF Begins, RowSays, Turn, Watched
<1>8. ASSUME NEW i \in Invocations, NEW t \in Sessions, Admitted(i, t)
      PROVE  \A j \in Invocations : invocation'[j].sid = s =>
               ~Opens(invocation'[j]) /\ ~HasOpened(invocation'[j])
  <2>1. invocation'[i].sid = s => ~Opens(invocation'[i]) /\ ~HasOpened(invocation'[i])
    BY <1>2, <1>8 DEF Admitted, Opens, HasOpened, MayCreateYotiSession
  <2> QED BY <1>2, <1>8, <2>1 DEF Admitted, Turn
<1>9. ASSUME NEW i \in Invocations, Selects(i)
      PROVE  \A j \in Invocations : invocation'[j].sid = s =>
               ~Opens(invocation'[j]) /\ ~HasOpened(invocation'[j])
  <2>1. invocation[i].sid # s
    BY <1>2, <1>9 DEF Selects, Opens, HasOpened
  <2>2. invocation'[i].sid # s
    BY <1>2, <1>9, <2>1, IdleFields DEF Selects
  <2> QED BY <1>2, <1>9, <2>2 DEF Selects, Turn
<1>10. ASSUME NEW i \in Invocations, Writes(i)
       PROVE  /\ session'[s].yotiSessionId \in {y, None}
              /\ session'[s].authSessionState # "F2F_SESSION_CREATED"
              /\ \A j \in Invocations :
                   invocation'[j] = invocation[j] \/ invocation'[j].at \notin Watched
  <2>1. CASE s = invocation[i].sid
    BY <1>2, <1>10, <2>1 DEF Writes, Wrote, RowSays, HasOpened, CallbackStates, Turn
  <2>2. CASE s # invocation[i].sid
    BY <1>2, <1>10, <2>2, WriteApart DEF Alone, Writes, Turn
  <2> QED BY <2>1, <2>2
<1>11. ASSUME NEW i \in Invocations, NEW t \in Sessions, Admitted(i, t) \/ Selects(i)
       PROVE  session'[s] = session[s]
  BY <1>11 DEF Admitted, Selects
<1> QED BY <1>1, <1>2, <1>5, <1>6, <1>7, <1>8, <1>9, <1>10, <1>11 DEF StepKinds

LEMMA JourneyNames ==
  ASSUME Backed, Alone, RowsWait, NamesSettled, [Next]_vars,
         UNCHANGED <<letterVars, reminderVars>>
  PROVE  NamesSettled'
<1>1. RowsSettled'
  BY JourneySettles DEF NamesSettled, RowsSettled
<1>2. UNCHANGED <<execution, sent, reminded, reminder, notifyQueue>>
  BY DEF letterVars, reminderVars
<1>3. \A z \in YotiSessions : execution[z].at = "email" =>
        yoti[z].owner # None /\ yoti'[z].owner = yoti[z].owner
  BY JourneyGrowsLetters DEF NamesSettled, LettersGrow
<1>4. ASSUME NEW s \in Sessions, NEW y \in YotiSessions, Names(s, y)' PROVE Names(s, y)
  BY <1>2, <1>3, <1>4 DEF Names
<1>5. ASSUME NEW s \in Sessions, NEW y \in YotiSessions, Names(s, y)' PROVE Settled(s, y)'
  <2>1. Settled(s, y)
    BY <1>4, <1>5 DEF NamesSettled
  <2> QED BY <2>1, JourneyStaysSettled
<1>6. \A m \in reminded' : m.yotiSessionId \in YotiSessions
  BY <1>2 DEF NamesSettled
<1>7. \A z \in YotiSessions : execution'[z].at = "email" => yoti'[z].owner # None
  BY <1>2, <1>3
<1> QED BY <1>1, <1>5, <1>6, <1>7 DEF NamesSettled, RowsSettled

\* The letters and the reminders settle nothing and unsettle nothing.
LEMMA OutsideStaysSettled ==
  ASSUME SystemBacked, Outside
  PROVE  /\ RowsSettled => RowsSettled'
         /\ \A s \in Sessions, y \in YotiSessions : Settled(s, y) => Settled(s, y)'
         /\ \A y \in YotiSessions : yoti'[y].owner = yoti[y].owner
<1>1. UNCHANGED <<yoti, invocation>>
  BY DEF Outside, yotiVars
<1> QED BY <1>1, OutsideRows DEF RowsSettled, Settled

LEMMA LetterNames ==
  ASSUME SystemBacked, AskedFor, FreshReads, RowsWait, NamesSettled, LetterNext,
         UNCHANGED reminderVars
  PROVE  NamesSettled'
<1>1. PICK l \in letters :
        \/ GenerateYotiLetter(l) \/ GeneratePrintedLetter(l) \/ LetterNotGenerated(l)
        \/ SendLetter(l) \/ SendEmail(l) \/ InstructionsNotSent(l)
  BY DEF LetterNext
<1>2. /\ l.yotiSessionId \in YotiSessions /\ l.sid \in Sessions
      /\ yoti[l.yotiSessionId].owner = l.sid /\ l.sid # None
      /\ execution \in [YotiSessions -> Execution] /\ Backed
  BY NoneAssumption DEF SystemBacked, Backed, TypeOK, Letter, LetterTypeOK, AskedFor
<1>3. Outside /\ UNCHANGED yoti /\ RowsSettled
  BY LetterOutside DEF SystemBacked, Outside, yotiVars, NamesSettled, RowsSettled
<1>4. SUFFICES
        /\ \A y \in YotiSessions : execution'[y].at = "email" => yoti[y].owner # None
        /\ \A s \in Sessions, y \in YotiSessions : Names(s, y)' => Names(s, y) \/ Settled(s, y)
  BY <1>3, OutsideStaysSettled DEF NamesSettled, RowsSettled, reminderVars
\* An execution that does not come to the e-mail, or leaves it, names nobody anew.
<1>5. ASSUME NEW at, Move(l, at), at # "email"
      PROVE  \A y \in YotiSessions : execution'[y].at = "email" => execution'[y] = execution[y]
  <2>1. PICK e \in Execution : e = execution[l.yotiSessionId]
    BY <1>2
  <2>2. execution' = [execution EXCEPT ![l.yotiSessionId] = [e EXCEPT !.at = at]]
    BY <1>5, <2>1 DEF Move
  <2>3. execution'[l.yotiSessionId].at = at
    BY <1>2, <2>2 DEF Execution
  <2> QED BY <1>2, <1>5, <2>2, <2>3
<1>6. ASSUME UNCHANGED sent, NEW at, Move(l, at), at # "email"
      PROVE  /\ \A y \in YotiSessions : execution'[y].at = "email" => yoti[y].owner # None
             /\ \A s \in Sessions, y \in YotiSessions : Names(s, y)' => Names(s, y)
  BY <1>3, <1>5, <1>6 DEF Names, NamesSettled, reminderVars
<1>7. CASE GenerateYotiLetter(l)
  <2>1. LetterChoice(l.pdfPreference) # "email"
    BY DEF LetterChoice
  <2> QED BY <1>6, <1>7, <2>1 DEF GenerateYotiLetter, MoveOrCrash
<1>8. CASE GeneratePrintedLetter(l) \/ LetterNotGenerated(l) \/ InstructionsNotSent(l)
  BY <1>6, <1>8
     DEF GeneratePrintedLetter, MoveOrCrash, LetterNotGenerated, InstructionsNotSent
<1>9. CASE SendLetter(l)
  <2>1. PICK row \in Visible(l.sid) :
          /\ \/ Move(l, "failed")
             \/ execution' = [execution EXCEPT ![l.yotiSessionId] =
                                [at |-> "email", yotiSessionId |-> row.yotiSessionId]]
          /\ \/ ToBePosted(l, row.yotiSessionId)
                  /\ Notify("letter", l.sid, row.yotiSessionId)
             \/ UNCHANGED sent
    BY <1>9 DEF SendLetter
  <2>2. row = session[l.sid]
    BY <1>2, <2>1, FreshRow
  <2>3. row.yotiSessionId \in YotiSessions => Settled(l.sid, row.yotiSessionId)
    BY <1>2, <1>3, <2>2, RowIsSettled
  <2>4. \A y \in YotiSessions : execution'[y].at = "email" =>
          \/ execution'[y] = execution[y]
          \/ y = l.yotiSessionId /\ execution'[y].yotiSessionId = row.yotiSessionId
    <3>1. CASE Move(l, "failed")
      BY <1>5, <3>1
    <3>2. CASE execution' = [execution EXCEPT ![l.yotiSessionId] =
                               [at |-> "email", yotiSessionId |-> row.yotiSessionId]]
      BY <1>2, <3>2
    <3> QED BY <2>1, <3>1, <3>2
  <2>5. \A m \in sent' : \/ m \in sent
                         \/ m.sid = l.sid /\ m.yotiSessionId = row.yotiSessionId
    BY <2>1 DEF Notify
  <2>6. ASSUME NEW s \in Sessions, NEW y \in YotiSessions, Names(s, y)'
        PROVE  Names(s, y) \/ (s = l.sid /\ y = row.yotiSessionId)
    BY <1>2, <1>3, <2>4, <2>5, <2>6 DEF Names, reminderVars
  <2>7. \A y \in YotiSessions : execution'[y].at = "email" => yoti[y].owner # None
    BY <1>2, <2>4 DEF NamesSettled
  <2> QED BY <2>3, <2>6, <2>7
<1>10. CASE SendEmail(l)
  <2> DEFINE y == execution[l.yotiSessionId].yotiSessionId
  <2>1. /\ execution[l.yotiSessionId].at = "email"
        /\ [folder |-> "yoti", yotiSessionId |-> y] \in bucket
        /\ Notify("email", l.sid, y)
        /\ Move(l, "done") \/ Move(l, "failed")
    BY <1>10 DEF SendEmail, Stands
  <2>2. y \in YotiSessions
    BY <2>1 DEF SystemBacked, LetterTypeOK, Pdf
  <2>3. Names(l.sid, y)
    BY <1>2, <2>1 DEF Names
  <2>4. \A m \in sent' : m \in sent \/ (m.sid = l.sid /\ m.yotiSessionId = y)
    BY <2>1 DEF Notify
  <2>5. \A z \in YotiSessions : execution'[z].at = "email" => execution'[z] = execution[z]
    BY <1>5, <2>1
  <2> HIDE DEF y
  <2>6. ASSUME NEW s \in Sessions, NEW z \in YotiSessions, Names(s, z)' PROVE Names(s, z)
    BY <1>3, <2>3, <2>4, <2>5, <2>6 DEF Names, reminderVars
  <2>7. \A z \in YotiSessions : execution'[z].at = "email" => yoti[z].owner # None
    BY <2>5 DEF NamesSettled
  <2> QED BY <2>6, <2>7
<1> QED BY <1>1, <1>7, <1>8, <1>9, <1>10

LEMMA ReminderNames ==
  ASSUME SystemBacked, FreshReads, RowsWait, NamesSettled, ReminderNext, UNCHANGED letterVars
  PROVE  NamesSettled'
<1>1. /\ Backed /\ ReminderTypeOK /\ RowsSettled
      /\ Outside /\ UNCHANGED yoti /\ UNCHANGED <<execution, sent>>
  BY ReminderOutside
     DEF SystemBacked, Outside, yotiVars, letterVars, NamesSettled, RowsSettled
<1>2. SUFFICES
        /\ \A m \in reminded' : m.yotiSessionId \in YotiSessions
        /\ \A s \in Sessions, y \in YotiSessions : Names(s, y)' => Names(s, y) \/ Settled(s, y)
  BY <1>1, OutsideStaysSettled DEF NamesSettled, RowsSettled
<1>3. /\ \A m \in reminded : m.yotiSessionId \in YotiSessions
      /\ \A m \in Reminder : m = [sid |-> m.sid, yotiSessionId |-> m.yotiSessionId]
      /\ \A s \in Sessions, y \in YotiSessions : [sid |-> s, yotiSessionId |-> y] \in Reminder
  BY DEF NamesSettled, Reminder
\* A step after which nobody else is named by the run, the queue and the reminders.
<1>4. ASSUME \A m \in reminder'.users : m \in reminder.users,
             \A n \in Reminder : notifyQueue'[n] > 0 => notifyQueue[n] > 0,
             UNCHANGED reminded
      PROVE  /\ \A m \in reminded' : m.yotiSessionId \in YotiSessions
             /\ \A s \in Sessions, y \in YotiSessions : Names(s, y)' => Names(s, y)
  BY <1>1, <1>3, <1>4 DEF Names
<1>5. CASE \/ ReminderQuery \/ ReminderEnds \/ ReminderFails
           \/ \E s \in Sessions : ReminderFlag(s)
  <2>1. /\ \A m \in reminder'.users : m \in reminder.users
        /\ UNCHANGED notifyQueue /\ UNCHANGED reminded
    BY <1>1, <1>5, QueryMoves, EndMoves, FlagMoves
  <2> QED BY <1>4, <2>1
<1>6. ASSUME NEW s \in Sessions, ReminderFetch(s)
      PROVE  /\ \A m \in reminded' : m.yotiSessionId \in YotiSessions
             /\ \A t \in Sessions, y \in YotiSessions :
                  Names(t, y)' => Names(t, y) \/ Settled(t, y)
  <2>1. /\ \A m \in reminder'.users :
             \/ m \in reminder.users
             \/ m.sid = s /\ m.yotiSessionId = session[s].yotiSessionId
        /\ UNCHANGED notifyQueue /\ UNCHANGED reminded
    BY <1>1, <1>6, FetchMoves, FreshRow
  <2>2. ASSUME NEW t \in Sessions, NEW y \in YotiSessions, Names(t, y)'
        PROVE  Names(t, y) \/ (t = s /\ y = session[s].yotiSessionId)
    BY <1>1, <2>1, <2>2 DEF Names
  <2>3. session[s].yotiSessionId \in YotiSessions => Settled(s, session[s].yotiSessionId)
    BY <1>1, RowIsSettled
  <2> QED BY <1>3, <2>1, <2>2, <2>3
<1>7. ASSUME NEW m \in Reminder, ReminderSend(m)
      PROVE  /\ \A n \in reminded' : n.yotiSessionId \in YotiSessions
             /\ \A s \in Sessions, y \in YotiSessions : Names(s, y)' => Names(s, y)
  <2>1. /\ m \in reminder.users /\ reminder'.users \subseteq reminder.users
        /\ UNCHANGED reminded
        /\ \A n \in Reminder : notifyQueue'[n] > 0 => notifyQueue[n] > 0 \/ n = m
    BY <1>1, <1>7, SendMoves DEF ReminderTypeOK
  <2>2. ASSUME NEW s \in Sessions, NEW y \in YotiSessions, Names(s, y)' PROVE Names(s, y)
    BY <1>1, <1>3, <2>1, <2>2 DEF Names
  <2> QED BY <1>3, <2>1, <2>2
<1>8. ASSUME NEW m \in Reminder, ReminderEmail(m) \/ ReminderEmailFails(m)
      PROVE  /\ \A n \in reminded' : n.yotiSessionId \in YotiSessions
             /\ \A s \in Sessions, y \in YotiSessions : Names(s, y)' => Names(s, y)
  <2>1. /\ notifyQueue[m] > 0 /\ UNCHANGED reminder
        /\ \A n \in Reminder : notifyQueue'[n] > 0 => notifyQueue[n] > 0
        /\ \/ UNCHANGED reminded
           \/ reminded' = reminded \cup {m} /\ m.yotiSessionId # None
    BY <1>1, <1>8, QueueMoves
  <2>2. m.yotiSessionId # None => m.yotiSessionId \in YotiSessions
    BY DEF Reminder
  <2>3. ASSUME NEW s \in Sessions, NEW y \in YotiSessions, Names(s, y)' PROVE Names(s, y)
    BY <1>1, <1>3, <2>1, <2>3 DEF Names
  <2> QED BY <1>3, <2>1, <2>2, <2>3
<1> QED BY <1>5, <1>6, <1>7, <1>8 DEF ReminderNext

LEMMA SystemStepNames ==
  SystemBacked /\ AskedFor /\ Alone /\ RowsWait /\ NamesSettled /\ [SystemNext]_systemVars
    => NamesSettled'
<1> SUFFICES ASSUME SystemBacked, AskedFor, Alone, RowsWait, NamesSettled,
                    [SystemNext]_systemVars
             PROVE  NamesSettled'
  OBVIOUS
<1>1. \/ [Next]_vars /\ UNCHANGED <<letterVars, reminderVars>>
      \/ LetterNext /\ UNCHANGED reminderVars
      \/ ReminderNext /\ UNCHANGED letterVars
  BY DEF SystemNext, systemVars
<1> QED BY <1>1, JourneyNames, LetterNames, ReminderNames DEF SystemBacked, Alone

LEMMA SystemStartsSettled == SystemInit => NamesSettled
<1> SUFFICES ASSUME SystemInit PROVE NamesSettled
  OBVIOUS
<1>1. /\ \A s \in Sessions : session[s].yotiSessionId = None
      /\ \A y \in YotiSessions : execution[y].at = "generate"
      /\ sent = {} /\ reminded = {} /\ reminder.users = {}
      /\ \A m \in Reminder : notifyQueue[m] = 0
  BY DEF SystemInit, Init, ServiceInit, LetterInit, ReminderInit, NoRow, NoRun
<1>2. \A s \in Sessions, y \in YotiSessions : [sid |-> s, yotiSessionId |-> y] \in Reminder
  BY DEF Reminder
<1> QED BY <1>1, <1>2 DEF NamesSettled, Names

LEMMA SystemWaits == SystemSpec /\ []Alone => [](SystemBacked /\ RowsWait)
<1>1. Alone => FreshReads
  BY DEF Alone
<1> QED BY <1>1, SystemStartsUnnoticed, SystemStepWaits, SystemNotices, PTL DEF SystemSpec

\* As long as no two invocations for the same session overlap and reads see every write,
\* the e-mail, the letter and the reminder name the Yoti session that is on the user's
\* row, or was until the row went: although another execution may be under way for a Yoti
\* session that a failed document selection left behind, and whatever fails or is
\* delivered again.
THEOREM InstructionsAreOfTheRow ==
  ASSUME MaxStale = 0
  PROVE  SystemSpec /\ []OneAtATime => []InstructionsMatchRow
<1>1. ASSUME SystemBacked, NamesSettled PROVE InstructionsMatchRow
  <2>1. \A m \in sent \cup reminded : m.sid \in Sessions /\ m.yotiSessionId \in YotiSessions
    BY <1>1 DEF SystemBacked, LetterTypeOK, ReminderTypeOK, Sent, Reminder, NamesSettled
  <2>2. \A m \in sent \cup reminded : Names(m.sid, m.yotiSessionId)
    BY DEF Names
  <2> QED BY <1>1, <2>1, <2>2 DEF NamesSettled, Settled, InstructionsMatchRow
<1>2. SystemBacked /\ NamesSettled => InstructionsMatchRow
  BY <1>1
<1>3. FreshReads /\ OneAtATime => Alone
  BY DEF Alone
<1>4. SystemSpec /\ []OneAtATime => []Alone
  <2>1. SystemSpec => []FreshReads
    BY SystemAlwaysFresh
  <2> QED BY <1>3, <2>1, PTL
<1> QED BY <1>2, <1>4, SystemStartsSettled, SystemStepNames, SystemAsksFor, SystemWaits, PTL
        DEF SystemSpec
==============================================================================
