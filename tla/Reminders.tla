------------------------------ MODULE Reminders -----------------------------
(***************************************************************************)
(* ReminderEmailProcessor, run every hour, and the queue it puts reminders *)
(* on for GovNotifyHandler, which sends them as e-mails.                   *)
(***************************************************************************)
EXTENDS F2fService

CONSTANTS ReminderDays,      \* days after which a user is reminded
          NotifyReceiveCount \* redrive policy of the Notify queue

ASSUME ReminderAssumption == ReminderDays \in Nat /\ NotifyReceiveCount \in Nat \ {0}

VARIABLES
  reminder,     \* the run of the schedule
  notifyQueue,  \* the Notify queue: receives left of each message
  queued,       \* how often a reminder was put on the queue for a session
  reminded,     \* the reminders GOV.UK Notify accepted
  cutShort      \* history: a run ended with users still to be served

reminderVars == <<reminder, notifyQueue, queued, reminded, cutShort>>

\* Whom a reminder goes to and whose instructions are attached.
Reminder == [sid : Sessions, yotiSessionId : YotiSessions \cup {None}]

\* fetch, users and flag: whose rows are still to be read, who is still to be sent
\* a reminder, whose flag is still to be set. rejected: a user came back
\* undefined, and the run is over while the others are being served.
NoRun == [at |-> "idle", fetch |-> {}, users |-> {}, flag |-> {}, rejected |-> FALSE]

ReminderInit ==
  /\ reminder = NoRun
  /\ notifyQueue = [m \in Reminder |-> 0]
  /\ queued = [s \in Sessions |-> 0]
  /\ reminded = {}
  /\ cutShort = FALSE

-----------------------------------------------------------------------------
RemindedStates == {"F2F_YOTI_SESSION_CREATED", "F2F_AUTH_CODE_ISSUED",
                   "F2F_ACCESS_TOKEN_ISSUED"}

\* Mutant: the flag is not looked at.
DueForReminderAgain(row) ==
  /\ row.authSessionState \in RemindedStates
  /\ row.expiryDate # None /\ row.expiryDate > now
  /\ row.createdDate # None /\ row.createdDate + ReminderDays <= now

\* What getSessionsByAuthSessionStates returns and the processor's filter keeps.
DueForReminder(row) ==
  /\ row.authSessionState \in RemindedStates
  /\ row.expiryDate # None /\ row.expiryDate > now
  /\ row.createdDate # None /\ row.createdDate + ReminderDays <= now
  /\ ~row.reminderEmailSent

ReminderQuery ==
  /\ reminder = NoRun
  /\ \E batch \in SUBSET Sessions \ {{}} :
       /\ \A s \in batch : \E row \in Visible(s) : DueForReminder(row)
       /\ \A s \in Sessions \ batch : \E row \in Visible(s) : ~DueForReminder(row)
       /\ reminder' = [NoRun EXCEPT !.at = "fetch", !.fetch = batch]
  /\ UNCHANGED <<notifyQueue, queued, reminded, cutShort, vars>>

\* The reads of the batch run in any order; the sends begin when all are done.
Fetched(s, users, rejected) ==
  reminder' = [reminder EXCEPT !.at = IF reminder.fetch = {s} THEN "send" ELSE "fetch",
                               !.fetch = @ \ {s}, !.users = @ \cup users,
                               !.rejected = @ \/ rejected]

\* getSessionById reads the table, not the index: a user whose row is gone is left
\* out; one whose row has expired since, or cannot be read, comes back undefined.
ReminderFetch(s) ==
  /\ reminder.at = "fetch" /\ s \in reminder.fetch
  /\ \/ /\ \E row \in Visible(s) :
             IF SessionById(s, row) /\ person[s].claims
               THEN Fetched(s, {[sid |-> s, yotiSessionId |-> row.yotiSessionId]}, FALSE)
               ELSE Fetched(s, {}, Expired(row))
        /\ UNCHANGED faults
     \/ Fetched(s, {}, TRUE) /\ Fault
  /\ UNCHANGED <<notifyQueue, queued, reminded, cutShort, now, tables, clientVars, yotiVars,
                 invocation, expiry, sinks>>

\* Mutant: the flag is set first.
ReminderSendFlagsFirst(m) ==
  /\ reminder.at = "send" /\ m \in reminder.users
  /\ updateReminderEmailFlag(m.sid)
  /\ reminder' = [reminder EXCEPT !.users = @ \ {m}]
  /\ \/ /\ notifyQueue' = [notifyQueue EXCEPT ![m] = NotifyReceiveCount]
        /\ queued' = [queued EXCEPT ![m.sid] = @ + 1]
        /\ UNCHANGED faults
     \/ Fault /\ UNCHANGED <<notifyQueue, queued>>
  /\ UNCHANGED <<reminded, cutShort, now, person, clientVars, yotiVars, invocation, expiry, sinks>>

\* sendToGovNotify. If it fails, the user is left for the next hour.
ReminderSend(m) ==
  /\ reminder.at = "send" /\ m \in reminder.users
  /\ \/ /\ notifyQueue' = [notifyQueue EXCEPT ![m] = NotifyReceiveCount]
        /\ queued' = [queued EXCEPT ![m.sid] = @ + 1]
        /\ reminder' = [reminder EXCEPT !.users = @ \ {m}, !.flag = @ \cup {m.sid}]
        /\ UNCHANGED faults
     \/ /\ reminder' = [reminder EXCEPT !.users = @ \ {m}]
        /\ Fault
        /\ UNCHANGED <<notifyQueue, queued>>
  /\ UNCHANGED <<reminded, cutShort, now, tables, clientVars, yotiVars, invocation, expiry, sinks>>

ReminderFlag(s) ==
  /\ reminder.at = "send" /\ s \in reminder.flag
  /\ reminder' = [reminder EXCEPT !.flag = @ \ {s}]
  /\ \/ updateReminderEmailFlag(s) /\ UNCHANGED faults
     \/ Fault /\ UNCHANGED <<session, stale>>
  /\ UNCHANGED <<notifyQueue, queued, reminded, cutShort, now, person, clientVars, yotiVars,
                 invocation, expiry, sinks>>

\* All are served; or the undefined user made the run end with others unserved.
ReminderEnds ==
  /\ reminder.at = "send"
  /\ reminder.rejected \/ (reminder.users = {} /\ reminder.flag = {})
  /\ cutShort' = (cutShort \/ reminder.users # {} \/ reminder.flag # {})
  /\ reminder' = NoRun
  /\ UNCHANGED <<notifyQueue, queued, reminded, vars>>

\* The Lambda crashes or times out; the schedule runs it again.
ReminderFails ==
  /\ reminder # NoRun
  /\ reminder' = NoRun
  /\ Fault
  /\ UNCHANGED <<notifyQueue, queued, reminded, cutShort, now, tables, clientVars, yotiVars,
                 invocation, expiry, sinks>>

-----------------------------------------------------------------------------
(* GovNotifyHandler, SendEmailProcessor and SendEmailService.              *)

\* The message is deleted, or delivered once more because the handler ended before
\* it said so.
Received(m) ==
  \/ notifyQueue' = [notifyQueue EXCEPT ![m] = 0] /\ UNCHANGED faults
  \/ notifyQueue' = [notifyQueue EXCEPT ![m] = @ - 1] /\ Fault

\* Notify accepts the e-mail with Yoti's PDF.
ReminderEmail(m) ==
  /\ notifyQueue[m] > 0
  /\ m.yotiSessionId # None
  /\ \E row \in Visible(m.sid) : SessionById(m.sid, row)
  /\ reminded' = reminded \cup {m}
  /\ Received(m)
  /\ UNCHANGED <<reminder, queued, cutShort, now, tables, clientVars, yotiVars, invocation,
                 expiry, sinks>>

\* The session is gone, the Yoti session is missing, or Yoti or Notify fail in spite of
\* the retries: the message is tried again until its receives run out.
ReminderEmailFails(m) ==
  /\ notifyQueue[m] > 0
  /\ notifyQueue' = [notifyQueue EXCEPT ![m] = @ - 1]
  /\ \/ /\ \/ m.yotiSessionId = None
           \/ \E row \in Visible(m.sid) : ~SessionById(m.sid, row)
        /\ UNCHANGED faults
     \/ Fault
  /\ UNCHANGED <<reminder, queued, reminded, cutShort, now, tables, clientVars, yotiVars,
                 invocation, expiry, sinks>>

ReminderNext ==
  \/ ReminderQuery \/ ReminderEnds \/ ReminderFails
  \/ \E s \in Sessions : ReminderFetch(s) \/ ReminderFlag(s)
  \/ \E m \in Reminder : ReminderSend(m) \/ ReminderEmail(m) \/ ReminderEmailFails(m)

ReminderTypeOK ==
  /\ reminder \in [at : {"idle", "fetch", "send"}, fetch : SUBSET Sessions,
                   users : SUBSET Reminder, flag : SUBSET Sessions, rejected : BOOLEAN]
  /\ notifyQueue \in [Reminder -> 0 .. NotifyReceiveCount]
  /\ queued \in [Sessions -> Nat]
  /\ reminded \subseteq Reminder
  /\ cutShort \in BOOLEAN
=============================================================================
