------------------------- MODULE F2fSystemInvariant -------------------------
(***************************************************************************)
(* Why InstructionsMatchRow and RemindedOnce hold of F2fSystem: what is    *)
(* true of a session from the moment something that is sent to its user    *)
(* names a Yoti session, and of a user from the moment a reminder is       *)
(* queued for them.                                                        *)
(***************************************************************************)
EXTENDS F2fInvariant, F2fSystem

\* Something that was sent, or is about to be, names y to the user of session s.
Names(s, y) ==
  \/ \E m \in sent \cup reminded \cup reminder.users : m.sid = s /\ m.yotiSessionId = y
  \/ notifyQueue[[sid |-> s, yotiSessionId |-> y]] > 0
  \/ \E z \in YotiSessions : /\ yoti[z].owner = s
                             /\ execution[z].at = "email"
                             /\ execution[z].yotiSessionId = y

\* The row names y or nothing, and no document selection will write another.
Settled(s, y) ==
  /\ session[s].yotiSessionId \in {y, None}
  /\ session[s].authSessionState # "F2F_SESSION_CREATED"
  /\ yoti[y].owner = s
  /\ \A i \in Invocations : invocation[i].sid = s =>
       ~Opens(invocation[i]) /\ ~HasOpened(invocation[i])

\* A row that has a Yoti session admits no document selection any more, and whoever is
\* sent something has such a row, or had it.
NamesSettled ==
  /\ \A s \in Sessions : session[s].yotiSessionId # None =>
       session[s].authSessionState # "F2F_SESSION_CREATED"
  /\ \A y \in YotiSessions : execution[y].at = "email" => yoti[y].owner # None
  /\ \A m \in reminded : m.yotiSessionId \in YotiSessions
  /\ \A s \in Sessions, y \in YotiSessions : Names(s, y) => Settled(s, y)

-----------------------------------------------------------------------------
\* The schedule and the queue know nothing of a session nobody has asked for.
Unnoticed(s) ==
  /\ s \notin reminder.fetch \cup reminder.flag
  /\ \A m \in reminder.users : m.sid # s
  /\ queued[s] = 0

NoticedWhenAsked == \A s \in Sessions : client[s] = "none" => Unnoticed(s)

\* Whoever was put on the queue is marked, or about to be, or will not be found again.
Remembered(s) ==
  \/ s \in reminder.flag \/ session[s].reminderEmailSent
  \/ session[s].createdDate = None

\* Whoever a run of the schedule has yet to serve was never put on the queue.
QueuedOnce ==
  faults = 0 /\ ~cutShort =>
    /\ \A s \in Sessions : /\ queued[s] <= 1
                           /\ queued[s] = 1 => Remembered(s)
    /\ \A s \in reminder.fetch : queued[s] = 0
    /\ \A m \in reminder.users : queued[m.sid] = 0 /\ m.sid \notin reminder.fetch
    /\ \A m, n \in reminder.users : m.sid = n.sid => m = n
=============================================================================
