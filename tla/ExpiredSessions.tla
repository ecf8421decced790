--------------------------- MODULE ExpiredSessions --------------------------
(***************************************************************************)
(* ExpiredSessionsProcessor.processRequest, run every 15 minutes: tells    *)
(* IPV Core of sessions whose time to visit a Post Office is over, then    *)
(* marks all of them.                                                      *)
(***************************************************************************)
EXTENDS F2fService

SweptStates == {"F2F_YOTI_SESSION_CREATED", "F2F_AUTH_CODE_ISSUED",
                "F2F_ACCESS_TOKEN_ISSUED", "F2F_POST_OFFICE_VISITED"}

\* Mutant: the day of grace is missing.
OverdueADayEarly(row) ==
  /\ row.authSessionState \in SweptStates
  /\ row.expiryDate # None /\ row.expiryDate > now
  /\ row.createdDate # None /\ row.createdDate + YotiSessionTtl <= now
  /\ ~row.expiredNotificationSent

\* What getSessionsByAuthSessionStates returns and the processor's filter keeps.
\* The index holds only items that have a state; an absent createdDate or
\* expiryDate compares as FALSE.
Overdue(row) ==
  /\ row.authSessionState \in SweptStates
  /\ row.expiryDate # None /\ row.expiryDate > now
  /\ row.createdDate # None /\ row.createdDate + YotiSessionTtl + 1 <= now
  /\ ~row.expiredNotificationSent

\* Mutant: the first phase is skipped.
ExpiryQueryMarksAtOnce ==
  /\ expiry.at = "idle"
  /\ \E batch \in SUBSET Sessions \ {{}} :
       /\ \A s \in batch : \E row \in Visible(s) : Overdue(row)
       /\ \A s \in Sessions \ batch : \E row \in Visible(s) : ~Overdue(row)
       /\ expiry' = [at |-> "mark", todo |-> batch, batch |-> batch]
  /\ UNCHANGED <<now, tables, clientVars, yotiVars, invocation, sinks, faults>>

\* The four queries see one version of each row.
ExpiryQuery ==
  /\ expiry.at = "idle"
  /\ \E batch \in SUBSET Sessions \ {{}} :
       /\ \A s \in batch : \E row \in Visible(s) : Overdue(row)
       /\ \A s \in Sessions \ batch : \E row \in Visible(s) : ~Overdue(row)
       /\ expiry' = [at |-> "notify", todo |-> batch, batch |-> batch]
  /\ UNCHANGED <<now, tables, clientVars, yotiVars, invocation, sinks, faults>>

\* Mutants: the second phase begins with the first promise settled; or never.
ExpiryAdvanceAtFirst(s) ==
  expiry' = IF expiry.at = "notify"
              THEN [expiry EXCEPT !.at = "mark", !.todo = expiry.batch]
            ELSE IF expiry.todo # {s} THEN [expiry EXCEPT !.todo = @ \ {s}]
            ELSE [at |-> "idle", todo |-> {}, batch |-> {}]

ExpiryAdvanceNeverMarks(s) ==
  expiry' = IF expiry.todo # {s} THEN [expiry EXCEPT !.todo = @ \ {s}]
            ELSE [at |-> "idle", todo |-> {}, batch |-> {}]

\* The promises of the batch run in any order; once all are settled, the next
\* phase begins with the whole batch again.
ExpiryAdvance(s) ==
  expiry' = IF expiry.todo # {s} THEN [expiry EXCEPT !.todo = @ \ {s}]
            ELSE IF expiry.at = "notify"
                   THEN [expiry EXCEPT !.at = "mark", !.todo = expiry.batch]
                   ELSE [at |-> "idle", todo |-> {}, batch |-> {}]

\* A message that cannot be sent is logged, and its session is marked later
\* like the others.
ExpiryNotify(s) ==
  /\ expiry.at = "notify" /\ s \in expiry.todo
  /\ \/ sendToIPVCore("expired", s, None) /\ UNCHANGED faults
     \/ Fault /\ UNCHANGED toCore
  /\ ExpiryAdvance(s)
  /\ UNCHANGED <<now, tables, clientVars, yotiVars, invocation, audit>>

ExpiryMark(s) ==
  /\ expiry.at = "mark" /\ s \in expiry.todo
  /\ \/ markSessionAsExpired(s) /\ UNCHANGED faults
     \/ Fault /\ UNCHANGED <<session, stale>>
  /\ ExpiryAdvance(s)
  /\ UNCHANGED <<now, person, clientVars, yotiVars, invocation, sinks>>

\* The Lambda crashes or times out; the schedule runs it again.
ExpiryFails ==
  /\ expiry.at # "idle"
  /\ expiry' = [at |-> "idle", todo |-> {}, batch |-> {}]
  /\ Fault
  /\ UNCHANGED <<now, tables, clientVars, yotiVars, invocation, sinks>>

ExpiryNext ==
  \/ ExpiryQuery
  \/ \E s \in Sessions : ExpiryNotify(s) \/ ExpiryMark(s)
  \/ ExpiryFails
=============================================================================
