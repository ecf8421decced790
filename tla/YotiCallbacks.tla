---------------------------- MODULE YotiCallbacks ---------------------------
(***************************************************************************)
(* What Yoti reports of a session and what the service does with it: the   *)
(* callback queue, TriggerYotiCallbackStateMachineHandler, the state       *)
(* machine of yotiCallback.asl.json (which retries nothing and catches     *)
(* nothing) and the two processors it chooses from by topic.               *)
(***************************************************************************)
EXTENDS F2fService

-----------------------------------------------------------------------------
(* Yoti and the Post Office, known from the callbacks they send.           *)

Reports == {[from |-> "open",     to |-> "visited",   topic |-> "first_branch_visit"],
            [from |-> "visited",  to |-> "uploaded",  topic |-> "thank_you_email_requested"],
            [from |-> "uploaded", to |-> "completed", topic |-> "session_completion"]}

\* session_deadline of the Yoti session: when the user can no longer visit.
YotiDeadline(y) == yoti[y].createdDate + YotiSessionTtl

YotiReports(y, report) ==
  /\ yoti[y].progress = report.from
  /\ now <= YotiDeadline(y)
  /\ yoti' = [yoti EXCEPT ![y].progress = report.to]
  /\ callbacks' = [callbacks EXCEPT ![<<y, report.topic>>] = MaxReceiveCount]
  /\ UNCHANGED <<now, tables, clientVars, letters, invocation, expiry, sinks, faults>>

-----------------------------------------------------------------------------
(* The queue and the state machine.                                        *)

\* Mutant: the thank-you processor writes the state first.
FirstStepWritesFirst(topic) ==
  CASE topic = "first_branch_visit"        -> "visit:update"
    [] topic = "thank_you_email_requested" -> "thankYou:update"
    [] topic = "session_completion"        -> "completion:yoti"

\* Where the processor the topic leads to stands once it has read the session.
FirstStep(topic) ==
  CASE topic = "first_branch_visit"        -> "visit:update"
    [] topic = "thank_you_email_requested" -> "thankYou:audit"
    [] topic = "session_completion"        -> "completion:yoti"

\* The message is deleted, or SQS delivers it once more.
Receive(m) ==
  /\ callbacks[m] > 0
  /\ \/ callbacks' = [callbacks EXCEPT ![m] = 0] /\ UNCHANGED faults
     \/ callbacks' = [callbacks EXCEPT ![m] = @ - 1] /\ Fault

\* StartExecution succeeds and the processor finds the session of the callback.
CallbackStarts(i, y, topic) ==
  /\ IsIdle(i)
  /\ Receive(<<y, topic>>)
  /\ \E s \in Sessions : \E row \in Visible(s) :
       /\ SessionByYotiId(y, s, YotiIndexItem(row))
       /\ invocation' = [invocation EXCEPT ![i] =
                           [Idle EXCEPT !.at = FirstStep(topic), !.sid = s,
                                        !.row = YotiIndexItem(row),
                                        !.yotiSessionId = y]]
  /\ UNCHANGED <<now, tables, clientVars, yoti, letters, expiry, sinks>>

\* The index does not show the session yet, or no more: the processor throws,
\* the execution fails, and the message is gone all the same.
CallbackLost(y, topic) ==
  /\ Receive(<<y, topic>>)
  /\ NoSessionByYotiId(y)
  /\ UNCHANGED <<now, tables, clientVars, yoti, letters, invocation, expiry, sinks>>

\* StartExecution fails: the message stays until its receives run out and it
\* moves to the dead letter queue.
StartExecutionFails(y, topic) ==
  /\ callbacks[<<y, topic>>] > 0
  /\ callbacks' = [callbacks EXCEPT ![<<y, topic>>] = @ - 1]
  /\ Fault
  /\ UNCHANGED <<now, tables, clientVars, yoti, letters, invocation, expiry, sinks>>

-----------------------------------------------------------------------------
(* PostOfficeVisitProcessor                                                *)

\* processFirstBranchVisit: no look at the state the session is in.
FirstBranchVisit(i) ==
  /\ At(i, "visit:update")
  /\ updateSessionAuthState(invocation[i].sid, "F2F_POST_OFFICE_VISITED")
  /\ Return(i)
  /\ UNCHANGED <<now, person, clientVars, yotiVars, expiry, sinks, faults>>

\* processThankYouEmail: the event first; if it cannot be sent, nothing is written.
ThankYouAudit(i) ==
  /\ At(i, "thankYou:audit")
  /\ SendToTxma(invocation[i].sid, "F2F_DOCUMENT_UPLOADED")
  /\ Goto(i, "thankYou:update")
  /\ UNCHANGED <<now, tables, clientVars, yotiVars, expiry, toCore, faults>>

ThankYouUpdate(i) ==
  /\ At(i, "thankYou:update")
  /\ updateSessionAuthState(invocation[i].sid, "F2F_YOTI_SESSION_COMPLETE")
  /\ Return(i)
  /\ UNCHANGED <<now, person, clientVars, yotiVars, expiry, sinks, faults>>

-----------------------------------------------------------------------------
(* YotiSessionCompletionProcessor                                          *)

\* sendErrorMessageToIPVCore: a failure to send is logged, and the processor
\* ends in either case.
CompletionRefused(i) ==
  /\ \/ /\ sendToIPVCore("error", invocation[i].sid, invocation[i].yotiSessionId)
        /\ UNCHANGED faults
     \/ Fault /\ UNCHANGED toCore
  /\ Return(i)

\* Yoti's answer lacks something the credential needs.
CompletionAnswerUnusable(i) ==
  /\ At(i, "completion:yoti")
  /\ CompletionRefused(i)
  /\ UNCHANGED <<now, tables, clientVars, yotiVars, expiry, audit>>

\* The answer is complete, but the row read before is in another state.
CompletionWrongState(i) ==
  /\ At(i, "completion:yoti")
  /\ invocation[i].row.authSessionState # "F2F_YOTI_SESSION_COMPLETE"
  /\ CompletionRefused(i)
  /\ UNCHANGED <<now, tables, clientVars, yotiVars, expiry, audit>>

\* Mutant: the state of the session is not checked.
CompletionAnswerUsableAnyState(i) ==
  /\ At(i, "completion:yoti")
  /\ SendToTxmaOrLog(invocation[i].sid, {"F2F_YOTI_RESPONSE_RECEIVED"})
  /\ invocation' = [invocation EXCEPT ![i].at = "completion:credential",
                                      ![i].row = NoRow]
  /\ UNCHANGED <<now, tables, clientVars, yotiVars, expiry, toCore>>

CompletionAnswerUsable(i) ==
  /\ At(i, "completion:yoti")
  /\ invocation[i].row.authSessionState = "F2F_YOTI_SESSION_COMPLETE"
  /\ SendToTxmaOrLog(invocation[i].sid, {"F2F_YOTI_RESPONSE_RECEIVED"})
  /\ invocation' = [invocation EXCEPT ![i].at = "completion:credential",
                                      ![i].row = NoRow]
  /\ UNCHANGED <<now, tables, clientVars, yotiVars, expiry, toCore>>

\* Mutant: the error is sent, and the processor does not return.
CompletionNoCredentialGoesOn(i) ==
  /\ At(i, "completion:credential")
  /\ sendToIPVCore("error", invocation[i].sid, invocation[i].yotiSessionId)
  /\ UNCHANGED <<now, tables, clientVars, yotiVars, invocation, expiry, audit, faults>>

\* Names or evidence are missing, or the credential cannot be signed.
CompletionNoCredential(i) ==
  /\ At(i, "completion:credential")
  /\ CompletionRefused(i)
  /\ UNCHANGED <<now, tables, clientVars, yotiVars, expiry, audit>>

\* Mutant: the message is lost, and the processor goes on as if it were sent.
CompletionCredentialLost(i) ==
  /\ At(i, "completion:credential")
  /\ Goto(i, "completion:update")
  /\ UNCHANGED <<now, tables, clientVars, yotiVars, expiry, sinks, faults>>

CompletionCredential(i) ==
  /\ At(i, "completion:credential")
  /\ sendToIPVCore("credential", invocation[i].sid, invocation[i].yotiSessionId)
  /\ Goto(i, "completion:update")
  /\ UNCHANGED <<now, tables, clientVars, yotiVars, expiry, audit, faults>>

CompletionUpdate(i) ==
  /\ At(i, "completion:update")
  /\ SendToTxmaOrLog(invocation[i].sid, {"F2F_CRI_VC_ISSUED"})
  /\ updateSessionAuthState(invocation[i].sid, "F2F_CREDENTIAL_ISSUED")
  /\ Return(i)
  /\ UNCHANGED <<now, person, clientVars, yotiVars, expiry, toCore>>

\* The answer cannot be scored, or names a document type no event exists for:
\* the processor throws where it is, and IPV Core is told nothing more.
CompletionThrows(i) ==
  /\ At(i, "completion:credential") \/ At(i, "completion:update")
  /\ Return(i)
  /\ UNCHANGED <<now, tables, clientVars, yotiVars, expiry, sinks, faults>>

-----------------------------------------------------------------------------
CallbackNext ==
  \/ \E y \in YotiSessions :
       \/ \E report \in Reports : YotiReports(y, report)
       \/ \E topic \in Topics :
            \/ \E i \in Invocations : CallbackStarts(i, y, topic)
            \/ CallbackLost(y, topic)
            \/ StartExecutionFails(y, topic)
  \/ \E i \in Invocations :
       \/ FirstBranchVisit(i) \/ ThankYouAudit(i) \/ ThankYouUpdate(i)
       \/ CompletionAnswerUnusable(i) \/ CompletionWrongState(i)
       \/ CompletionAnswerUsable(i) \/ CompletionNoCredential(i)
       \/ CompletionCredential(i) \/ CompletionUpdate(i) \/ CompletionThrows(i)
=============================================================================
