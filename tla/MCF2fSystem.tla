----------------------------- MODULE MCF2fSystem ----------------------------
EXTENDS F2fSystem, TLC

\* The ids of one kind are interchangeable: no definition names one of them.
Symmetry == Permutations(Sessions) \cup Permutations(YotiSessions)

\* Bound: Yoti reports nothing, nobody aborts, and the schedule does not sweep.
InstructionsOnly ==
  /\ \A y \in YotiSessions : yoti[y].progress \in {"unused", "open"}
  /\ \A s \in Sessions : session[s].authSessionState # "F2F_CRI_SESSION_ABORTED"
  /\ expiry.at = "idle"

Started == {l \in letters : execution[l.yotiSessionId].at # "generate"}

\* Bound: the executions of one session run, those of the other wait for longer than
\* the run lasts; and no request or letter is under way after the first day.
OneThingAtATime ==
  /\ \A l, k \in Started : l.sid = k.sid
  /\ now > 0 =>
       /\ \A l \in Started : execution[l.yotiSessionId].at \in {"done", "failed"}
       /\ \A i \in Invocations : IsIdle(i)

\* Bound: DynamoDB gets to one of the expired rows while the run lasts.
OneDeletion ==
  \A s, t \in Sessions :
    client[s] # "none" /\ client[t] # "none" /\ session[s] = NoRow /\ session[t] = NoRow
      => s = t

\* Bound: two reminders at most, of one session or of two.
TwoReminders ==
  /\ \A s \in Sessions : queued[s] <= 2
  /\ \A s, t \in Sessions : s # t => queued[s] + queued[t] <= 2
=============================================================================
