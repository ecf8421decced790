---------------------------- MODULE MCF2fJourney ----------------------------
EXTENDS F2fInvariant, TLC

\* The ids of one kind are interchangeable: no definition names one of them.
Symmetry == Permutations(Sessions) \cup Permutations(YotiSessions)
              \cup Permutations(Codes) \cup Permutations(Invocations)

\* Bound: the user visits a Post Office, and Yoti reports nothing after that.
VisitsOnly == \A y \in YotiSessions : yoti[y].progress \in {"unused", "open", "visited"}

\* The bound is part of the steps, since fairness is about all behaviours. No step of
\* Fairness is one of Yoti.
VisitsSpec == Init /\ [][Next /\ VisitsOnly']_vars /\ Fairness

\* Bound: a behaviour has failed calls or reads that lag, not both.
LagOrFaults == faults = 0 \/ \A s \in Sessions : stale[s] = {}

\* Bound: on the last day, on which DynamoDB deletes rows, what is under way ends and
\* nothing begins.
NothingBegins ==
  now = LastDay =>
    /\ \A i \in Invocations : IsIdle(i) => invocation'[i] = invocation[i]
    /\ expiry.at = "idle" => expiry' = expiry

\* Bound: the first day, on which nothing is overdue, ends with nothing under way; what
\* meets the sweep or the deletion of its row begins on the second.
FirstDayEnds ==
  now = 0 /\ now' = 1 => \A i \in Invocations : IsIdle(i)
=============================================================================
