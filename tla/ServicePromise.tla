--------------------------- MODULE ServicePromise ---------------------------
(***************************************************************************)
(* What the service promises to IPV Core, without tables, queues or        *)
(* handlers: who may get an authorization code, and whose credential may   *)
(* be delivered. F2fJourney is shown to implement it.                      *)
(***************************************************************************)
CONSTANTS Sessions, YotiSessions, Codes, None

VARIABLES
  owner,       \* the session a Yoti session was opened for
  instructed,  \* sessions whose instructions letter was started
  authorised,  \* the session an authorization code was issued to
  uploaded,    \* sessions whose documents were reported uploaded
  delivered    \* credentials IPV Core received: session and Yoti session

promiseVars == <<owner, instructed, authorised, uploaded, delivered>>

PromiseInit ==
  /\ owner = [y \in YotiSessions |-> None]
  /\ instructed = {}
  /\ authorised = [c \in Codes |-> None]
  /\ uploaded = {}
  /\ delivered = {}

Open(s, y) ==
  /\ owner[y] = None
  /\ owner' = [owner EXCEPT ![y] = s]
  /\ UNCHANGED <<instructed, authorised, uploaded, delivered>>

\* A letter tells the user where to go: there is a Yoti session to go there for.
Instruct(s) ==
  /\ \E y \in YotiSessions : owner[y] = s
  /\ instructed' = instructed \cup {s}
  /\ UNCHANGED <<owner, authorised, uploaded, delivered>>

\* A code is issued once, to a user who has been told what to do.
Authorise(s, c) ==
  /\ authorised[c] = None
  /\ s \in instructed
  /\ authorised' = [authorised EXCEPT ![c] = s]
  /\ UNCHANGED <<owner, instructed, uploaded, delivered>>

Upload(s) ==
  /\ \E y \in YotiSessions : owner[y] = s
  /\ uploaded' = uploaded \cup {s}
  /\ UNCHANGED <<owner, instructed, authorised, delivered>>

\* The credential of a Yoti session goes to its owner, after the upload.
Deliver(s, y) ==
  /\ owner[y] = s
  /\ s \in uploaded
  /\ delivered' = delivered \cup {[sid |-> s, yotiSessionId |-> y]}
  /\ UNCHANGED <<owner, instructed, authorised, uploaded>>

PromiseNext ==
  \E s \in Sessions :
    \/ \E y \in YotiSessions : Open(s, y) \/ Deliver(s, y)
    \/ \E c \in Codes : Authorise(s, c)
    \/ Instruct(s)
    \/ Upload(s)

PromiseSpec == PromiseInit /\ [][PromiseNext]_promiseVars
=============================================================================
