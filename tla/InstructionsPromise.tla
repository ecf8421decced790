------------------------- MODULE InstructionsPromise -------------------------
(***************************************************************************)
(* What the service promises its users, without rows, executions, PDFs or  *)
(* queues: whose barcode they are sent, by which way, and not before what. *)
(* F2fSystem is shown to implement it.                                     *)
(***************************************************************************)
CONSTANTS Sessions, YotiSessions, None

VARIABLES
  owner,       \* the session a Yoti session was opened for
  instructed,  \* Yoti sessions whose letter was started
  asked,       \* sessions that asked for a printed letter
  due,         \* sessions a reminder was queued for
  told         \* what the users were sent: the way, the session, the barcode

tellVars == <<owner, instructed, asked, due, told>>

TellInit ==
  /\ owner = [y \in YotiSessions |-> None]
  /\ instructed = {} /\ asked = {} /\ due = {} /\ told = {}

Open(s, y) ==
  /\ owner[y] = None
  /\ owner' = [owner EXCEPT ![y] = s]
  /\ UNCHANGED <<instructed, asked, due, told>>

\* The user's preference goes with the letter, not with the session.
Instruct(s, y) ==
  /\ owner[y] = s
  /\ instructed' = instructed \cup {y}
  /\ asked' \in {asked, asked \cup {s}}
  /\ UNCHANGED <<owner, due, told>>

\* Nobody is reminded of what they were not told.
Remind(s) ==
  /\ \E y \in instructed : owner[y] = s
  /\ due' = due \cup {s}
  /\ UNCHANGED <<owner, instructed, asked, told>>

\* A barcode goes to the user it was made for, as a letter only if they asked for one,
\* and again only as a reminder.
Tell(kind, s, y) ==
  /\ owner[y] = s /\ y \in instructed
  /\ kind = "letter" => s \in asked
  /\ kind = "reminder" => s \in due
  /\ told' = told \cup {[kind |-> kind, sid |-> s, yotiSessionId |-> y]}
  /\ UNCHANGED <<owner, instructed, asked, due>>

TellNext ==
  \E s \in Sessions :
    \/ Remind(s)
    \/ \E y \in YotiSessions :
         \/ Open(s, y) \/ Instruct(s, y)
         \/ \E kind \in {"email", "letter", "reminder"} : Tell(kind, s, y)

TellSpec == TellInit /\ [][TellNext]_tellVars
=============================================================================
