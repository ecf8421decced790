------------------------------ MODULE F2fSystem -----------------------------
(***************************************************************************)
(* The journey together with what the user is sent: the instructions, as   *)
(* an e-mail and a letter, and the reminder.                               *)
(***************************************************************************)
EXTENDS F2fJourney, YotiLetter, Reminders

systemVars == <<vars, letterVars, reminderVars>>

SystemInit == Init /\ LetterInit /\ ReminderInit

SystemNext ==
  \/ Next /\ UNCHANGED <<letterVars, reminderVars>>
  \/ LetterNext /\ UNCHANGED reminderVars
  \/ ReminderNext /\ UNCHANGED letterVars

SystemSpec == SystemInit /\ [][SystemNext]_systemVars

-----------------------------------------------------------------------------
\* The type of every variable of the composition.
SystemTypeOK == TypeOK /\ LetterTypeOK /\ ReminderTypeOK

\* The barcode the user is sent, by e-mail, by post or with a reminder, is the one of
\* the Yoti session on their row, so that what Yoti reports of it finds the row;
\* although a failed document selection leaves an execution of another Yoti session
\* behind. It takes one invocation at a time and reads that see every write.
InstructionsMatchRow ==
  \A m \in sent \cup reminded :
    session[m.sid].yotiSessionId \in {m.yotiSessionId, None}

\* A letter is posted only to a user one of whose Yoti sessions was opened with that
\* preference, however often a later request changes the preference.
PostedWasAskedFor ==
  \A m \in sent : m.kind = "letter" =>
    \E l \in letters : l.sid = m.sid /\ l.pdfPreference = PrintedLetter

\* A row that says the user was reminded tells the truth, whatever failed.
FlagMeansQueued ==
  \A s \in Sessions : session[s].reminderEmailSent => queued[s] > 0

\* When reads see every write, a reminder is queued twice only after a failed call or
\* after a run that ended before it had served everyone.
RemindedOnce == faults = 0 /\ ~cutShort => \A s \in Sessions : queued[s] <= 1

\* The service tells its users what InstructionsPromise says, step by step.
Told == INSTANCE InstructionsPromise WITH
  owner      <- [y \in YotiSessions |-> yoti[y].owner],
  instructed <- {letter.yotiSessionId : letter \in letters},
  asked      <- {letter.sid : letter \in {l \in letters : l.pdfPreference = PrintedLetter}},
  due        <- {s \in Sessions : queued[s] > 0},
  told       <- sent \cup {[kind |-> "reminder", sid |-> m.sid,
                            yotiSessionId |-> m.yotiSessionId] : m \in reminded}

\* Nobody is sent the barcode of someone else, or of a Yoti session whose instructions
\* were never started, by any of the ways it may take through rows, PDFs, executions and
\* queues: every step of the system is a step of InstructionsPromise or leaves it alone.
KeepsInstructions == Told!TellSpec
=============================================================================
