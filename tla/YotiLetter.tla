----------------------------- MODULE YotiLetter -----------------------------
(***************************************************************************)
(* How the instructions reach the user: the state machine of               *)
(* sendYotiLetter.asl.json, which retries nothing and catches nothing, and *)
(* the Lambdas of its three tasks. They hand their results on in an S3     *)
(* bucket, under the Yoti session each of them reads from the session row. *)
(***************************************************************************)
EXTENDS F2fService

CONSTANTS EmailOnly, PrintedLetter   \* PdfPreferenceEnum

ASSUME PreferenceAssumption ==
  EmailOnly \in PdfPreferences /\ PrintedLetter \in PdfPreferences \ {EmailOnly}

VARIABLES
  execution,  \* where the execution started for a Yoti session stands
  bucket,     \* PDFs in S3: folder and Yoti session of the key
  sent        \* what GOV.UK Notify accepted

letterVars == <<execution, bucket, sent>>

\* What no task writes.
others == <<now, tables, clientVars, yotiVars, invocation, expiry, toCore>>

\* yotiSessionId: of the row SendToGovNotify read, while it runs.
Execution == [at : {"generate", "print", "send", "email", "done", "failed"},
              yotiSessionId : YotiSessions \cup {None}]

Pdf == [folder : {"yoti", "merged"}, yotiSessionId : YotiSessions]

Sent == [kind : {"letter", "email"}, sid : Sessions, yotiSessionId : YotiSessions]

LetterInit ==
  /\ execution = [y \in YotiSessions |-> [at |-> "generate", yotiSessionId |-> None]]
  /\ bucket = {}
  /\ sent = {}

-----------------------------------------------------------------------------
\* The execution started for the letter l is about to run this task.
Stands(l, task) == l \in letters /\ execution[l.yotiSessionId].at = task

Move(l, task) == execution' = [execution EXCEPT ![l.yotiSessionId].at = task]

\* The task is done, or its Lambda crashes after all.
MoveOrCrash(l, task) ==
  \/ Move(l, task) /\ UNCHANGED faults
  \/ Move(l, "failed") /\ Fault

\* Mutant: everyone's instructions are printed.
LetterChoicePrints(preference) ==
  IF preference \in {EmailOnly, PrintedLetter} THEN "print" ELSE "failed"

\* LetterChoiceState: there is no default for any other preference.
LetterChoice(preference) ==
  CASE preference = EmailOnly     -> "send"
    [] preference = PrintedLetter -> "print"
    [] OTHER                      -> "failed"

\* Mutant: a row without a Yoti session is used all the same.
GenerateYotiLetterUnchecked(l) ==
  /\ Stands(l, "generate")
  /\ \E row \in Visible(l.sid) :
       /\ SessionById(l.sid, row)
       /\ bucket' = bucket \cup {[folder |-> "yoti", yotiSessionId |-> row.yotiSessionId]}
  /\ MoveOrCrash(l, LetterChoice(l.pdfPreference))
  /\ UNCHANGED <<sent, audit, others>>

\* GenerateYotiLetterProcessor: Yoti's PDF for the Yoti session the row names,
\* which need not be there yet. The state machine then takes its choice.
GenerateYotiLetter(l) ==
  /\ Stands(l, "generate")
  /\ \E row \in Visible(l.sid) :
       /\ SessionById(l.sid, row) /\ row.yotiSessionId # None
       /\ bucket' = bucket \cup {[folder |-> "yoti", yotiSessionId |-> row.yotiSessionId]}
  /\ MoveOrCrash(l, LetterChoice(l.pdfPreference))
  /\ UNCHANGED <<sent, audit, others>>

\* GeneratePrintedLetterProcessor: the cover letter and Yoti's PDF in one.
GeneratePrintedLetter(l) ==
  /\ Stands(l, "print")
  /\ \E row \in Visible(l.sid) :
       /\ SessionById(l.sid, row)
       /\ [folder |-> "yoti", yotiSessionId |-> row.yotiSessionId] \in bucket
       /\ bucket' = bucket \cup {[folder |-> "merged", yotiSessionId |-> row.yotiSessionId]}
  /\ MoveOrCrash(l, "send")
  /\ UNCHANGED <<sent, audit, others>>

\* Both handlers turn an error into a result without the session id and the
\* preference the next state asks for, so the execution fails there.
LetterNotGenerated(l) ==
  /\ \/ /\ Stands(l, "generate")
        /\ \E row \in Visible(l.sid) : ~SessionById(l.sid, row) \/ row.yotiSessionId = None
        /\ UNCHANGED faults
     \/ /\ Stands(l, "print")
        /\ \E row \in Visible(l.sid) :
             \/ ~SessionById(l.sid, row)
             \/ [folder |-> "yoti", yotiSessionId |-> row.yotiSessionId] \notin bucket
        /\ UNCHANGED faults
     \/ (Stands(l, "generate") \/ Stands(l, "print")) /\ Fault
  /\ Move(l, "failed")
  /\ UNCHANGED <<bucket, sent, audit, others>>

Notify(kind, s, y) == sent' = sent \cup {[kind |-> kind, sid |-> s, yotiSessionId |-> y]}

\* The person row asks for a letter now, and one was generated.
ToBePosted(l, y) ==
  /\ person[l.sid].pdfPreference = PrintedLetter
  /\ [folder |-> "merged", yotiSessionId |-> y] \in bucket

\* SendToGovNotifyService.sendYotiInstructions: the letter first. One that is
\* missing or cannot be sent is logged, and the e-mail is tried all the same.
SendLetter(l) ==
  /\ Stands(l, "send")
  /\ person[l.sid].claims
  /\ \E row \in Visible(l.sid) :
       LET y == row.yotiSessionId
           GoOn == execution' = [execution EXCEPT ![l.yotiSessionId] =
                                   [at |-> "email", yotiSessionId |-> y]]
       IN
       /\ SessionById(l.sid, row)
       /\ \/ /\ ToBePosted(l, y)
             /\ Notify("letter", l.sid, y)
             /\ \/ SendToTxmaOrLog(l.sid, {"F2F_YOTI_PDF_LETTER_POSTED"}) /\ GoOn
                \/ Move(l, "failed") /\ Fault /\ UNCHANGED audit
          \/ /\ IF ToBePosted(l, y) THEN Fault ELSE UNCHANGED faults
             /\ GoOn
             /\ UNCHANGED <<sent, audit>>
  /\ UNCHANGED <<bucket, others>>

\* Then the e-mail with Yoti's PDF.
SendEmail(l) ==
  LET y == execution[l.yotiSessionId].yotiSessionId IN
  /\ Stands(l, "email")
  /\ [folder |-> "yoti", yotiSessionId |-> y] \in bucket
  /\ Notify("email", l.sid, y)
  /\ \/ SendToTxmaOrLog(l.sid, {"F2F_YOTI_PDF_EMAILED"}) /\ Move(l, "done")
     \/ Move(l, "failed") /\ Fault /\ UNCHANGED audit
  /\ UNCHANGED <<bucket, others>>

\* The session is gone, there is no PDF, or Notify refuses the e-mail.
InstructionsNotSent(l) ==
  /\ \/ /\ Stands(l, "send")
        /\ \E row \in Visible(l.sid) : ~SessionById(l.sid, row)
        /\ UNCHANGED faults
     \/ /\ Stands(l, "email")
        /\ [folder |-> "yoti",
            yotiSessionId |-> execution[l.yotiSessionId].yotiSessionId] \notin bucket
        /\ UNCHANGED faults
     \/ (Stands(l, "send") \/ Stands(l, "email")) /\ Fault
  /\ Move(l, "failed")
  /\ UNCHANGED <<bucket, sent, audit, others>>

LetterNext ==
  \E l \in letters :
    \/ GenerateYotiLetter(l) \/ GeneratePrintedLetter(l) \/ LetterNotGenerated(l)
    \/ SendLetter(l) \/ SendEmail(l) \/ InstructionsNotSent(l)

LetterTypeOK ==
  /\ execution \in [YotiSessions -> Execution]
  /\ bucket \subseteq Pdf
  /\ sent \subseteq Sent
=============================================================================
