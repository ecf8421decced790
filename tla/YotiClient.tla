----------------------------- MODULE YotiClient -----------------------------
(***************************************************************************)
(* YotiService against the stub: the Lambdas of several journeys, each a   *)
(* sequence of requests that makeRetryableYotiRequest repeats with a       *)
(* growing pause, and instances of the stub that answer them, whichever is *)
(* free. The letter and the completion of a journey run side by side.      *)
(***************************************************************************)
EXTENDS YotiStub

CONSTANTS
  Callers,        \* journeys under way
  Instances,      \* warm instances of the stub
  Journeys,       \* what the callers may be testing
  MaxRetries,     \* YOTI_FETCH_SESSION_MAX_RETRIES
  Backoff,        \* FETCH_YOTI_SESSION_BACKOFF_PERIOD_MS, in seconds
  GatewayTimeout, \* of the API in front of the stub, in seconds
  LambdaTimeout,  \* in seconds
  MaxDrops        \* bound: requests whose answer is lost

FadCodes == {"valid", "missing", "empty", "malformed", "XXXX"}

ASSUME ClientAssumption ==
  /\ MaxRetries \in Nat /\ MaxRetries >= 2
  /\ Backoff \in Nat /\ GatewayTimeout \in Nat /\ LambdaTimeout \in Nat /\ MaxDrops \in Nat
  /\ Journeys \subseteq [Callers -> [name : STRING, fadCode : FadCodes]]
  /\ {None, "several"} \cap Instances = {} /\ None # "several"

Lambdas == {"selection", "letter", "completion"}

Ops == {"createSession", "fetchSessionInfo", "generateInstructions", "fetchInstructionsPdf",
        "getCompletedSessionInfo", "getMediaContent"}

VARIABLES
  journey,  \* what each caller tests
  counter,  \* yotiRequestCount of each instance
  call,     \* each Lambda of each journey, at its request
  drops     \* answers lost so far

clientVars == <<journey, counter, call, drops>>

\* servedBy, only for the properties: the instance that answered the request so far,
\* or "several" once the Lambda was disturbed: another instance answered too, or the
\* counter was used for someone else in between, or an answer was lost.
Call ==
  [at : {"waiting", "calling", "done", "failed", "cutOff"}, op : Ops, retryCount : Nat,
   elapsed : Nat, servedBy : Instances \cup {None, "several"}]

FirstOp(l) ==
  CASE l = "selection" -> "createSession"
    [] l = "letter" -> "fetchInstructionsPdf"
    [] l = "completion" -> "getCompletedSessionInfo"

NewCall(l) ==
  [at |-> "waiting", op |-> FirstOp(l), retryCount |-> 0, elapsed |-> 0, servedBy |-> None]

\* A Lambda that has ended keeps nothing but how.
End(l, at, servedBy) == [NewCall(l) EXCEPT !.at = at, !.servedBy = servedBy]

ClientInit ==
  /\ journey \in Journeys
  /\ counter = [i \in Instances |-> 0]
  /\ call = [c \in Callers |-> [l \in Lambdas |->
               [NewCall(l) EXCEPT !.at = IF l = "selection" THEN "calling" ELSE "waiting"]]]
  /\ drops = 0

-----------------------------------------------------------------------------
\* The document fields are fetched only of a document that has them.
HasNext(c, op) ==
  \/ op \in {"createSession", "fetchSessionInfo"}
  \/ op = "getCompletedSessionInfo" /\ ScenarioOf(IdOf(journey[c].name)).media # None

NextOp(op) ==
  CASE op = "createSession" -> "fetchSessionInfo"
    [] op = "fetchSessionInfo" -> "generateInstructions"
    [] OTHER -> "getMediaContent"

Response(c, l, i) ==
  Respond(call[c][l].op, journey[c].name, journey[c].fadCode, counter[i])

Slow(status) == IF status = 504 THEN GatewayTimeout ELSE 0

\* Mutant: a stub that is busy is given up.
RetryableTimeout(status) == status > 503 \/ status = 429

Retryable(status) == status >= 500 \/ status = 429

\* Instance i has answered the Lambda l of c: the callers it is in the middle of
\* serving were disturbed if that moved the counter.
Disturbs(c, l, i, other, m) ==
  /\ <<other, m>> # <<c, l>>
  /\ call[other][m].at = "calling" /\ call[other][m].servedBy = i
  /\ counter'[i] # counter[i]

\* The Lambda l of c goes on as new, and those that wait for it start.
Goes(c, l, i, new) ==
  call' = [other \in Callers |-> [m \in Lambdas |->
             IF <<other, m>> = <<c, l>> THEN new
             ELSE IF other = c /\ l = "selection" /\ new.at = "done"
               THEN [call[other][m] EXCEPT !.at = "calling"]
             ELSE IF Disturbs(c, l, i, other, m)
               THEN [call[other][m] EXCEPT !.servedBy = "several"]
             ELSE call[other][m]]]

Answered(c, l, i) ==
  LET r == call[c][l] IN
  /\ r.at = "calling"
  /\ Response(c, l, i).status < 300
  /\ counter' = [counter EXCEPT ![i] = Response(c, l, i).count]
  /\ Goes(c, l, i,
          IF HasNext(c, r.op)
          THEN [r EXCEPT !.op = NextOp(r.op), !.retryCount = 0,
                         !.servedBy = IF @ = "several" THEN @ ELSE None]
          ELSE End(l, "done", None))
  /\ UNCHANGED <<journey, drops>>

\* Mutant: the first retry waits too.
PauseFromTheFirst(retryCount) == Backoff * (retryCount + 1)

Pause(retryCount) == Backoff * retryCount

Serves(servedBy, i) == IF servedBy \in {None, i} THEN i ELSE "several"

\* Mutant: the pause is taken, but the retry not counted.
RetriesUncounted(c, l, i, pause) ==
  LET r == call[c][l]
  IN  [r EXCEPT !.servedBy = Serves(@, i)]

\* The request is repeated after a pause, if the Lambda lives to see the end of it.
Retries(c, l, i, pause) ==
  LET r == call[c][l]
  IN  IF r.elapsed + pause > LambdaTimeout THEN End(l, "cutOff", Serves(r.servedBy, i))
      ELSE [r EXCEPT !.retryCount = @ + 1, !.elapsed = @ + pause,
                     !.servedBy = Serves(@, i)]

\* An error: thrown after the last retry or when it is not to be retried. The first
\* pause is none.
NotAnswered(c, l, i) ==
  LET r == call[c][l]
      status == Response(c, l, i).status
      gaveUp == r.retryCount = MaxRetries \/ ~Retryable(status)
  IN  /\ r.at = "calling" /\ status >= 300
      /\ counter' = [counter EXCEPT ![i] = Response(c, l, i).count]
      /\ Goes(c, l, i,
              IF gaveUp /\ r.elapsed + Slow(status) <= LambdaTimeout
              THEN End(l, "failed", Serves(r.servedBy, i))
              ELSE Retries(c, l, i, Slow(status) + Pause(r.retryCount)))
      /\ UNCHANGED <<journey, drops>>

\* The answer is lost: an error without a response is not retried.
AnswerLost(c, l, i) ==
  /\ call[c][l].at = "calling"
  /\ drops < MaxDrops
  /\ drops' = drops + 1
  /\ counter' = [counter EXCEPT ![i] = Response(c, l, i).count]
  /\ Goes(c, l, i, End(l, "failed", "several"))
  /\ UNCHANGED journey

Request(c, l, i) == Answered(c, l, i) \/ NotAnswered(c, l, i) \/ AnswerLost(c, l, i)

ClientNext == \E c \in Callers, l \in Lambdas, i \in Instances : Request(c, l, i)

ClientSpec ==
  /\ ClientInit /\ [][ClientNext]_clientVars
  /\ \A c \in Callers, l \in Lambdas :
       WF_clientVars(\E i \in Instances : Request(c, l, i))

-----------------------------------------------------------------------------
\* The type of every variable, and the counter of an instance never beyond two.
ClientTypeOK ==
  /\ journey \in Journeys
  /\ counter \in [Instances -> 0..2]
  /\ call \in [Callers -> [Lambdas -> Call]]
  /\ drops \in 0..MaxDrops

\* A journey that is told to retry is served in the end, whatever state the
\* counters are in when it comes: only another instance, another journey or its own
\* other Lambda using the counter in between, or a lost answer, can make it fail.
SoleCallerIsServed ==
  \A c \in Callers, l \in Lambdas :
    /\ journey[c].name = "1601" /\ journey[c].fadCode = "valid"
    /\ call[c][l].at = "failed"
    => call[c][l].servedBy = "several"

\* And its pauses fit into the Lambda's time, three requests in one invocation
\* included.
SoleCallerIsInTime ==
  \A c \in Callers, l \in Lambdas :
    /\ journey[c].name = "1601" /\ call[c][l].at = "cutOff"
    => call[c][l].servedBy = "several"

\* The requests a Lambda makes from one on, and the attempts it has left for them.
RequestsFrom(op) ==
  CASE op = "createSession" -> 3
    [] op \in {"fetchSessionInfo", "getCompletedSessionInfo"} -> 2
    [] OTHER -> 1

AttemptsLeft(r) ==
  IF r.at \in {"waiting", "calling"}
  THEN RequestsFrom(r.op) * (MaxRetries + 1) - r.retryCount
  ELSE 0

\* Every attempt is one of the number the Lambda has: whatever fails, is lost or comes
\* in between, none is made that was not counted, and none is given back.
AttemptsAreCounted ==
  [][ /\ \A c \in Callers, l \in Lambdas :
           AttemptsLeft(call'[c][l]) \in 0..AttemptsLeft(call[c][l])
      /\ \E c \in Callers, l \in Lambdas :
           AttemptsLeft(call'[c][l]) < AttemptsLeft(call[c][l]) ]_clientVars

\* Every Lambda that calls Yoti ends: answered, refused or out of time.
CallsEnd == <>[](\A c \in Callers, l \in Lambdas : call[c][l].at # "calling")

-----------------------------------------------------------------------------
(* The table of expected results the API tests compare credentials with,   *)
(* without the expectations their helper skips because they are falsy.     *)

Approved(strength, validity, document, face) ==
  [strengthScore |-> strength, validityScore |-> validity, verificationScore |-> 3,
   ci |-> {}, failed |-> FALSE, documentMethod |-> document, faceMethod |-> face]

ApprovedInTable ==
  [id \in {"0000", "0003", "0101", "0201", "0400", "0501", "1601"} |->
     Approved(3, 2, "vri", "bvr")]
    @@ [id \in {"0001", "0103", "0133", "0134", "0203", "0401", "0503"} |->
          Approved(3, 2, "vri", "pvr")]
    @@ [id \in {"0100", "0200", "0500"} |-> Approved(4, 3, "vcrypt", "bvr")]
    @@ [id \in {"0102", "0202", "0502"} |-> Approved(4, 3, "vcrypt", "pvr")]

ContraIndicatorInTable ==
  [id \in {"0108", "0109", "0110", "0111", "0112", "0204"} |-> "V01"]
    @@ [id \in {"0113", "0118", "0119", "0120", "0122"} |-> "D14"]
    @@ "0114" :> "D16" @@ "0115" :> "F03"

\* "verificationScore": 0. It says so of 0116, 0126 and 0127 too, whose credentials
\* are verified in full: an expectation that is 0 is among those that are skipped.
UnverifiedInTable ==
  DOMAIN ContraIndicatorInTable \cup {"0117", "0121", "0123", "0124", "0125"}

ErrorInTests == {"0160", "0170", "0180"}

\* What the completion of a journey makes of the answers it has been given.
OutcomeOf(c) == Completion(AnswerOf(IdOf(journey[c].name)))

Completed(c, ids) == call[c]["completion"].at = "done" /\ IdOf(journey[c].name) \in ids

\* Every scenario of the tests ends as they expect, after whatever retries: the
\* scores, methods and contra-indicators of the table, or an error for IPV Core.
EndsAsTested ==
  \A c \in Callers :
    LET id == IdOf(journey[c].name) IN
    /\ Completed(c, DOMAIN ApprovedInTable) => OutcomeOf(c).evidence = ApprovedInTable[id]
    /\ Completed(c, DOMAIN ContraIndicatorInTable) =>
         /\ OutcomeOf(c).told = "credential" /\ OutcomeOf(c).evidence.failed
         /\ OutcomeOf(c).evidence.ci = {ContraIndicatorInTable[id]}
    /\ Completed(c, UnverifiedInTable) => OutcomeOf(c).evidence.verificationScore = 0
    /\ Completed(c, ErrorInTests) => OutcomeOf(c).told = "error"
=============================================================================
