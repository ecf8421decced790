-------------------------- MODULE YotiClientProofs --------------------------
(***************************************************************************)
(* What is proved of YotiClient, for any number of journeys, of instances  *)
(* of the stub and of lost answers, and for whatever the journeys test.    *)
(***************************************************************************)
EXTENDS YotiClient, TLAPS

\* The journey that is told to retry.
Retrying(c) == journey[c].name = "1601" /\ journey[c].fadCode = "valid"

\* As long as nothing disturbs a request, the instance that serves it has counted at
\* least the retries of this request.
CountedRetries ==
  \A c \in Callers, l \in Lambdas :
    Retrying(c) =>
      /\ call[c][l].at = "failed" => call[c][l].servedBy = "several"
      /\ call[c][l].at = "calling" /\ call[c][l].servedBy = None => call[c][l].retryCount = 0
      /\ call[c][l].at = "calling" =>
           \A i \in Instances :
             call[c][l].servedBy = i => call[c][l].retryCount <= counter[i]

\* A Lambda that waits has made no request, and the letter and the completion wait for
\* the selection.
IdleLambdas ==
  \A c \in Callers, l \in Lambdas :
    /\ call[c][l].at = "waiting" => call[c][l].servedBy = None /\ call[c][l].retryCount = 0
    /\ call[c]["selection"].at = "calling" /\ l # "selection" => call[c][l].at = "waiting"

ClientInv == ClientTypeOK /\ CountedRetries /\ IdleLambdas

-----------------------------------------------------------------------------
(* The stub.                                                               *)

\* Every count an instance answers with is at most two.
LEMMA CountsOfRespond ==
  ASSUME NEW op, NEW name, NEW fadCode, NEW n \in 0..2
  PROVE  Respond(op, name, fadCode, n).count \in 0..2
<1>1. TwiceUnavailable(n).count \in 0..2
  BY DEF TwiceUnavailable
<1> QED
  BY <1>1 DEF Respond

\* The document fields of the scenario 1601 are always there.
LEMMA MediaOf1601 == getMediaContent(ScenarioOf(IdOf("1601")).media) = 200
<1>1. IdOf("1601") = "1601"
  BY DEF IdOf
<1>2. ScenarioOf("1601").media = "0000"
  BY DEF ScenarioOf, Scenario
<1> QED
  BY <1>1, <1>2 DEF getMediaContent, MediaIds

\* Told to retry, a journey is answered or counted.
LEMMA RespondTo1601 ==
  ASSUME NEW op \in Ops, NEW n \in 0..2
  PROVE  LET r == Respond(op, "1601", "valid", n)
         IN  r.status >= 300 => r.status = 503 /\ n < 2 /\ r.count = n + 1
<1>1. FadCodeStatus("valid") = 200
  BY DEF FadCodeStatus
<1>2. CASE op = "getMediaContent"
  <2>1. Respond(op, "1601", "valid", n).status = 200
    BY <1>1, <1>2, MediaOf1601 DEF Respond
  <2> QED
    BY <2>1
<1>3. CASE op # "getMediaContent"
  <2>1. Respond(op, "1601", "valid", n) = TwiceUnavailable(n)
    BY <1>1, <1>3 DEF Respond
  <2> QED
    BY <2>1 DEF TwiceUnavailable
<1> QED
  BY <1>2, <1>3

-----------------------------------------------------------------------------
(* Types.                                                                  *)

LEMMA NewCallTyped == \A l \in Lambdas : NewCall(l) \in Call
  BY DEF NewCall, FirstOp, Lambdas, Call, Ops

LEMMA EndTyped ==
  ASSUME NEW l \in Lambdas, NEW at \in {"waiting", "calling", "done", "failed", "cutOff"},
         NEW servedBy \in Instances \cup {None, "several"}
  PROVE  /\ End(l, at, servedBy) \in Call
         /\ End(l, at, servedBy).at = at /\ End(l, at, servedBy).servedBy = servedBy
         /\ End(l, at, servedBy).retryCount = 0
  BY DEF End, NewCall, FirstOp, Lambdas, Call, Ops

LEMMA RetriesTyped ==
  ASSUME ClientTypeOK, NEW c \in Callers, NEW l \in Lambdas, NEW i \in Instances,
         NEW pause \in Nat
  PROVE  /\ Retries(c, l, i, pause) \in Call
         /\ Retries(c, l, i, pause).at \in {call[c][l].at, "cutOff"}
         /\ Retries(c, l, i, pause).servedBy = Serves(call[c][l].servedBy, i)
         /\ Retries(c, l, i, pause).retryCount \in {0, call[c][l].retryCount + 1}
<1>1. call[c][l] \in Call
  BY DEF ClientTypeOK
<1>2. Serves(call[c][l].servedBy, i) \in Instances \cup {None, "several"}
  BY <1>1 DEF Serves, Call
<1>3. CASE call[c][l].elapsed + pause > LambdaTimeout
  BY <1>2, <1>3, EndTyped DEF Retries
<1>4. CASE ~(call[c][l].elapsed + pause > LambdaTimeout)
  <2> DEFINE r == call[c][l]
             new == [at |-> r.at, op |-> r.op, retryCount |-> r.retryCount + 1,
                     elapsed |-> r.elapsed + pause, servedBy |-> Serves(r.servedBy, i)]
  <2>1. Retries(c, l, i, pause) = new
    BY <1>1, <1>4 DEF Retries, Call
  <2>2. new \in Call
    BY <1>1, <1>2 DEF Call
  <2> QED
    BY <2>1, <2>2
<1> QED
  BY <1>3, <1>4

\* What a step does to the Lambdas, when the one it is about goes on as new.
LEMMA GoesTyped ==
  ASSUME ClientTypeOK, NEW c \in Callers, NEW l \in Lambdas, NEW i \in Instances,
         NEW new \in Call, Goes(c, l, i, new)
  PROVE  call' \in [Callers -> [Lambdas -> Call]]
<1>1. \A other \in Callers, m \in Lambdas : call[other][m] \in Call
  BY DEF ClientTypeOK
<1>2. \A other \in Callers, m \in Lambdas :
        /\ [call[other][m] EXCEPT !.at = "calling"] \in Call
        /\ [call[other][m] EXCEPT !.servedBy = "several"] \in Call
  BY <1>1 DEF Call
<1> QED
  BY <1>1, <1>2 DEF Goes

\* What a step leaves of the Lambdas it is not about.
LEMMA GoesElsewhere ==
  ASSUME ClientTypeOK, NEW c \in Callers, NEW l \in Lambdas, NEW i \in Instances,
         NEW new \in Call, Goes(c, l, i, new), NEW other \in Callers, NEW m \in Lambdas,
         <<other, m>> # <<c, l>>
  PROVE  \/ /\ call'[other][m] = [call[other][m] EXCEPT !.at = "calling"]
            /\ other = c /\ l = "selection" /\ m # "selection" /\ new.at = "done"
         \/ /\ call'[other][m] = [call[other][m] EXCEPT !.servedBy = "several"]
            /\ call[other][m].at = "calling"
         \/ /\ call'[other][m] = call[other][m]
            /\ call[other][m].at = "calling" /\ call[other][m].servedBy = i
                 => counter'[i] = counter[i]
  BY DEF Goes, Disturbs

\* What a request may turn its Lambda into.
Possible(c, l, i, new) ==
  /\ new \in Call
  /\ Goes(c, l, i, new)
  /\ counter' = [counter EXCEPT ![i] = Response(c, l, i).count]
  /\ journey' = journey
  /\ drops' \in 0..MaxDrops
  /\ call[c][l].at = "calling"
  /\ new.at # "waiting"
  /\ Retrying(c) =>
       /\ new.at = "failed" => new.servedBy = "several"
       /\ new.at = "calling" /\ new.servedBy = None => new.retryCount = 0
       /\ new.at = "calling" /\ new.servedBy \in Instances =>
            new.servedBy = i /\ new.retryCount <= Response(c, l, i).count

LEMMA AnsweredPossible ==
  ASSUME ClientInv, NEW c \in Callers, NEW l \in Lambdas, NEW i \in Instances,
         Answered(c, l, i)
  PROVE  \E new \in Call : Possible(c, l, i, new)
<1> DEFINE r == call[c][l]
           next == [r EXCEPT !.op = NextOp(r.op), !.retryCount = 0,
                             !.servedBy = IF @ = "several" THEN @ ELSE None]
           ended == End(l, "done", None)
<1>1. r \in Call /\ drops \in 0..MaxDrops
  BY DEF ClientInv, ClientTypeOK
<1>2. NextOp(r.op) \in Ops
  BY DEF NextOp, Ops
<1>3. /\ next \in Call /\ next.at = r.at /\ next.retryCount = 0
      /\ next.servedBy \in {None, "several"}
  BY <1>1, <1>2 DEF Call
<1>4. ended \in Call /\ ended.at = "done"
  BY EndTyped
<1>5. r.at = "calling" /\ journey' = journey /\ drops' = drops
      /\ counter' = [counter EXCEPT ![i] = Response(c, l, i).count]
      /\ Goes(c, l, i, IF HasNext(c, r.op) THEN next ELSE ended)
  BY DEF Answered
<1> HIDE DEF r, next, ended
<1>6. CASE HasNext(c, r.op)
  <2>1. next.servedBy \notin Instances
    BY <1>3, ClientAssumption
  <2>2. Possible(c, l, i, next)
    BY <1>1, <1>3, <1>5, <1>6, <2>1 DEF Possible, r
  <2> QED
    BY <1>3, <2>2
<1>7. CASE ~HasNext(c, r.op)
  <2>1. Possible(c, l, i, ended)
    BY <1>1, <1>4, <1>5, <1>7 DEF Possible, r
  <2> QED
    BY <1>4, <2>1
<1> QED
  BY <1>6, <1>7

LEMMA NotAnsweredPossible ==
  ASSUME ClientInv, NEW c \in Callers, NEW l \in Lambdas, NEW i \in Instances,
         NotAnswered(c, l, i)
  PROVE  \E new \in Call : Possible(c, l, i, new)
<1> DEFINE r == call[c][l]
           status == Response(c, l, i).status
           gaveUp == r.retryCount = MaxRetries \/ ~Retryable(status)
           pause == Slow(status) + Pause(r.retryCount)
           ended == End(l, "failed", Serves(r.servedBy, i))
           again == Retries(c, l, i, pause)
<1>1. r \in Call /\ drops \in 0..MaxDrops /\ counter[i] \in 0..2
  BY DEF ClientInv, ClientTypeOK
<1>2. Serves(r.servedBy, i) \in Instances \cup {None, "several"}
  BY <1>1 DEF Serves, Call
<1>3. pause \in Nat
  <2>1. r.retryCount \in Nat
    BY <1>1 DEF Call
  <2>2. Pause(r.retryCount) \in Nat
    BY <2>1, ClientAssumption DEF Pause
  <2>3. Slow(status) \in Nat
    BY ClientAssumption DEF Slow
  <2> QED
    BY <2>2, <2>3
<1>4. /\ ended \in Call /\ ended.at = "failed" /\ ended.servedBy = Serves(r.servedBy, i)
  BY <1>2, EndTyped
<1>5. /\ again \in Call /\ again.at \in {r.at, "cutOff"}
      /\ again.servedBy = Serves(r.servedBy, i)
      /\ again.retryCount \in {0, r.retryCount + 1}
  BY <1>3, RetriesTyped DEF ClientInv
<1>6. r.at = "calling" /\ status >= 300 /\ journey' = journey /\ drops' = drops
      /\ counter' = [counter EXCEPT ![i] = Response(c, l, i).count]
      /\ Goes(c, l, i, IF gaveUp /\ r.elapsed + Slow(status) <= LambdaTimeout
                       THEN ended ELSE again)
  BY DEF NotAnswered
<1>7. Retrying(c) => /\ Response(c, l, i).count = counter[i] + 1 /\ counter[i] < 2
                     /\ status = 503
  BY <1>1, <1>6, RespondTo1601 DEF Retrying, Response, Call
<1>8. Retrying(c) /\ Serves(r.servedBy, i) # "several" =>
        /\ Serves(r.servedBy, i) = i
        /\ r.retryCount <= counter[i]
  BY <1>1, <1>6 DEF ClientInv, CountedRetries, Serves, Call
<1>9. Retrying(c) /\ Serves(r.servedBy, i) # "several" => ~gaveUp
  BY <1>1, <1>7, <1>8, ClientAssumption DEF Retryable, Call
<1>10. \A servedBy \in Instances : servedBy # None /\ servedBy # "several"
  BY ClientAssumption
<1>11. Serves(r.servedBy, i) # None
  BY <1>10, ClientAssumption DEF Serves
<1> HIDE DEF r, status, gaveUp, pause, ended, again
<1>12. CASE gaveUp /\ r.elapsed + Slow(status) <= LambdaTimeout
  <2>1. Possible(c, l, i, ended)
    BY <1>1, <1>4, <1>6, <1>9, <1>12 DEF Possible, r
  <2> QED
    BY <1>4, <2>1
<1>13. CASE ~(gaveUp /\ r.elapsed + Slow(status) <= LambdaTimeout)
  <2>1. r.retryCount \in Nat
    BY <1>1 DEF Call
  <2>2. Retrying(c) /\ again.servedBy \in Instances =>
          again.servedBy = i /\ again.retryCount <= Response(c, l, i).count
    BY <1>1, <1>5, <1>7, <1>8, <1>10, <2>1
  <2>3. Possible(c, l, i, again)
    BY <1>1, <1>5, <1>6, <1>11, <1>13, <2>2 DEF Possible, r
  <2> QED
    BY <1>5, <2>3
<1> QED
  BY <1>12, <1>13

LEMMA AnswerLostPossible ==
  ASSUME ClientInv, NEW c \in Callers, NEW l \in Lambdas, NEW i \in Instances,
         AnswerLost(c, l, i)
  PROVE  \E new \in Call : Possible(c, l, i, new)
<1> DEFINE ended == End(l, "failed", "several")
<1>1. ended \in Call /\ ended.at = "failed" /\ ended.servedBy = "several"
  BY EndTyped
<1>2. drops' \in 0..MaxDrops
  BY ClientAssumption DEF AnswerLost, ClientInv, ClientTypeOK
<1>3. /\ call[c][l].at = "calling" /\ journey' = journey /\ Goes(c, l, i, ended)
      /\ counter' = [counter EXCEPT ![i] = Response(c, l, i).count]
  BY DEF AnswerLost
<1> HIDE DEF ended
<1>4. Possible(c, l, i, ended)
  BY <1>1, <1>2, <1>3 DEF Possible
<1> QED
  BY <1>1, <1>4

-----------------------------------------------------------------------------
(* The invariant.                                                          *)

LEMMA PossibleKeepsTypes ==
  ASSUME ClientInv, NEW c \in Callers, NEW l \in Lambdas, NEW i \in Instances,
         NEW new \in Call, Possible(c, l, i, new)
  PROVE  ClientTypeOK'
<1>1. Response(c, l, i).count \in 0..2
  BY CountsOfRespond DEF Response, ClientInv, ClientTypeOK
<1>2. counter' \in [Instances -> 0..2]
  BY <1>1 DEF Possible, ClientInv, ClientTypeOK
<1>3. call' \in [Callers -> [Lambdas -> Call]]
  BY GoesTyped DEF Possible, ClientInv
<1>4. journey' \in Journeys /\ drops' \in 0..MaxDrops
  BY DEF Possible, ClientInv, ClientTypeOK
<1> QED
  BY <1>2, <1>3, <1>4 DEF ClientTypeOK

\* The Lambda the request is of.
LEMMA PossibleIsNew ==
  ASSUME ClientInv, NEW c \in Callers, NEW l \in Lambdas, NEW i \in Instances,
         NEW new \in Call, Possible(c, l, i, new)
  PROVE  call'[c][l] = new /\ counter'[i] = Response(c, l, i).count
  BY DEF Possible, Goes, ClientInv, ClientTypeOK

LEMMA PossibleKeepsCounted ==
  ASSUME ClientInv, NEW c \in Callers, NEW l \in Lambdas, NEW i \in Instances,
         NEW new \in Call, Possible(c, l, i, new)
  PROVE  CountedRetries'
<1> SUFFICES ASSUME NEW other \in Callers, NEW m \in Lambdas, Retrying(other)'
             PROVE  LET r == call'[other][m]
                    IN  /\ r.at = "failed" => r.servedBy = "several"
                        /\ r.at = "calling" /\ r.servedBy = None => r.retryCount = 0
                        /\ r.at = "calling" =>
                             \A j \in Instances : r.servedBy = j => r.retryCount <= counter'[j]
  BY DEF CountedRetries
<1>1. Retrying(other)
  BY DEF Possible, Retrying
<1>2. CASE <<other, m>> = <<c, l>>
  <2>1. other = c /\ m = l
    BY <1>2
  <2>2. call'[c][l] = new /\ counter'[i] = Response(c, l, i).count
    BY PossibleIsNew
  <2> QED
    BY <1>1, <2>1, <2>2 DEF Possible
<1>3. CASE <<other, m>> # <<c, l>>
  <2> DEFINE r == call[other][m]
  <2>1. r \in Call /\ counter \in [Instances -> 0..2]
    BY DEF ClientInv, ClientTypeOK
  <2>2. \A j \in Instances : j # None /\ j # "several"
    BY ClientAssumption
  <2>3. Goes(c, l, i, new) /\ call[c][l].at = "calling" /\ ClientTypeOK
        /\ counter' = [counter EXCEPT ![i] = Response(c, l, i).count]
    BY DEF Possible, ClientInv
  <2>4. CASE /\ call'[other][m] = [r EXCEPT !.at = "calling"]
             /\ other = c /\ l = "selection" /\ m # "selection"
    <3>1. r.at = "waiting" /\ r.servedBy = None /\ r.retryCount = 0
      BY <2>3, <2>4 DEF ClientInv, IdleLambdas
    <3> QED
      BY <2>1, <2>2, <2>4, <3>1 DEF Call
  <2>5. CASE call'[other][m] = [r EXCEPT !.servedBy = "several"] /\ r.at = "calling"
    BY <2>1, <2>2, <2>5, ClientAssumption DEF Call
  <2>6. CASE /\ call'[other][m] = r
             /\ r.at = "calling" /\ r.servedBy = i => counter'[i] = counter[i]
    <3>1. \A j \in Instances : r.at = "calling" /\ r.servedBy = j => counter'[j] = counter[j]
      BY <2>1, <2>3, <2>6
    <3> QED
      BY <1>1, <2>6, <3>1 DEF ClientInv, CountedRetries
  <2> QED
    BY <1>3, <2>3, <2>4, <2>5, <2>6, GoesElsewhere
<1> QED
  BY <1>2, <1>3

LEMMA PossibleKeepsIdle ==
  ASSUME ClientInv, NEW c \in Callers, NEW l \in Lambdas, NEW i \in Instances,
         NEW new \in Call, Possible(c, l, i, new)
  PROVE  IdleLambdas'
<1> SUFFICES ASSUME NEW other \in Callers, NEW m \in Lambdas
             PROVE  LET r == call'[other][m]
                    IN  /\ r.at = "waiting" => r.servedBy = None /\ r.retryCount = 0
                        /\ call'[other]["selection"].at = "calling" /\ m # "selection"
                             => r.at = "waiting"
  BY DEF IdleLambdas
<1>1. "selection" \in Lambdas
  BY DEF Lambdas
<1>2. call'[c][l] = new /\ new.at # "waiting" /\ call[c][l].at = "calling"
      /\ Goes(c, l, i, new) /\ ClientTypeOK
  <2>1. call'[c][l] = new
    BY PossibleIsNew
  <2> QED
    BY <2>1 DEF Possible, ClientInv
<1>3. \A x \in Callers, n \in Lambdas :
        <<x, n>> # <<c, l>> /\ call'[x][n] # call[x][n] =>
          \/ /\ call'[x][n].at = "calling" /\ x = c
             /\ l = "selection" /\ n # "selection" /\ new.at = "done"
          \/ call'[x][n].at = "calling" /\ call[x][n].at = "calling"
  <2> SUFFICES ASSUME NEW x \in Callers, NEW n \in Lambdas, <<x, n>> # <<c, l>>,
                      call'[x][n] # call[x][n]
               PROVE  \/ /\ call'[x][n].at = "calling" /\ x = c
                         /\ l = "selection" /\ n # "selection" /\ new.at = "done"
                      \/ call'[x][n].at = "calling" /\ call[x][n].at = "calling"
    OBVIOUS
  <2>1. call[x][n] \in Call
    BY <1>2 DEF ClientTypeOK
  <2>2. \/ /\ call'[x][n] = [call[x][n] EXCEPT !.at = "calling"]
           /\ x = c /\ l = "selection" /\ n # "selection" /\ new.at = "done"
        \/ /\ call'[x][n] = [call[x][n] EXCEPT !.servedBy = "several"]
           /\ call[x][n].at = "calling"
    BY <1>2, GoesElsewhere
  <2> QED
    BY <2>1, <2>2 DEF Call
<1>4. call'[other][m].at = "waiting" =>
        call'[other][m].servedBy = None /\ call'[other][m].retryCount = 0
  <2>1. call'[other][m].at = "waiting" => call'[other][m] = call[other][m]
    BY <1>2, <1>3
  <2> QED
    BY <2>1 DEF ClientInv, IdleLambdas
<1>5. ASSUME call'[other]["selection"].at = "calling", m # "selection"
      PROVE  call'[other][m].at = "waiting"
  <2>1. ~(other = c /\ l = "selection" /\ new.at = "done")
    BY <1>2, <1>5
  <2>2. call[other]["selection"].at = "calling"
    BY <1>1, <1>2, <1>3, <1>5
  <2>3. call[other][m].at = "waiting"
    BY <1>5, <2>2 DEF ClientInv, IdleLambdas
  <2>4. <<other, m>> # <<c, l>>
    BY <1>2, <2>3
  <2> QED
    BY <1>3, <2>1, <2>3, <2>4
<1> QED
  BY <1>4, <1>5

LEMMA ClientInvInit == ClientInit => ClientInv
<1> SUFFICES ASSUME ClientInit PROVE ClientInv
  OBVIOUS
<1>1. \A c \in Callers, l \in Lambdas :
        /\ call[c][l] \in Call
        /\ call[c][l].at = IF l = "selection" THEN "calling" ELSE "waiting"
        /\ call[c][l].servedBy = None /\ call[c][l].retryCount = 0
  BY DEF ClientInit, NewCall, FirstOp, Lambdas, Call, Ops
<1>2. ClientTypeOK
  BY <1>1, ClientAssumption DEF ClientInit, ClientTypeOK
<1>3. \A i \in Instances : i # None
  BY ClientAssumption
<1>4. CountedRetries
  BY <1>1, <1>3 DEF CountedRetries
<1>5. IdleLambdas
  BY <1>1 DEF IdleLambdas
<1> QED
  BY <1>2, <1>4, <1>5 DEF ClientInv

LEMMA ClientInvNext == ClientInv /\ [ClientNext]_clientVars => ClientInv'
<1> SUFFICES ASSUME ClientInv, [ClientNext]_clientVars PROVE ClientInv'
  OBVIOUS
<1>1. CASE ClientNext
  <2>1. PICK c \in Callers, l \in Lambdas, i \in Instances : Request(c, l, i)
    BY <1>1 DEF ClientNext
  <2>2. PICK new \in Call : Possible(c, l, i, new)
    BY <2>1, AnsweredPossible, NotAnsweredPossible, AnswerLostPossible DEF Request
  <2> QED
    BY <2>2, PossibleKeepsTypes, PossibleKeepsCounted, PossibleKeepsIdle DEF ClientInv
<1>2. CASE UNCHANGED clientVars
  BY <1>2 DEF clientVars, ClientInv, ClientTypeOK, CountedRetries, IdleLambdas, Retrying
<1> QED
  BY <1>1, <1>2

LEMMA ClientInvariant == ClientSpec => []ClientInv
  BY ClientInvInit, ClientInvNext, PTL DEF ClientSpec

-----------------------------------------------------------------------------
\* Whatever the requests and their answers are, the variables keep their types, and
\* no endpoint of the stub counts beyond two.
THEOREM ClientTypes == ClientSpec => []ClientTypeOK
<1>1. ClientInv => ClientTypeOK
  BY DEF ClientInv
<1> QED
  BY <1>1, ClientInvariant, PTL

\* A client that retries at least twice is served, however many journeys there are
\* and whatever counter it meets, unless something disturbs it.
THEOREM RetryingIsServed == ClientSpec => []SoleCallerIsServed
<1>1. ClientInv => SoleCallerIsServed
  BY DEF ClientInv, CountedRetries, Retrying, SoleCallerIsServed
<1> QED
  BY <1>1, ClientInvariant, PTL

-----------------------------------------------------------------------------
(* The pauses.                                                             *)

\* Room for the pauses of three requests, one of them refused until it is given up.
PausesAreShort == MaxRetries <= 3 /\ 5 * Backoff <= LambdaTimeout

\* The FAD code of the journey is refused, which the counter takes no part in.
CodeRefused(c, l) ==
  call[c][l].op = "generateInstructions" /\ journey[c].fadCode # "valid"

\* What the first retries of a request wait for, up to three.
Pauses(n) == IF n <= 1 THEN 0 ELSE IF n = 2 THEN Backoff ELSE 3 * Backoff

\* What the requests before this one may have waited for: two retries each.
Spent(op) ==
  CASE op \in {"fetchSessionInfo", "getMediaContent"} -> Backoff
    [] op = "generateInstructions" -> 2 * Backoff
    [] OTHER -> 0

\* As long as nothing disturbs it, a Lambda has waited no longer than its retries say.
PauseFits(c, l) ==
  LET r == call[c][l] IN
  /\ r.at = "waiting" => r.elapsed = 0
  /\ journey[c].name = "1601" /\ r.servedBy # "several" =>
       /\ r.at # "cutOff"
       /\ r.at = "calling" =>
            /\ r.servedBy = None => r.retryCount = 0
            /\ r.retryCount <= MaxRetries
            /\ ~CodeRefused(c, l) =>
                 \A i \in Instances : r.servedBy = i => r.retryCount <= counter[i]
            /\ r.elapsed <= Spent(r.op) + Pauses(r.retryCount)

PausesFit == \A c \in Callers, l \in Lambdas : PauseFits(c, l)

\* Whatever FAD code it gives, a journey told to retry is answered, counted or
\* refused for its code.
LEMMA RespondToAnyCode ==
  ASSUME NEW op \in Ops, NEW fadCode \in FadCodes, NEW n \in 0..2
  PROVE  LET r == Respond(op, "1601", fadCode, n)
         IN  r.status >= 300 =>
               \/ /\ r.status = 503 /\ n < 2 /\ r.count = n + 1
                  /\ ~(op = "generateInstructions" /\ fadCode # "valid")
               \/ /\ r.status \in {400, 500}
                  /\ op = "generateInstructions" /\ fadCode # "valid"
<1>1. FadCodeStatus("valid") = 200
  BY DEF FadCodeStatus
<1>2. fadCode # "valid" => FadCodeStatus(fadCode) \in {400, 500}
  BY DEF FadCodes, FadCodeStatus
<1>3. CASE op = "generateInstructions" /\ fadCode # "valid"
  <2>1. FadCodeStatus(fadCode) # 200
    BY <1>2, <1>3
  <2>2. Respond(op, "1601", fadCode, n).status = FadCodeStatus(fadCode)
    BY <1>3, <2>1 DEF Respond
  <2> QED
    BY <1>2, <1>3, <2>2
<1>4. CASE ~(op = "generateInstructions" /\ fadCode # "valid")
  <2>1. Respond(op, "1601", fadCode, n) = Respond(op, "1601", "valid", n)
    BY <1>1, <1>4 DEF Respond
  <2> QED
    BY <1>4, <2>1, RespondTo1601
<1> QED
  BY <1>3, <1>4

\* The Lambda a step is about has become new.
LEMMA GoesIsNew ==
  ASSUME NEW c \in Callers, NEW l \in Lambdas, NEW i \in Instances, NEW new,
         Goes(c, l, i, new)
  PROVE  call'[c][l] = new
  BY DEF Goes

\* The Lambdas a step is not about keep to their time.
LEMMA ElsewhereFits ==
  ASSUME ClientInv, PausesFit, NEW c \in Callers, NEW l \in Lambdas, NEW i \in Instances,
         NEW new \in Call, Possible(c, l, i, new), NEW other \in Callers, NEW m \in Lambdas,
         <<other, m>> # <<c, l>>
  PROVE  PauseFits(other, m)'
<1> DEFINE r == call[other][m]
<1>1. r \in Call /\ counter \in [Instances -> 0..2]
  BY DEF ClientInv, ClientTypeOK
<1>2. \A j \in Instances : j # None /\ j # "several"
  BY ClientAssumption
<1>3. Goes(c, l, i, new) /\ call[c][l].at = "calling" /\ ClientTypeOK /\ journey' = journey
      /\ counter' = [counter EXCEPT ![i] = Response(c, l, i).count]
  BY DEF Possible, ClientInv
<1>4. PauseFits(other, m)
  BY DEF PausesFit
<1>5. CASE /\ call'[other][m] = [r EXCEPT !.at = "calling"]
           /\ other = c /\ l = "selection" /\ m # "selection"
  <2>1. r.at = "waiting" /\ r.servedBy = None /\ r.retryCount = 0
    BY <1>3, <1>5 DEF ClientInv, IdleLambdas
  <2>2. r.elapsed = 0
    BY <1>4, <2>1 DEF PauseFits
  <2>3. /\ call'[other][m].at = "calling" /\ call'[other][m].elapsed = 0
        /\ call'[other][m].retryCount = 0 /\ call'[other][m].servedBy = None
    BY <1>1, <1>5, <2>1, <2>2 DEF Call
  <2>4. 0 <= Spent(call'[other][m].op) + Pauses(0) /\ 0 <= MaxRetries
    BY ClientAssumption DEF Spent, Pauses
  <2> QED
    BY <1>2, <2>3, <2>4 DEF PauseFits
<1>6. CASE call'[other][m] = [r EXCEPT !.servedBy = "several"] /\ r.at = "calling"
  <2>1. call'[other][m].servedBy = "several" /\ call'[other][m].at = "calling"
    BY <1>1, <1>6 DEF Call
  <2> QED
    BY <2>1 DEF PauseFits
<1>7. CASE /\ call'[other][m] = r
           /\ r.at = "calling" /\ r.servedBy = i => counter'[i] = counter[i]
  <2>1. \A j \in Instances : r.at = "calling" /\ r.servedBy = j => counter'[j] = counter[j]
    BY <1>1, <1>3, <1>7
  <2> QED
    BY <1>3, <1>4, <1>7, <2>1 DEF PauseFits, CodeRefused
<1> QED
  BY <1>3, <1>5, <1>6, <1>7, GoesElsewhere

\* Answered, a request has cost one pause at most.
LEMMA AnsweredFits ==
  ASSUME ClientInv, PausesFit, NEW c \in Callers, NEW l \in Lambdas, NEW i \in Instances,
         Answered(c, l, i)
  PROVE  PauseFits(c, l)'
<1> DEFINE r == call[c][l]
           next == [r EXCEPT !.op = NextOp(r.op), !.retryCount = 0,
                             !.servedBy = IF @ = "several" THEN @ ELSE None]
           ended == End(l, "done", None)
<1>1. r \in Call /\ counter \in [Instances -> 0..2] /\ MaxRetries \in Nat /\ Backoff \in Nat
  BY ClientAssumption DEF ClientInv, ClientTypeOK
<1>2. /\ r.at = "calling" /\ journey' = journey
      /\ Goes(c, l, i, IF HasNext(c, r.op) THEN next ELSE ended)
  BY DEF Answered
<1>3. ended.at = "done"
  BY ClientAssumption, EndTyped
<1>4. PauseFits(c, l)
  BY DEF PausesFit
<1>5. CASE ~HasNext(c, r.op)
  <2>1. call'[c][l].at = "done"
    BY <1>2, <1>3, <1>5, GoesIsNew
  <2> QED
    BY <2>1 DEF PauseFits
<1>6. CASE HasNext(c, r.op)
  <2>1. /\ next.at = "calling" /\ next.op = NextOp(r.op) /\ next.retryCount = 0
        /\ next.elapsed = r.elapsed
        /\ next.servedBy = IF r.servedBy = "several" THEN "several" ELSE None
    BY <1>1, <1>2 DEF Call
  <2>2. call'[c][l] = next
    BY <1>2, <1>6, GoesIsNew
  <2>3. r.op \in {"createSession", "fetchSessionInfo", "getCompletedSessionInfo"}
    BY <1>6 DEF HasNext
  <2>4. Spent(NextOp(r.op)) = Spent(r.op) + Backoff
    BY <1>1, <2>3 DEF Spent, NextOp
  <2>5. ASSUME journey[c].name = "1601", r.servedBy # "several"
        PROVE  r.elapsed <= Spent(r.op) + Backoff
    <3>1. /\ r.servedBy = None => r.retryCount = 0
          /\ \A j \in Instances : r.servedBy = j => r.retryCount <= counter[j]
          /\ r.elapsed <= Spent(r.op) + Pauses(r.retryCount)
      BY <1>2, <1>4, <2>3, <2>5 DEF PauseFits, CodeRefused
    <3>2. r.retryCount \in 0..2
      BY <1>1, <2>5, <3>1 DEF Call
    <3>3. Pauses(r.retryCount) <= Backoff /\ Pauses(r.retryCount) \in Nat
      BY <1>1, <3>2 DEF Pauses
    <3>4. Spent(r.op) \in Nat /\ r.elapsed \in Nat
      BY <1>1 DEF Spent, Call
    <3> QED
      BY <1>1, <3>1, <3>3, <3>4
  <2>6. Pauses(0) = 0
    BY DEF Pauses
  <2>7. Spent(r.op) \in Nat
    BY <1>1 DEF Spent
  <2> HIDE DEF r, next
  <2>8. call'[c][l].at = "calling" /\ call'[c][l].servedBy \in {"several", None}
        /\ call'[c][l].retryCount = 0
    BY <2>1, <2>2
  <2>9. \A j \in Instances : j \notin {"several", None}
    BY ClientAssumption
  <2>10. ASSUME journey'[c].name = "1601", call'[c][l].servedBy # "several"
         PROVE  call'[c][l].elapsed <= Spent(call'[c][l].op) + Pauses(0)
    <3>1. r.elapsed <= Spent(r.op) + Backoff
      BY <1>2, <2>1, <2>2, <2>5, <2>10
    <3>2. call'[c][l].elapsed = r.elapsed /\ Spent(call'[c][l].op) = Spent(r.op) + Backoff
      BY <2>1, <2>2, <2>4
    <3> QED
      BY <1>1, <2>6, <2>7, <3>1, <3>2
  <2>11. call'[c][l].retryCount <= MaxRetries
         /\ \A j \in Instances : call'[c][l].servedBy # j
    BY <1>1, <2>8, <2>9
  <2> QED
    BY <2>8, <2>10, <2>11 DEF PauseFits
<1> QED
  BY <1>5, <1>6

\* What is left of the time when a request is repeated.
LEMMA PausesGrow ==
  ASSUME PausesAreShort, NEW op \in Ops, NEW n \in Nat, n <= MaxRetries,
         NEW elapsed \in Nat, elapsed <= Spent(op) + Pauses(n)
  PROVE  /\ elapsed <= LambdaTimeout
         /\ n < MaxRetries => elapsed + Pause(n) <= Spent(op) + Pauses(n + 1)
         /\ n < MaxRetries => elapsed + Pause(n) <= LambdaTimeout
<1>1. Backoff \in Nat /\ LambdaTimeout \in Nat /\ MaxRetries \in Nat
      /\ 5 * Backoff <= LambdaTimeout
  BY ClientAssumption DEF PausesAreShort
<1>2. Spent(op) \in Nat /\ Spent(op) <= 2 * Backoff
  BY <1>1 DEF Spent
<1>3. n \in 0..3 /\ (n < MaxRetries => n \in 0..2)
  BY <1>1 DEF PausesAreShort
<1>4. Pauses(n) \in Nat /\ Pauses(n) <= 3 * Backoff
  BY <1>1, <1>3 DEF Pauses
<1>5. n < MaxRetries => Pauses(n) + Pause(n) = Pauses(n + 1)
  <2>1. Pause(0) = 0 /\ Pause(1) = Backoff /\ Pause(2) = 2 * Backoff
    BY <1>1 DEF Pause
  <2>2. Pauses(0) = 0 /\ Pauses(1) = 0 /\ Pauses(2) = Backoff /\ Pauses(3) = 3 * Backoff
    BY DEF Pauses
  <2>3. n = 0 \/ n = 1 \/ n = 2 \/ ~(n < MaxRetries)
    BY <1>3
  <2> QED
    BY <1>1, <2>1, <2>2, <2>3
<1>6. n < MaxRetries => Pauses(n + 1) \in Nat /\ Pauses(n + 1) <= 3 * Backoff
  BY <1>1, <1>3 DEF Pauses
<1>7. n < MaxRetries => Pause(n) \in Nat
  <2>1. Pause(0) = 0 /\ Pause(1) = Backoff /\ Pause(2) = 2 * Backoff
    BY <1>1 DEF Pause
  <2> QED
    BY <1>1, <1>3, <2>1
<1> QED
  BY <1>1, <1>2, <1>4, <1>5, <1>6, <1>7

\* Not answered, a request is given up or repeated within the Lambda's time.
LEMMA NotAnsweredFits ==
  ASSUME PausesAreShort, ClientInv, PausesFit,
         NEW c \in Callers, NEW l \in Lambdas, NEW i \in Instances, NotAnswered(c, l, i)
  PROVE  PauseFits(c, l)'
<1> DEFINE r == call[c][l]
           resp == Response(c, l, i)
           gaveUp == r.retryCount = MaxRetries \/ ~Retryable(resp.status)
           ended == End(l, "failed", Serves(r.servedBy, i))
           again == Retries(c, l, i, Slow(resp.status) + Pause(r.retryCount))
           new == IF gaveUp /\ r.elapsed + Slow(resp.status) <= LambdaTimeout
                  THEN ended ELSE again
<1>1. r \in Call /\ counter \in [Instances -> 0..2] /\ MaxRetries \in Nat /\ MaxRetries >= 2
  BY ClientAssumption DEF ClientInv, ClientTypeOK
<1>2. r.at = "calling" /\ resp.status >= 300 /\ journey' = journey
      /\ counter' = [counter EXCEPT ![i] = resp.count] /\ Goes(c, l, i, new)
  BY DEF NotAnswered
<1>3. PauseFits(c, l)
  BY DEF PausesFit
<1>4. call'[c][l] = new /\ counter'[i] = resp.count
  BY <1>1, <1>2, GoesIsNew
<1>5. Serves(r.servedBy, i) \in Instances \cup {None, "several"}
  BY <1>1 DEF Serves, Call
<1>6. ended.at = "failed" /\ ended.servedBy = Serves(r.servedBy, i)
  BY <1>5, EndTyped
<1>7. r.retryCount \in Nat /\ r.elapsed \in Nat /\ r.op \in Ops
      /\ Backoff \in Nat /\ LambdaTimeout \in Nat /\ GatewayTimeout \in Nat
  BY <1>1, ClientAssumption DEF Call
<1>8. Slow(resp.status) + Pause(r.retryCount) \in Nat
  <2>1. Slow(resp.status) \in Nat
    BY <1>7 DEF Slow
  <2>2. Pause(r.retryCount) \in Nat
    BY <1>7 DEF Pause
  <2> QED
    BY <2>1, <2>2
<1>9. again.at \in {"calling", "cutOff"} /\ again.servedBy = Serves(r.servedBy, i)
  BY <1>2, <1>8, RetriesTyped DEF ClientInv
<1>10. new.at # "waiting" /\ new.servedBy = Serves(r.servedBy, i)
  BY <1>6, <1>9
<1>11. CASE ~(journey[c].name = "1601" /\ Serves(r.servedBy, i) # "several")
  <2>1. ~(journey'[c].name = "1601" /\ call'[c][l].servedBy # "several")
    BY <1>2, <1>4, <1>10, <1>11
  <2>2. call'[c][l].at # "waiting"
    BY <1>4, <1>10
  <2> QED
    BY <2>1, <2>2 DEF PauseFits
<1>12. CASE journey[c].name = "1601" /\ Serves(r.servedBy, i) # "several"
  <2>1. Serves(r.servedBy, i) = i /\ r.servedBy \in {None, i}
    BY <1>12 DEF Serves
  <2>2. /\ r.servedBy = None => r.retryCount = 0
        /\ r.retryCount <= MaxRetries
        /\ ~CodeRefused(c, l) /\ r.servedBy = i => r.retryCount <= counter[i]
        /\ r.elapsed <= Spent(r.op) + Pauses(r.retryCount)
    <3>1. r.servedBy # "several"
      BY <2>1, ClientAssumption
    <3> QED
      BY <1>2, <1>3, <1>12, <3>1 DEF PauseFits
  <2>3. journey[c].fadCode \in FadCodes
    BY ClientAssumption DEF ClientInv, ClientTypeOK
  <2>4. \/ /\ resp.status = 503 /\ counter[i] < 2 /\ resp.count = counter[i] + 1
           /\ ~CodeRefused(c, l)
        \/ resp.status \in {400, 500} /\ CodeRefused(c, l)
    BY <1>1, <1>2, <1>7, <1>12, <2>3, RespondToAnyCode DEF Response, CodeRefused
  <2>5. Slow(resp.status) = 0
    BY <2>4 DEF Slow
  <2>6. ~CodeRefused(c, l) => r.retryCount <= counter[i]
    BY <1>1, <2>1, <2>2
  <2>7. ~CodeRefused(c, l) => ~gaveUp
    BY <1>1, <1>7, <2>4, <2>6 DEF Retryable
  <2>8. gaveUp => new = ended
    BY <1>7, <2>2, <2>5, PausesGrow
  <2>9. CASE gaveUp
    <3>1. call'[c][l].at = "failed"
      BY <1>4, <1>6, <2>8, <2>9
    <3> QED
      BY <3>1 DEF PauseFits
  <2>10. CASE ~gaveUp
    <3>1. r.retryCount < MaxRetries
      BY <1>1, <1>7, <2>2, <2>10
    <3>2. /\ r.elapsed + Pause(r.retryCount) <= LambdaTimeout
          /\ r.elapsed + Pause(r.retryCount) <= Spent(r.op) + Pauses(r.retryCount + 1)
      BY <1>7, <2>2, <3>1, PausesGrow
    <3>3. Pause(r.retryCount) \in Nat
      BY <1>7 DEF Pause
    <3>4. again = [r EXCEPT !.retryCount = @ + 1, !.elapsed = @ + Pause(r.retryCount),
                            !.servedBy = i]
      <4>1. Slow(resp.status) + Pause(r.retryCount) = Pause(r.retryCount)
        BY <2>5, <3>3
      <4>2. again = Retries(c, l, i, Pause(r.retryCount))
        BY <4>1
      <4>3. ~(r.elapsed + Pause(r.retryCount) > LambdaTimeout)
        BY <1>7, <3>2, <3>3
      <4>4. Serves(r.servedBy, i) = i
        BY <2>1
      <4> QED
        BY <1>1, <4>2, <4>3, <4>4 DEF Retries, Call
    <3>5. /\ again.at = "calling" /\ again.op = r.op
          /\ again.retryCount = r.retryCount + 1
          /\ again.elapsed = r.elapsed + Pause(r.retryCount)
          /\ again.servedBy = i
      BY <1>1, <1>2, <3>4 DEF Call
    <3>6. call'[c][l] = again
      BY <1>4, <2>10
    <3> HIDE DEF r, resp, gaveUp, ended, again, new
    <3>7. /\ call'[c][l].at = "calling" /\ call'[c][l].op = r.op
          /\ call'[c][l].retryCount = r.retryCount + 1
          /\ call'[c][l].elapsed = r.elapsed + Pause(r.retryCount)
          /\ call'[c][l].servedBy = i
      BY <3>5, <3>6
    <3>8. call'[c][l].retryCount <= MaxRetries
      BY <1>1, <1>7, <3>1, <3>7
    <3>9. ~CodeRefused(c, l)' => call'[c][l].retryCount <= counter'[i]
      <4>1. CodeRefused(c, l)' <=> CodeRefused(c, l)
        BY <1>2, <3>7 DEF CodeRefused, r
      <4> QED
        BY <1>1, <1>4, <1>7, <2>4, <2>6, <3>7, <4>1
    <3>10. call'[c][l].elapsed <= Spent(call'[c][l].op) + Pauses(call'[c][l].retryCount)
      BY <3>2, <3>7
    <3>11. i # None
      BY ClientAssumption
    <3> QED
      BY <3>7, <3>8, <3>9, <3>10, <3>11 DEF PauseFits
  <2> QED
    BY <2>9, <2>10
<1> QED
  BY <1>11, <1>12

\* An answer that is lost counts as a disturbance.
LEMMA AnswerLostFits ==
  ASSUME NEW c \in Callers, NEW l \in Lambdas, NEW i \in Instances, AnswerLost(c, l, i)
  PROVE  PauseFits(c, l)'
<1>1. call'[c][l] = End(l, "failed", "several")
  BY GoesIsNew DEF AnswerLost
<1>2. call'[c][l].at = "failed"
  BY <1>1, EndTyped
<1> QED
  BY <1>2 DEF PauseFits

LEMMA PausesFitInit == ClientInit => PausesFit
<1> SUFFICES ASSUME ClientInit, NEW c \in Callers, NEW l \in Lambdas PROVE PauseFits(c, l)
  BY DEF PausesFit
<1>1. /\ call[c][l].at \in {"calling", "waiting"} /\ call[c][l].elapsed = 0
      /\ call[c][l].servedBy = None /\ call[c][l].retryCount = 0
  BY DEF ClientInit, NewCall
<1>2. 0 <= Spent(call[c][l].op) + Pauses(0) /\ 0 <= MaxRetries
  BY ClientAssumption DEF Spent, Pauses
<1>3. \A i \in Instances : i # None
  BY ClientAssumption
<1> QED
  BY <1>1, <1>2, <1>3 DEF PauseFits

LEMMA PausesFitNext ==
  ASSUME PausesAreShort
  PROVE  ClientInv /\ PausesFit /\ [ClientNext]_clientVars => PausesFit'
<1> SUFFICES ASSUME ClientInv, PausesFit, [ClientNext]_clientVars PROVE PausesFit'
  OBVIOUS
<1>1. CASE ClientNext
  <2>1. PICK c \in Callers, l \in Lambdas, i \in Instances : Request(c, l, i)
    BY <1>1 DEF ClientNext
  <2>2. PICK new \in Call : Possible(c, l, i, new)
    BY <2>1, AnsweredPossible, NotAnsweredPossible, AnswerLostPossible DEF Request
  <2>3. PauseFits(c, l)'
    BY <2>1, AnsweredFits, NotAnsweredFits, AnswerLostFits DEF Request
  <2>4. ASSUME NEW other \in Callers, NEW m \in Lambdas
        PROVE  PauseFits(other, m)'
    <3>1. CASE <<other, m>> # <<c, l>>
      BY <2>2, <3>1, ElsewhereFits
    <3>2. CASE <<other, m>> = <<c, l>>
      <4>1. other = c /\ m = l
        BY <3>2
      <4> QED
        BY <2>3, <4>1
    <3> QED
      BY <3>1, <3>2
  <2> QED
    BY <2>4 DEF PausesFit
<1>2. CASE UNCHANGED clientVars
  BY <1>2 DEF clientVars, PausesFit, PauseFits, CodeRefused
<1> QED
  BY <1>1, <1>2

\* A client that retries three times at most, in a Lambda that lives at least five
\* times as long as the pause grows by, is never cut off while it waits for the stub,
\* whatever FAD code its journey gives: only a disturbance can use up its time.
THEOREM RetryingIsInTime ==
  ASSUME PausesAreShort
  PROVE  ClientSpec => []SoleCallerIsInTime
<1>1. PausesFit => SoleCallerIsInTime
  BY DEF PausesFit, PauseFits, SoleCallerIsInTime
<1>2. ClientInv /\ PausesFit /\ [ClientNext]_clientVars => PausesFit'
  BY PausesFitNext
<1> QED
  BY <1>1, <1>2, PausesFitInit, ClientInvariant, PTL DEF ClientSpec

-----------------------------------------------------------------------------
(* The attempts.                                                           *)

\* No request is tried again more often than the client is configured to.
RetriesBounded == \A c \in Callers, l \in Lambdas : call[c][l].retryCount <= MaxRetries

\* What a request makes of its Lambda has fewer attempts left.
Spends(c, l, i, new) ==
  /\ new \in Call
  /\ Goes(c, l, i, new)
  /\ new.retryCount <= MaxRetries
  /\ AttemptsLeft(new) \in Nat
  /\ AttemptsLeft(new) < AttemptsLeft(call[c][l])

\* A Lambda that has ended has none left, one that calls has.
LEMMA AttemptsOf ==
  ASSUME NEW r \in Call, r.retryCount <= MaxRetries
  PROVE  /\ AttemptsLeft(r) \in Nat
         /\ r.at \in {"done", "failed", "cutOff"} => AttemptsLeft(r) = 0
         /\ r.at \in {"waiting", "calling"} =>
              /\ AttemptsLeft(r) = RequestsFrom(r.op) * (MaxRetries + 1) - r.retryCount
              /\ AttemptsLeft(r) > 0
<1>1. r.retryCount \in Nat /\ r.at \in {"waiting", "calling", "done", "failed", "cutOff"}
  BY DEF Call
<1>2. RequestsFrom(r.op) \in {1, 2, 3}
  BY DEF RequestsFrom
<1>3. RequestsFrom(r.op) * (MaxRetries + 1) - r.retryCount \in Nat \ {0}
  <2> DEFINE k == RequestsFrom(r.op)
             n == r.retryCount
  <2>1. n \in Nat /\ n <= MaxRetries /\ MaxRetries \in Nat /\ k \in {1, 2, 3}
    BY <1>1, <1>2, ClientAssumption
  <2> HIDE DEF k, n
  <2>2. k * (MaxRetries + 1) - n \in Nat \ {0}
    BY <2>1
  <2> QED
    BY <2>2 DEF k, n
<1> QED
  BY <1>1, <1>3 DEF AttemptsLeft

\* An answer leads to the next request, or to the end.
LEMMA AnsweredSpends ==
  ASSUME ClientInv, RetriesBounded, NEW c \in Callers, NEW l \in Lambdas,
         NEW i \in Instances, Answered(c, l, i)
  PROVE  \E new \in Call : Spends(c, l, i, new)
<1> DEFINE r == call[c][l]
           next == [r EXCEPT !.op = NextOp(r.op), !.retryCount = 0,
                             !.servedBy = IF @ = "several" THEN @ ELSE None]
           ended == End(l, "done", None)
<1>1. r \in Call /\ r.retryCount <= MaxRetries
  BY DEF ClientInv, ClientTypeOK, RetriesBounded
<1>2. NextOp(r.op) \in Ops
  BY DEF NextOp, Ops
<1>3. /\ next \in Call /\ next.at = r.at /\ next.retryCount = 0 /\ next.op = NextOp(r.op)
      /\ 0 <= MaxRetries
  <2>1. next \in Call /\ next.at = r.at /\ next.retryCount = 0 /\ next.op = NextOp(r.op)
    BY <1>1, <1>2 DEF Call
  <2>2. 0 <= MaxRetries
    BY ClientAssumption
  <2> QED
    BY <2>1, <2>2
<1>4. ended \in Call /\ ended.at = "done" /\ ended.retryCount = 0
  BY EndTyped
<1>5. r.at = "calling" /\ Goes(c, l, i, IF HasNext(c, r.op) THEN next ELSE ended)
  BY DEF Answered
<1>6. HasNext(c, r.op) => RequestsFrom(r.op) = RequestsFrom(NextOp(r.op)) + 1
  BY DEF HasNext, RequestsFrom, NextOp
<1> HIDE DEF next, ended
<1>7. CASE HasNext(c, r.op)
  <2>1. /\ AttemptsLeft(next) = RequestsFrom(NextOp(r.op)) * (MaxRetries + 1) - 0
        /\ AttemptsLeft(next) \in Nat
    BY <1>3, <1>5, AttemptsOf
  <2>2. AttemptsLeft(r) = RequestsFrom(r.op) * (MaxRetries + 1) - r.retryCount
    BY <1>1, <1>5, AttemptsOf
  <2>3. RequestsFrom(NextOp(r.op)) \in {1, 2, 3} /\ r.retryCount \in Nat
    BY <1>1 DEF RequestsFrom, Call
  <2>4. AttemptsLeft(next) < AttemptsLeft(r)
    <3> DEFINE k == RequestsFrom(NextOp(r.op))
               n == r.retryCount
               left == AttemptsLeft(next)
               before == AttemptsLeft(r)
    <3>1. /\ k \in {1, 2, 3} /\ n \in Nat /\ n <= MaxRetries
          /\ left = k * (MaxRetries + 1) - 0 /\ before = (k + 1) * (MaxRetries + 1) - n
      BY <1>1, <1>6, <1>7, <2>1, <2>2, <2>3
    <3> HIDE DEF k, n, left, before
    <3>2. left < before
      BY <3>1, ClientAssumption
    <3> QED
      BY <3>2 DEF left, before
  <2> QED
    BY <1>3, <1>5, <1>7, <2>1, <2>4 DEF Spends
<1>8. CASE ~HasNext(c, r.op)
  <2>1. AttemptsLeft(ended) = 0 /\ AttemptsLeft(r) \in Nat /\ AttemptsLeft(r) > 0
    BY <1>1, <1>3, <1>4, <1>5, AttemptsOf
  <2> QED
    BY <1>3, <1>4, <1>5, <1>8, <2>1 DEF Spends
<1> QED
  BY <1>7, <1>8

\* An error costs an attempt, or ends the Lambda.
LEMMA NotAnsweredSpends ==
  ASSUME ClientInv, RetriesBounded, NEW c \in Callers, NEW l \in Lambdas,
         NEW i \in Instances, NotAnswered(c, l, i)
  PROVE  \E new \in Call : Spends(c, l, i, new)
<1> DEFINE r == call[c][l]
           status == Response(c, l, i).status
           gaveUp == r.retryCount = MaxRetries \/ ~Retryable(status)
           pause == Slow(status) + Pause(r.retryCount)
           served == Serves(r.servedBy, i)
           again == [at |-> r.at, op |-> r.op, retryCount |-> r.retryCount + 1,
                     elapsed |-> r.elapsed + pause, servedBy |-> served]
<1>1. /\ r \in Call /\ r.retryCount \in Nat /\ r.elapsed \in Nat
      /\ r.retryCount <= MaxRetries /\ r.at = "calling" /\ MaxRetries \in Nat
      /\ LambdaTimeout \in Nat
  BY ClientAssumption
     DEF ClientInv, ClientTypeOK, RetriesBounded, Call, NotAnswered
<1>2. served \in Instances \cup {None, "several"}
  BY <1>1 DEF Serves, Call
<1>3. Slow(status) \in Nat /\ Pause(r.retryCount) \in Nat /\ pause \in Nat
  <2>1. Pause(r.retryCount) \in Nat
    BY <1>1, ClientAssumption DEF Pause
  <2>2. Slow(status) \in Nat
    BY ClientAssumption DEF Slow
  <2> QED
    BY <2>1, <2>2
<1>4. \A at \in {"failed", "cutOff"} :
        /\ End(l, at, served) \in Call /\ End(l, at, served).retryCount = 0
        /\ End(l, at, served).at = at
  BY <1>2, EndTyped
<1>5. AttemptsLeft(r) \in Nat /\ AttemptsLeft(r) > 0
      /\ AttemptsLeft(r) = RequestsFrom(r.op) * (MaxRetries + 1) - r.retryCount
  BY <1>1, AttemptsOf
<1>6. \A at \in {"failed", "cutOff"} :
        /\ AttemptsLeft(End(l, at, served)) = 0
        /\ End(l, at, served).retryCount <= MaxRetries
  BY <1>1, <1>4, AttemptsOf
<1>7. Goes(c, l, i, IF gaveUp /\ r.elapsed + Slow(status) <= LambdaTimeout
                    THEN End(l, "failed", served)
                    ELSE Retries(c, l, i, pause))
  BY DEF NotAnswered
<1>8. CASE gaveUp /\ r.elapsed + Slow(status) <= LambdaTimeout
  <2>1. Goes(c, l, i, End(l, "failed", served))
    BY <1>7, <1>8
  <2> QED
    BY <1>4, <1>5, <1>6, <2>1 DEF Spends
<1>9. CASE r.elapsed + pause > LambdaTimeout /\ ~(r.elapsed + Slow(status) <= LambdaTimeout
                                                  /\ gaveUp)
  <2>1. Retries(c, l, i, pause) = End(l, "cutOff", served)
    BY <1>9 DEF Retries
  <2>2. Goes(c, l, i, End(l, "cutOff", served))
    BY <1>7, <1>9, <2>1
  <2> QED
    BY <1>4, <1>5, <1>6, <2>2 DEF Spends
<1>10. CASE ~(r.elapsed + pause > LambdaTimeout)
            /\ ~(gaveUp /\ r.elapsed + Slow(status) <= LambdaTimeout)
  <2>1. r.elapsed + Slow(status) <= LambdaTimeout
    BY <1>1, <1>3, <1>10
  <2>2. r.retryCount + 1 <= MaxRetries
    BY <1>1, <1>10, <2>1
  <2>3. Retries(c, l, i, pause) = again
    BY <1>1, <1>10 DEF Retries, Call
  <2>4. again \in Call
    BY <1>1, <1>2, <1>3 DEF Call
  <2>5. Goes(c, l, i, again)
    BY <1>7, <1>10, <2>3
  <2>6. AttemptsLeft(again) \in Nat
        /\ AttemptsLeft(again) = RequestsFrom(r.op) * (MaxRetries + 1) - (r.retryCount + 1)
    <3>1. again.at = "calling" /\ again.op = r.op /\ again.retryCount = r.retryCount + 1
      BY <1>1
    <3> HIDE DEF again
    <3> QED
      BY <2>2, <2>4, <3>1, AttemptsOf
  <2>7. RequestsFrom(r.op) * (MaxRetries + 1) \in Int
    BY <1>1 DEF RequestsFrom
  <2>8. AttemptsLeft(again) < AttemptsLeft(r)
    BY <1>1, <1>5, <2>6, <2>7
  <2> QED
    BY <2>2, <2>4, <2>5, <2>6, <2>8 DEF Spends
<1> QED
  BY <1>1, <1>3, <1>8, <1>9, <1>10

\* A lost answer ends the Lambda.
LEMMA AnswerLostSpends ==
  ASSUME ClientInv, RetriesBounded, NEW c \in Callers, NEW l \in Lambdas,
         NEW i \in Instances, AnswerLost(c, l, i)
  PROVE  \E new \in Call : Spends(c, l, i, new)
<1> DEFINE ended == End(l, "failed", "several")
<1>1. ended \in Call /\ ended.at = "failed" /\ ended.retryCount = 0
  BY EndTyped
<1>2. /\ call[c][l].at = "calling" /\ Goes(c, l, i, ended)
      /\ call[c][l] \in Call /\ call[c][l].retryCount <= MaxRetries /\ 0 <= MaxRetries
  BY ClientAssumption DEF AnswerLost, ClientInv, ClientTypeOK, RetriesBounded
<1> HIDE DEF ended
<1>3. AttemptsLeft(ended) = 0 /\ AttemptsLeft(call[c][l]) \in Nat
      /\ AttemptsLeft(call[c][l]) > 0
  BY <1>1, <1>2, AttemptsOf
<1> QED
  BY <1>1, <1>2, <1>3 DEF Spends

\* A Lambda that a request is not of keeps its attempts.
LEMMA ElsewhereKeepsAttempts ==
  ASSUME ClientInv, NEW c \in Callers, NEW l \in Lambdas, NEW i \in Instances,
         NEW new \in Call, Goes(c, l, i, new), call[c][l].at = "calling",
         NEW other \in Callers, NEW m \in Lambdas, <<other, m>> # <<c, l>>
  PROVE  /\ AttemptsLeft(call'[other][m]) = AttemptsLeft(call[other][m])
         /\ call'[other][m].retryCount = call[other][m].retryCount
<1> DEFINE r == call[other][m]
<1>1. r \in Call /\ ClientTypeOK
  BY DEF ClientInv, ClientTypeOK
<1>2. CASE /\ call'[other][m] = [r EXCEPT !.at = "calling"]
           /\ other = c /\ l = "selection" /\ m # "selection"
  <2>1. r.at = "waiting"
    BY <1>2 DEF ClientInv, IdleLambdas
  <2>2. /\ call'[other][m].at = "calling" /\ call'[other][m].op = r.op
        /\ call'[other][m].retryCount = r.retryCount
    BY <1>1, <1>2 DEF Call
  <2> QED
    BY <2>1, <2>2 DEF AttemptsLeft
<1>3. CASE call'[other][m] = [r EXCEPT !.servedBy = "several"]
  <2>1. /\ call'[other][m].at = r.at /\ call'[other][m].op = r.op
        /\ call'[other][m].retryCount = r.retryCount
    BY <1>1, <1>3 DEF Call
  <2> QED
    BY <2>1 DEF AttemptsLeft
<1>4. CASE call'[other][m] = r
  BY <1>4
<1> QED
  BY <1>1, <1>2, <1>3, <1>4, GoesElsewhere

\* So every request leaves fewer attempts.
LEMMA RequestSpends ==
  ASSUME ClientInv, RetriesBounded, ClientNext
  PROVE  /\ RetriesBounded'
         /\ \A c \in Callers, l \in Lambdas :
              AttemptsLeft(call'[c][l]) \in 0..AttemptsLeft(call[c][l])
         /\ \E c \in Callers, l \in Lambdas :
              AttemptsLeft(call'[c][l]) < AttemptsLeft(call[c][l])
<1>1. PICK c \in Callers, l \in Lambdas, i \in Instances : Request(c, l, i)
  BY DEF ClientNext
<1>2. PICK new \in Call : Spends(c, l, i, new)
  BY <1>1, AnsweredSpends, NotAnsweredSpends, AnswerLostSpends DEF Request
<1>3. call'[c][l] = new /\ call[c][l].at = "calling" /\ Goes(c, l, i, new)
  BY <1>1, <1>2, GoesIsNew DEF Spends, Request, Answered, NotAnswered, AnswerLost
<1>4. ASSUME NEW other \in Callers, NEW m \in Lambdas
      PROVE  /\ call'[other][m].retryCount <= MaxRetries
             /\ AttemptsLeft(call'[other][m]) \in 0..AttemptsLeft(call[other][m])
  <2>1. /\ call[other][m] \in Call /\ call[other][m].retryCount <= MaxRetries
        /\ AttemptsLeft(call[other][m]) \in Nat
    BY AttemptsOf DEF ClientInv, ClientTypeOK, RetriesBounded
  <2>2. CASE <<other, m>> = <<c, l>>
    BY <1>2, <1>3, <2>1, <2>2 DEF Spends
  <2>3. CASE <<other, m>> # <<c, l>>
    <3>1. /\ AttemptsLeft(call'[other][m]) = AttemptsLeft(call[other][m])
          /\ call'[other][m].retryCount = call[other][m].retryCount
      BY <1>3, <2>3, ElsewhereKeepsAttempts
    <3> QED
      BY <2>1, <3>1
  <2> QED
    BY <2>2, <2>3
<1>5. AttemptsLeft(call'[c][l]) < AttemptsLeft(call[c][l])
  BY <1>2, <1>3 DEF Spends
<1> QED
  BY <1>4, <1>5 DEF RetriesBounded

LEMMA RetriesBoundedInit == ClientInit => RetriesBounded
<1> SUFFICES ASSUME ClientInit
             PROVE  RetriesBounded
  OBVIOUS
<1>1. \A c \in Callers, l \in Lambdas : call[c][l].retryCount = 0
  BY DEF ClientInit, NewCall
<1> QED
  BY <1>1, ClientAssumption DEF RetriesBounded

\* However many journeys and instances there are, and whatever is lost, cut off or
\* disturbed: each request of a Lambda is tried at most once more than MaxRetries, and
\* every step of the system uses up an attempt, so that there are finitely many.
THEOREM AttemptsEnd == ClientSpec => AttemptsAreCounted
<1> DEFINE Counted ==
             /\ \A c \in Callers, l \in Lambdas :
                  AttemptsLeft(call'[c][l]) \in 0..AttemptsLeft(call[c][l])
             /\ \E c \in Callers, l \in Lambdas :
                  AttemptsLeft(call'[c][l]) < AttemptsLeft(call[c][l])
<1>1. ClientInv /\ RetriesBounded /\ [ClientNext]_clientVars =>
        RetriesBounded' /\ [Counted]_clientVars
  <2> SUFFICES ASSUME ClientInv, RetriesBounded, [ClientNext]_clientVars
               PROVE  RetriesBounded' /\ [Counted]_clientVars
    OBVIOUS
  <2>1. CASE ClientNext
    BY <2>1, RequestSpends
  <2>2. CASE UNCHANGED clientVars
    BY <2>2 DEF clientVars, RetriesBounded
  <2> QED
    BY <2>1, <2>2
<1> QED
  BY <1>1, RetriesBoundedInit, ClientInvariant, PTL DEF ClientSpec, AttemptsAreCounted
=============================================================================
