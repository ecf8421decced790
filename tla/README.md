# Verification of the face-to-face credential issuer (F2F CRI)

The repository is a set of AWS Lambdas that take a GOV.UK One Login user from
IPV Core's signed request to a verifiable credential: the user picks a document,
gets a letter or a PDF with a barcode, shows the document at a Post Office, Yoti
checks it, and the service sends IPV Core the credential or an error. A journey
lasts up to three weeks and no Lambda lives longer than seconds, so everything a
step knows of the steps before it comes from two DynamoDB tables that every
Lambda writes with **no condition** and reads **eventually consistently**.

That is what this project is about: what is still true of a journey when its
handlers overlap, fail half way, are delivered twice, or read what was true a
moment ago.

## Inventory

| Part | Source | State it keeps | Operations |
| --- | --- | --- | --- |
| Session store | `services/F2fService.ts`, `infra-l2-dynamo/` | session table (by session id; indexes by Yoti session, by code, by state), person-identity table, time to live | the three lookups, ten unconditional updates, sends to TxMA, IPV Core, GOV.UK Notify |
| Session creation | `SessionRequestProcessor` | a session row, a person row | `POST /session` |
| Document selection | `DocumentSelectionRequestProcessor`, `YotiService` | PDF preference, Yoti session, letter execution, the row's Yoti session and state | `POST /documentSelection` |
| Authorization, token | `AuthorizationRequestProcessor`, `AccessTokenRequestProcessor` | code and state of the row | `GET /authorization`, `POST /token` |
| Abort | `AbortRequestProcessor` | state of the row | `POST /abort` |
| Yoti callbacks | `TriggerYotiCallbackStateMachineHandler`, `stepFunctions/yotiCallback.asl.json`, `PostOfficeVisitProcessor`, `YotiSessionCompletionProcessor` | callback queue, state of the row, messages to IPV Core | one execution per notification |
| Expiry schedule | `ExpiredSessionsProcessor` | `expiredNotificationSent`, state of the row, messages to IPV Core | every 15 minutes |
| Evidence | `GenerateVerifiableCredential`, `VerifiableCredentialService` | none (pure) | scores and contra-indicators from Yoti's checks |
| Letter workflow | `GenerateYotiLetterProcessor`, `GeneratePrintedLetterProcessor`, `SendToGovNotify*`, `stepFunctions/` | PDFs in S3, e-mails and letters at Notify | one execution per letter |
| Reminders | `ReminderEmailProcessor`, `GovNotifyHandler`, `SendEmail*` | `reminderEmailSent`, Notify queue | every hour |
| Yoti client | `YotiService` | none between calls | six requests, each repeated by `makeRetryableYotiRequest` |
| Yoti stub | `yoti-stub/` | `yotiRequestCount` of each warm instance | the endpoints of Yoti, by the last four digits of the id |
| Keys | `KmsJwtAdapter`, `JwksHandler`, the client as in `f2f-ipv-stub/` | JWKS cache; the aliases of KMS | decrypt, verify, sign |
| Read-only endpoints | `PersonInfo*`, `SessionConfig*`, `AddressLocations*`, `UserInfo*` | none | reads |
| Everything else | the other stubs, test harness, traffic tests, `deploymentTools`, `DeleteBucketProcessor` | | not part of the service |

The handlers interact only through the tables and the queues. What is hard:
unconditional writes of several Lambdas on one row; a row read, a few awaits, and
then a decision on what was read; reads through indexes that lag and do not
project every attribute; callbacks that are lost, repeated or out of order; work
started (a letter, a credential) before the row records it; DynamoDB deleting a
row that a later update creates again, empty; requests repeated inside a Lambda
whose time is limited; keys that change while a request is under way.

## What makes each part correct

- **Session store.** Whatever version of a row a read returns, what it says was
  true of this session: its Yoti session was opened for it, its code generated for
  it, its state earned. Overwritten and outdated rows must do no harm.
- **Endpoints.** A code only after the instructions were started; a token only for
  the session of the code; one Yoti session per journey and one exchange per code
  as long as no two requests of a session overlap.
- **Callbacks.** A credential only after the upload was reported, only to the
  session the Yoti session was opened for; `F2F_CREDENTIAL_ISSUED` only once a
  credential was sent; a credential or an error, not both.
- **Expiry schedule.** Nobody is reported before the time is over; everybody
  overdue is found, reported and marked.
- **Evidence.** A verification score vouches for approved checks that are all
  done; no contra-indicator is lost; the scores agree; the name is the person's.
- **Yoti client and stub.** A request that is told to retry is served in the end
  and in time, unless somebody else disturbs it; every Lambda ends; every scenario
  of the stub gives the credential the API tests expect.
- **Keys.** A key the client publishes is refused, and one it withdraws accepted, no
  longer than fetched keys are kept; a rotation of the CRI's keys loses no request.
- **Letters and reminders.** The barcode the user holds is the one their row is
  found by; a letter only for those who asked; one reminder.

## The modules

| Module | Models | State | Actions |
| --- | --- | --- | --- |
| `F2fService` | tables, reads, writes, queues, faults, clock | `session`, `stale`, `person`, `invocation`, ... | `TimeToLive`, `Propagate`, `InvocationFails`, `Tick` |
| `JourneyApi` | the five endpoints | that of `F2fService` | one per stretch of a handler between two awaits on shared state |
| `YotiCallbacks` | Yoti's reports, the callback queue, the state machine, both processors | " | `YotiReports`, `CallbackStarts`, `CallbackLost`, `StartExecutionFails`, the steps of the processors |
| `ExpiredSessions` | the expiry schedule | " (`expiry`) | `ExpiryQuery`, `ExpiryNotify`, `ExpiryMark`, `ExpiryFails` |
| `F2fJourney` | the three together, the properties | " | `Next` |
| `ServicePromise` | what IPV Core is promised | owners, letters, codes, uploads, credentials | five |
| `F2fInvariant` | the inductive invariants of the journey | | |
| `F2fProofs`, `ExpiryProofs`, `OrderlyProofs` | proofs: whatever happens; of the schedule; when requests keep their order, and what is left when not | | |
| `YotiLetter` | the letter state machine and its Lambdas | `execution`, `bucket`, `sent` | one per task, and its failure |
| `Reminders` | the reminder schedule, the Notify queue | `reminder`, `notifyQueue`, `queued`, `reminded` | one per phase and per message |
| `InstructionsPromise` | what the users are promised | owners, letters, reminders, what was sent | four |
| `F2fSystem` | the journey, the letters and the reminders together | all of it | `SystemNext` |
| `F2fSystemInvariant`, `F2fSystemProofs`, `InstructionsProofs` | their inductive invariants, proofs | | |
| `CredentialNames`, `Scores` | what is made of Yoti's answer, as operators | none | |
| `Evidence`, `EvidenceProofs` | one completion by them; proofs | an answer, its outcome | `Complete` |
| `YotiStub` | what the stub answers: scenarios, fixtures, errors | none | |
| `YotiClient`, `YotiClientProofs` | the Lambdas that call Yoti, against the stub; proofs | `journey`, `counter`, `call`, `drops` | `Answered`, `NotAnswered`, `AnswerLost` |
| `Keys`, `KeysProofs` | decrypting and verifying a session request while keys change; proofs | `signing`, `publishedAt`, `retiredAt`, `rotations`, `cache`, `jwe`, `jwt`, `outcome` | `Redeploy`, `Send`, `Rotate`, one per attempt and verdict |
| `MCF2fJourney`, `MCF2fSystem`, `MCEvidence`, `MCYotiClient`, `MCKeys` | symmetry, bounds, inputs for TLC | | |

### How code becomes actions

A Lambda invocation is a record in `invocation`: the step it stands at and the
values it carries across awaits. Every await on a table, a queue or Yoti ends an
action, so other invocations come in between; what was read before stays in the
record (`row`, for as long as the code still uses it). Audit events whose failure
the caller logs and ignores (`SendToTxmaOrLog`) are part of the action next to
them; those whose failure throws are actions of their own. `InvocationFails` ends
an invocation at any await: a failed call, a crash, a timeout. What was written
stays written.

The session table is `session` (the last version of each row) and `stale` (the
superseded versions a read may still return). `Visible(s)` is what a read can see;
`Propagate` lets the replicas and indexes catch up. All updates are unconditional
`Put`s on the last version, and an update of a deleted row creates one, as
`UpdateItem` does. `getSessionByYotiId` sees only what its index projects
(`YotiIndexItem`), which is why the expiry check in it is not a check.

A request that is refused before it wrote anything is no step. One that is refused
*after* a write is: `DocSelectPreference` writes the PDF preference and only then
looks at the session.

SQS messages are counters of receives left. The Yoti callback message is deleted
when the state machine *started*, so a failed execution loses the callback
(`CallbackLost`); a failed start leaves it (`StartExecutionFails`).

The clock of a journey is in days. All comparisons of the code are between a stored
time plus a constant and the present, and the constants of the runs are chosen so
that both sides of each comparison occur.

`YotiClient` opens up what the journey sees as one call that succeeds or fails. A
journey has three Lambdas that call Yoti: the document selection, with three
requests in a row, and once it is done the letter, with one, beside the completion,
with one or two. A record of `call` is a Lambda at its request, with the retries
taken and the seconds passed; any free instance of the stub may answer it. A 504 is
an answer that took `GatewayTimeout`; a pause that would outlive the Lambda cuts it
off. `servedBy` is there for the properties alone: it says whether the Lambda had an
instance, and the counter of it, to itself. The stub's answers are tables from codes
to statuses, and its completed sessions are `Answer`s of `Scores`, so that the same
operators which `Evidence` checks give the credential of each scenario.

`Keys` follows one request from the client, which signs with a key it publishes and
encrypts with a key of the CRI, through `decrypt`, one step for each key tried, to
`verifyWithJwks`, with or without a fetch. The CRI's keys are numbered in the order
they come into use and an alias is an offset into them, so `Rotate`, which the code
does not do itself, moves all of them by one.

## Runs

| Run | Question | Bounds and why they are enough |
| --- | --- | --- |
| `race` | Do the promises survive every interleaving of two invocations? | 1 session, 2 invocations, 2 Yoti sessions, no clock: two document selections racing, a callback racing an abort or a token request. More sessions share no row; without a clock nothing is overdue, so races with the sweep belong to `crash` and `expiry`: `Backed`, which implies `IssuedMeansSent`, is checked there |
| `alone` | Are the state checks of the endpoints enough when nothing overlaps, and do lookups cross journeys? | 2 sessions, Yoti sessions and codes, 1 invocation, no lag, no fault, one preference, no clock: every lookup by an index can find the wrong row |
| `crash` | Do the invariant and `ServicePromise` survive failures, redelivery and stale reads? | 1 session, 1 fault or reads that lag by a version (`LagOrFaults`: not both in one behaviour), 2 receives, a sweep on the second day and the deletion of rows on the third (`FirstDayEnds`: nothing is under way when the second day comes; `NothingBegins`: on the third what is under way ends) |
| `expiry` | Does the sweep tell the truth about a batch, and does it find and report everyone overdue? | 2 sessions with a Yoti session each, no codes, two days; only visits are reported (`VisitsOnly`), which is the state the sweep and the callbacks compete for |
| `index`, `deadline` | findings, below | the least in which they occur |
| `Evidence_scores` | What does a credential vouch for? | every type, country, chip, recommendation and kind of reason; up to 2 documents named in every way; names of 1 or 2 words over two letters |
| `Evidence_uk_passport`, `Evidence_names` | findings, below | the same inputs |
| `instructions` | What does the user hold in their hands? | 2 sessions, 2 Yoti sessions, 2 preferences, 1 fault, 2 receives; see below |
| `yoti` | Do retries serve the caller, and end? Does each scenario end as the tests say? | 2 journeys, 2 instances, 3 retries, pauses of 5 s, 29 s and 30 s time-outs, 1 lost answer: any scenario or error beside a journey that is refused at once, and two journeys that share counters |
| `keys` | How long is the cache wrong, and what does a rotation lose? | 3 signing keys (one stays, one goes, one comes), kept for 1 time unit of 3, 1 rotation while a request is under way (after a second one, its key may have no alias any more) |

The properties of `alone` hold *only* alone: with two invocations, two document
selections open two Yoti sessions, two token requests exchange one code, and a
late write takes a session back. That is the price of unconditional writes; the
properties of `race` and `crash` are what is left when it has been paid: of
`OnlyCallbacksGoBack` and `YotiSessionIsStable` it is `RestartMeansTwoLetters`, that the
write which takes a journey back to its start, or gives its row another Yoti session, is
that of a second document selection, whose user was given two letters. What "alone"
has to mean is settled by `OrderlyProofs`: no two invocations *for the same session* at
once, and reads that see every write. Nothing in the code sees to either.
`AnswerIsFinal` needs a completion that is not delivered twice, `MarkedMeansReported`
a queue that takes the message: the code logs the failure and marks the session.

The bounds of `instructions` keep it to its question. `InstructionsOnly`: no
callbacks, aborts or sweeps, which neither send nor stop anything here.
`OneThingAtATime`: one session's letters run while the other's wait, and nothing
but reminders after the first day; letters of two sessions share neither row nor
key. `OneDeletion`: DynamoDB removes one of the expired rows. `TwoReminders`: two, of
one session, whose second is the one that matters, or one of each. `InstructionsMatchRow` needs one invocation at a
time: of two racing document selections, the row keeps one Yoti session and the
letter may show the other. `KeepsInstructions` is what is left without that condition.

Deadlock is not checked anywhere: every journey ends, and `Evidence` is one step.

### Fairness

`FairSpec` (and `VisitsSpec`, which is the same with the bound `VisitsOnly` as part
of the steps, since a state constraint would cut off the behaviours fairness is
about) assumes that the expiry schedule keeps running and finishes (an
EventBridge rule every 15 minutes, `src/deploy/template.yaml:4503`) and that reads
catch up with the table. It assumes nothing of users, Yoti, the clock or the other
Lambdas; invocations and callbacks may stop anywhere.

`ClientSpec` assumes of each Lambda of a journey that a request it has outstanding
comes to an end: an answer, an error, or the gateway's 504. It does not assume
that a particular instance answers, or that the Lambda is left in peace.

## Proofs

All for any sets of sessions, Yoti sessions, codes and invocations, any lag, any
number of faults and any periods; assumed are only `TtlAssumption` (periods are
numbers, at least one receive), `NoneAssumption` (`None` is no value), and for the
modules below that name them `PreferenceAssumption` and `ReminderAssumption` (two
different preferences, at least one receive), `SpaceAssumption` (a space is no letter),
`ClientAssumption` (at least two
retries, as the stub refuses twice; `None` and "several" are no instances),
`KeysAssumption` and `NoneIsNoOutcome`.

**The journey** (`F2fProofs`). None of the properties is inductive: a credential
follows an upload because a completion read a row in `F2F_YOTI_SESSION_COMPLETE`,
perhaps long ago and since overwritten. The invariant is therefore about
everything a later step can act on. `Backed` says that *every version* of a row a
read may return (`RowBacked`), every value an invocation carries
(`InvocationBacked`), every message and every code is backed by a fact that is
never taken back: the owner of a Yoti session, a started letter, an audit event, a
sent credential, a generated code. Since those facts only grow (`Grows`), what was
backed stays backed (`BackedStep`), and each action has only to back what it adds:
one lemma per action. This is also the reason, in words, why unconditional writes
and stale reads cannot break these promises.

From `Backed` follow `TypeCorrect`, `CredentialsFollowUploads`,
`CredentialsReachTheirOwner`, `IssuedSessionsHaveCredentials`,
`CodesFollowLetters`, `TokensBelongToTheirCode`, and `JourneyKeepsPromise`: the
refinement of `ServicePromise`, step by step.

**The expiry schedule** (`ExpiryProofs`). `ExpiredSessionsAreOld`, by a second
invariant, `Aged`: the date of a row is written when the session is created, before
the schedule can know of it, and every later write keeps it or loses it with the row
(`DatesStay`). All versions with a date therefore agree (why a query that sees an
outdated version lists no session too early), and a row that comes back after its
deletion comes back without one. `MarkedAreReported`, by `ReportedFirst`: until the first
failure, the session a sweep is about to mark, and every version of a row that has the
mark, is one IPV Core was told of.

**When requests keep their order** (`OrderlyProofs`). Some properties hold only under
conditions that the code does not establish. They are hypotheses of the theorems:

- `MaxReceiveCount = 1`: the callback queue delivers a message once. Then
  `AnswersAreFinal`, by `AnswersOnce`: a Yoti session completes once, so at any time
  either its completion is still to come (a message, or an invocation before its
  answer), or one answer is given. Two deliveries may end as an error and a credential.
- `MaxStale = 0`, reads see every write, and `[]OneAtATime`, no two invocations for the
  same session overlap, while those of other sessions do what they like. Then
  `CodesAreExchangedOnce`, `YotiSessionsAreStable` and, until the first failed call,
  `JourneysOpenOneYotiSession`. `RowsWait`: while a document selection is about to open
  a Yoti session, or has opened one, the row it was admitted by is still without one;
  only deletion and the sweep come in between, and `Aged` and `Backed` say what they
  leave. `OpenedOnce`: once a Yoti session is open, the row admits no document selection,
  or the one that opened it is under way. `CodesSpent`: a code that was exchanged is on
  no row, and nobody is about to exchange it.
- `[]SweepApart` in addition, that the sweep marks no session while an invocation for it
  is under way: `EndpointsGoForward`, by `StatesWait`. Without it, an endpoint that has
  read the row before writes its own state over `F2F_SESSION_EXPIRED`.

The theorems above say nothing of a system in which two requests of a user overlap. The last
one of the module does, and has no hypothesis: `RestartsAreSecondSelections`. Its
invariant, `StartsSettled`, says of every version of a row a read may return that a Yoti
session on it, or a state only a document selection leads to, means that the session is
settled (`LetterSettled`): a letter was started for it with a Yoti session no selection is about
to write any more. What an invocation was admitted by is settled in the same way, and each
Yoti session has one selection that writes it, since Yoti gives out an id once. A
selection that finds such a row therefore writes another Yoti session than that of the
letter, and has started a letter of its own before.

**What the user is sent** (`F2fSystemProofs`). `SystemTypes`: letters and reminders
keep `Backed`, since the only thing they write to the tables is the reminder flag, and
send IPV Core nothing: `SystemKeepsPromise`.
`FlagsAreTrue`, by `FlagsFollow`: whoever waits to be marked has been put on the queue
before, and every other write keeps or clears the flag (`FlagsStay`).
`PostedLettersWereAskedFor`, by `AskedFor`: an execution prints only for a session one
of whose letters asked for it, the merged PDF is stored under the Yoti session of the
row, and that Yoti session belongs to the same session as the letter's own, because
every version of a row is backed. `UsersAreToldAsPromised` is the refinement of
`InstructionsPromise`, whatever races, fails, lags or is delivered again. `Backed` also
says of every Yoti session a row names that its letter was started, since the write that
puts it there comes after; `ToldFollow` carries that to whatever an execution or a run of
the schedule has read and the Notify queue holds, until it is sent.

`InstructionsProofs` adds what takes reads that see every write (`MaxStale = 0`).
`RemindersAreSentOnce`, by `QueuedOnce`: until the first failure and the first run that
ends early, a session is queued once, and from then on either its row has the flag, or
the run that queued it is about to set it, or the row has gone and come back without the
date a run looks for. `InstructionsAreOfTheRow`, under `[]OneAtATime` as well, by
`NamesSettled`: from the moment something names a Yoti session to a user, the row has
that one or none, admits no document selection, and none is under way that would write
another; an execution names the Yoti session it has read on the row, and a row that
comes back after its deletion comes back without one.

**Evidence** (`EvidenceProofs`). `Completed`: an outcome is the completion of its
answer. The rest is about the scores as functions: `VerifiedIsApproved`,
`NoneLost`, `ScoresAlwaysAgree`, `TypeCorrect`, for every answer of Yoti; and about the
names. `FamilyNameKept` and `GivenNamesKept` hold for names of any number of words of any
letters, read from a full name. `join` and `split` are recursive functions of the length
read so far, so what they compute is shown for each length from the one before
(`UpToBound`, from the least counterexample, since the library's induction takes an
operator). `JoiningReads` and `WordsOfJoined`: cutting at spaces gives back the words that
were joined, as no word holds a space (`SpaceAssumption`). The given names begin the full
name, so their first occurrence is the first letter and what is left is the family name,
wherever the given names come again; the family name's first occurrence is its own unless
one begins within the given names, which is the condition of `GivenNamesUnlessRepeated`
and the divergence `Evidence_names` shows.

**Yoti client** (`YotiClientProofs`). `ClientTypes` and `RetryingIsServed`, for any
number of journeys and instances. The invariant is `CountedRetries`: as long as nobody
disturbs a Lambda that is told to retry, the instance which serves it has counted at
least as many requests as the Lambda has retried; and the instance serves after two,
which `MaxRetries` reaches. `IdleLambdas` says that what has not begun has retried
nothing. `RetryingIsInTime` adds the pauses, under the hypothesis `PausesAreShort`: at
most three retries, and `5 * Backoff <= LambdaTimeout`. `PausesFit` bounds what an
undisturbed Lambda has waited for by its request and its retries: one `Backoff` for each
request that was served after two retries, and three for a FAD code that is refused with
500 and tried to the end. The deployment (three retries, 5 s, 30 s;
`src/deploy/template.yaml:2147`) satisfies it, with one pause to spare, and the bound is
sharp: with three retries and a limit below five pauses, TLC finds a journey cut off.
`AttemptsEnd` is what safety can say of `CallsEnd`: every step of the system spends one of
the attempts some Lambda has left, and gives none back, whatever is answered, lost or in
between. `RetriesBounded` says that no Lambda has retried more than `MaxRetries` times,
so the number of attempts left (`AttemptsLeft`) is a natural number.

**Keys** (`KeysProofs`). `KeysTypes`, `NewKeysAreServed`, `WithdrawnKeysExpire`,
`RotationIsSafe`, for any keys and any number of rotations. Three invariants carry
them: `CacheFollows` (a complete cache lacks only keys that were published after it was
filled, and holds only keys published then), `AttemptsFollow` (the attempts have not
passed the key of the request, unless the key management failed or the aliases moved
twice), `OneAtATime` (a request is decrypted or verified, and has no outcome before).

**Only model-checked**: liveness (`OverdueIsSwept`, `OverdueIsReported`, `CallsEnd`),
which is out of reach of the prover; and `EndsAsTested`, which compares two tables built
with `:>` and `@@`, of which the prover knows nothing and TLC evaluates every row. Every
other property of a passing run is stated by a theorem, some under the hypotheses above.

## Where code and comments disagree

1. `index`: `getSessionByYotiId` means to refuse expired sessions, but its index
   does not project `expiryDate` (`F2fService.ts:126`,
   `infra-l2-dynamo/template.yaml:104`). Callbacks of expired sessions are
   processed until DynamoDB deletes the row.
2. `deadline`: "Time given to visit PO has expired" is sent by the age of the
   *session*, while Yoti counts from the *document selection*. A user who
   selects late is reported while the Post Office would still serve them.
3. `Evidence_uk_passport`: the scores are those of `idDocuments[0]`, the checks
   those of the document the authenticity check names. They may be two documents.
4. `Evidence_names`: removing the family name from the full name removes its first
   occurrence, which may be inside a given name.

Seen on the way, without a run:

- An aborted or expired session is revived by a late callback
  (`OnlyCallbacksGoBack` says: only by one).
- A non-UK passport with a chip scores 4, unlike the comment at
  `GenerateVerifiableCredential.ts:57`; the comment names residence permits, for
  which the code throws.
- A code's expiry date is stored and read by nothing.
- The letter execution starts before the row knows the Yoti session; if
  it is faster, `GenerateYotiLetterProcessor.ts:99` asks for the PDF of `undefined`
  and the execution fails for good.
- If the printed letter cannot be generated, the e-mail is lost with it.
- A refused document selection still overwrites the PDF preference that
  `SendToGovNotify` decides by.
- A row whose `expiryDate` passes before the schedule comes round is never reported:
  the query leaves it out. With the periods of the deployment it cannot happen.
- One user whose rows cannot be read, or whose session has just expired, ends the
  reminder run for everybody in it; those queued but not flagged are reminded
  again.
- The stub slices the code of a FAD before it checks that there is one
  (`FadCodeStatus`): a request without it is answered 500, and retried, instead of 400.
- The table of the API tests expects a `verificationScore` of 0 for 0116, 0126 and 0127
  (`vcValidationData.json:146`, `:220`, `:227`), whose credentials are verified in full.
  The helper (`ApiTestSteps.ts:556`) skips expectations that are falsy, so nothing
  fails.
- The titles of two unit tests (`KmsJwtAdapterUtils.test.ts:254`, `:275`) name the order
  active, inactive, previous; the code tries `previous` second.
- The cache of `KmsJwtAdapter` is not keyed by endpoint; there is one endpoint for each
  environment, so nothing comes of it. It is not fetched again for a kid it
  does not know, which is what `RefusedOnlyWhenNew` bounds.
- `sendGovNotification` reads `err.response.data` of an error that may have no response
  (`SendEmailService.ts:366`): a lost connection is not retried by the loop but by the
  queue, with the message Notify may have accepted.
- The loop that fetches a PDF in `SendEmailService` does not count empty answers. It
  serves messages of type `PDF_EMAIL`, which nothing sends any more.

## Abstractions

- Person rows are not deleted; their session row, deleted at the same time, is.
- Addresses, token expiry, the request's other attributes: no step of the
  journey depends on them.
- A code or id from `randomUUID` is fresh.
- In the journey and the letters, the retries inside one call (Yoti, GOV.UK Notify, SQS
  clients) are one call that succeeds or fails; those of Yoti are `YotiClient`.
- The client's requests in `Keys` are those the IPV stub makes, and a fetch returns any
  part of what is published, since the client leaves out a key it cannot read.
- A query by state returns every row; the code reads one page of one megabyte, of an
  index without a sort key.
- A stub's fixture is what the credential is computed from; the rest of its text, and
  reasons the code does not tell apart ("UNKNOWN"), are left out.
- Two equal reminder messages on the Notify queue are one message with its
  receives renewed.
- After a rejected reminder run has ended, its frozen Lambda may resume and
  finish an await; the model ends the run there.
- `cutShort`, in `Reminders`, is a history variable: no step reads it.
- Names are compared without case, and contain no characters special to
  regular expressions. A part of a name on the person row is one word: a part with a space
  in it comes back as two, and an empty one beside a valid one, which
  `isPersonNameValid` lets through, leaves a second space in the full name.

## Not modelled

- What is signed and published by the service itself: tokens, requests to Yoti,
  `JwksHandler`. They keep no state and nothing waits for them.
- The retry loops of `SendEmailService` and `SendToGovNotifyService`, with a constant
  pause and a count: to the queue and the state machine they are one call.
- Endpoints that only read (`PersonInfo`, `SessionConfig`, `AddressLocations`,
  `UserInfo`), and request validation, whose refusals write nothing.
- The layout of the letter, `EnvironmentVariables`, logging and metrics.
- The other stubs (Post Office, GOV.UK Notify, the callbacks of the IPV stub), the test
  harness, the traffic tests, `DeleteBucketProcessor`. Of the deployment, the queue
  settings, the schedules and the index projections are used.

## Plan

Done, in this order: store, endpoints, callbacks, schedule and their
composition; `ServicePromise`; the inductive invariant and its proofs; evidence
and names with proofs; letters and reminders; the Yoti client against the stub,
with proofs; keys, with proofs; the proofs about the schedule, letters and reminders;
what holds when requests keep their order, with proofs; the pauses of the Yoti client;
`InstructionsPromise`, and the proof that `F2fSystem` implements it and `ServicePromise`;
the proofs about names of any length; the attempts of the Yoti client; what is left of the
order of a journey when its requests overlap.

Next:

1. The retry loops towards GOV.UK Notify, whose answer to a lost connection may be a
   second letter.
2. Reminder liveness: everybody due is reminded or flagged, with its fairness.
