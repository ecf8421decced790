------------------------------ MODULE YotiStub ------------------------------
(***************************************************************************)
(* The stub of Yoti the service is tested against: the last four digits of *)
(* a Yoti session id name a scenario, and every endpoint answers by them.  *)
(* What a completed session looks like is an Answer without the document   *)
(* fields, which are fetched by a media id that names their own fixture.   *)
(***************************************************************************)
EXTENDS Scores

ASSUME StubAssumption ==
  {"used", "other", "third"} \subseteq DocumentIds /\ {"F", "J", "S", "K"} \subseteq Letters

-----------------------------------------------------------------------------
(* The fixtures of a completed session: its documents, and its checks.     *)

Checked(authenticity, faceMatch) ==
  [authenticity |-> [done |-> TRUE, value |-> "APPROVE", reason |-> "UNKNOWN",
                     passed |-> authenticity],
   faceMatch    |-> [done |-> TRUE, value |-> "APPROVE", reason |-> "UNKNOWN",
                     passed |-> faceMatch]]

Chip == {"chip_csca_trusted"}
ManualMatch == {"manual_face_match"}

\* Mutant: the reason is set, but not the recommendation.
ReasonOnly(check, reason) == [check EXCEPT !.reason = reason]

Rejected(check, reason) == [check EXCEPT !.value = "REJECT", !.reason = reason]

AuthenticityRejected(answer, reason) ==
  [answer EXCEPT !.authenticity = Rejected(@, reason)]

FaceRejected(answer, reason) == [answer EXCEPT !.faceMatch = Rejected(@, reason)]

IdDocument(id, type, country, fields) ==
  [id |-> id, type |-> type, country |-> country, fields |-> fields]

Passport(id, fields) == IdDocument(id, "PASSPORT", "GBR", fields)

\* The three other mandatory checks are done and approved in every fixture.
Session(documents, checks) ==
  [completed |-> TRUE, documents |-> documents, used |-> <<"used">>,
   authenticity |-> checks.authenticity, faceMatch |-> checks.faceMatch,
   visualReview |-> "done", media |-> None, names |-> "missing", fullName |-> <<>>,
   person |-> None]

VALID_RESPONSE_CHECKS == Checked({}, {})
VALID_RESPONSE == Session(<<Passport("used", "media")>>, VALID_RESPONSE_CHECKS)

VALID_RESPONSE_NFC_CHECKS == Checked(Chip, {})
VALID_RESPONSE_NFC == Session(<<Passport("used", "media")>>, VALID_RESPONSE_NFC_CHECKS)

VALID_DL_RESPONSE_CHECKS == Checked({}, {})
VALID_DL_RESPONSE ==
  Session(<<IdDocument("used", "DRIVING_LICENCE", "GBR", "media"),
            IdDocument("other", "DRIVING_LICENCE", "GBR", "none")>>, VALID_DL_RESPONSE_CHECKS)

\* document_in_date has failed, and nothing recommends a rejection for it.
EXPIRED_PASSPORT_CHECKS == Checked({}, ManualMatch)
EXPIRED_PASSPORT_RESPONSE == Session(<<Passport("used", "media")>>, EXPIRED_PASSPORT_CHECKS)

TAMPERED_DOCUMENT_CHECKS ==
  [Checked({}, ManualMatch) EXCEPT !.authenticity = Rejected(@, "TAMPERED")]
TAMPERED_DOCUMENT_RESPONSE == Session(<<Passport("used", "media")>>, TAMPERED_DOCUMENT_CHECKS)

AI_FAIL_MANUAL_FAIL_CHECKS ==
  [Checked(Chip, {}) EXCEPT !.faceMatch = Rejected(@, "DIFFERENT_PERSON")]
AI_FAIL_MANUAL_FAIL == Session(<<Passport("used", "media")>>, AI_FAIL_MANUAL_FAIL_CHECKS)

DIFFERENT_PERSON_CHECKS ==
  [Checked(Chip, {}) EXCEPT !.faceMatch = Rejected(@, "DIFFERENT_PERSON")]
DIFFERENT_PERSON_RESPONSE == Session(<<Passport("used", "media")>>, DIFFERENT_PERSON_CHECKS)

AI_FAIL_MANUAL_PASS_CHECKS == Checked(Chip, ManualMatch)
AI_FAIL_MANUAL_PASS == Session(<<Passport("used", "media")>>, AI_FAIL_MANUAL_PASS_CHECKS)

AI_PASS_CHECKS == Checked({}, ManualMatch)
AI_PASS == Session(<<Passport("used", "media")>>, AI_PASS_CHECKS)

DOCUMENT_FIELDS_SECOND_CHECKS == Checked({}, ManualMatch)
DOCUMENT_FIELDS_SECOND ==
  Session(<<Passport("other", "none"), Passport("used", "media")>>,
          DOCUMENT_FIELDS_SECOND_CHECKS)

MULTIPLE_DOCUMENT_FIELDS_CHECKS == Checked({}, ManualMatch)
MULTIPLE_DOCUMENT_FIELDS ==
  Session(<<Passport("used", "media"), Passport("other", "none"), Passport("third", "media")>>,
          MULTIPLE_DOCUMENT_FIELDS_CHECKS)

IdCard == <<IdDocument("used", "NATIONAL_ID", "EU", "media")>>

EEA_VALID_RESPONSE_NFC_CHECKS == Checked(Chip, {})
EEA_VALID_RESPONSE_NFC == Session(IdCard, EEA_VALID_RESPONSE_NFC_CHECKS)

EEA_AI_MATCH_NO_CHIP_CHECKS == Checked({}, {})
EEA_AI_MATCH_NO_CHIP == Session(IdCard, EEA_AI_MATCH_NO_CHIP_CHECKS)

EEA_AI_FAIL_MANUAL_PASS_CHECKS == Checked(Chip, ManualMatch)
EEA_AI_FAIL_MANUAL_PASS == Session(IdCard, EEA_AI_FAIL_MANUAL_PASS_CHECKS)

EEA_MANUAL_PASS_CHECKS == Checked({}, ManualMatch)
EEA_MANUAL_PASS == Session(IdCard, EEA_MANUAL_PASS_CHECKS)

-----------------------------------------------------------------------------
(* GET /sessions/{id}, by scenario: the fixture as the scenario changes it *)
(* and the code of its media id.                                           *)

Scenario(answer, media) == [answer |-> answer, media |-> media]

Foreign(answer) == [answer EXCEPT !.documents[1].country = "EU"]

Manually(answer) == [answer EXCEPT !.faceMatch.passed = ManualMatch]

UK_DL ==
  "0000" :> Scenario(VALID_DL_RESPONSE, "0000")
    @@ "0001" :> Scenario(Manually(VALID_DL_RESPONSE), "0000")
    @@ "0002" :> Scenario(VALID_DL_RESPONSE, "0002")
    @@ "0003" :> Scenario(VALID_DL_RESPONSE, "0003")

UK_PASSPORT ==
  "0100" :> Scenario(VALID_RESPONSE_NFC, "0100")
    @@ "0101" :> Scenario(VALID_RESPONSE, "0100")
    @@ "0102" :> Scenario(AI_FAIL_MANUAL_PASS, "0100")
    @@ "0103" :> Scenario(AI_PASS, "0100")
    @@ "0104" :> Scenario(DIFFERENT_PERSON_RESPONSE, "0100")
    @@ "0105" :> Scenario(EXPIRED_PASSPORT_RESPONSE, "0100")
    @@ "0106" :> Scenario(TAMPERED_DOCUMENT_RESPONSE, "0100")
    @@ "0107" :> Scenario(AI_FAIL_MANUAL_FAIL, "0100")

ID_DOCUMENT_FACE_MATCH ==
  LET reason == "0108" :> "FACE_NOT_GENUINE" @@ "0109" :> "LARGE_AGE_GAP"
                  @@ "0110" :> "PHOTO_OF_MASK" @@ "0111" :> "PHOTO_OF_PHOTO"
                  @@ "0112" :> "DIFFERENT_PERSON"
  IN  [id \in DOMAIN reason |-> Scenario(FaceRejected(VALID_RESPONSE_NFC, reason[id]), "0100")]

AuthenticityScenarios(reason) ==
  [id \in DOMAIN reason |->
     Scenario(AuthenticityRejected(VALID_RESPONSE_NFC, reason[id]), "0100")]

\* "UNKNOWN" stands for the reasons the credential does not tell apart.
ID_DOCUMENT_AUTHENTICITY ==
  AuthenticityScenarios(
    "0113" :> "COUNTERFEIT" @@ "0114" :> "EXPIRED_DOCUMENT" @@ "0115" :> "FRAUD_LIST_MATCH"
      @@ "0117" :> "UNKNOWN" @@ "0118" :> "TAMPERED")

ID_DOCUMENT_AUTHENTICITY_2 ==
  AuthenticityScenarios(
    "0119" :> "MISSING_HOLOGRAM" @@ "0120" :> "NO_HOLOGRAM_MOVEMENT"
      @@ "0121" :> "DATA_MISMATCH" @@ "0122" :> "DOC_NUMBER_INVALID"
      @@ [id \in {"0123", "0124", "0125"} |-> "UNKNOWN"])

\* 0116 rejects a check no fixture has, the others one whose recommendation is not
\* part of an Answer: nothing of it reads one.
OTHER_CHECKS ==
  [id \in {"0116", "0126", "0127", "0128"} |-> Scenario(VALID_RESPONSE_NFC, "0100")]

UK_PASSPORT_PEOPLE ==
  [id \in {"0129", "0130", "0131", "0132"} |-> Scenario(VALID_RESPONSE_NFC, id)]

UK_PASSPORT_DOCUMENTS ==
  "0133" :> Scenario(DOCUMENT_FIELDS_SECOND, "0100")
    @@ "0134" :> Scenario(MULTIPLE_DOCUMENT_FIELDS, "0100")

UK_PASSPORT_NAMES ==
  [id \in {"0150", "0151", "0152", "0153", "0180"} |-> Scenario(VALID_RESPONSE_NFC, id)]

UK_PASSPORT_FIELDS ==
  "0160" :> Scenario([VALID_RESPONSE_NFC EXCEPT !.documents[1].fields = "none"], None)
    @@ "0170" :> Scenario([VALID_RESPONSE_NFC EXCEPT !.documents[1].fields = "noMedia"], None)

\* The two that fail keep the country of the fixture.
NON_UK_PASSPORT ==
  "0200" :> Scenario(Foreign(VALID_RESPONSE_NFC), "0200")
    @@ "0201" :> Scenario(Foreign(VALID_RESPONSE), "0200")
    @@ "0202" :> Scenario(Foreign(AI_FAIL_MANUAL_PASS), "0200")
    @@ "0203" :> Scenario(Foreign(AI_PASS), "0200")
    @@ "0204" :> Scenario(FaceRejected(VALID_RESPONSE_NFC, "FACE_NOT_GENUINE"), "0200")
    @@ "0205" :> Scenario(AuthenticityRejected(VALID_RESPONSE_NFC, "UNKNOWN"), "0200")
    @@ "0206" :> Scenario(Foreign(VALID_RESPONSE_NFC), "0206")

EU_DL ==
  "0400" :> Scenario(Foreign(VALID_DL_RESPONSE), "0400")
    @@ "0401" :> Scenario(Foreign(Manually(VALID_DL_RESPONSE)), "0400")
    @@ "0402" :> Scenario(Foreign(VALID_DL_RESPONSE), "0402")

EEA_ID ==
  "0500" :> Scenario(EEA_VALID_RESPONSE_NFC, "0500")
    @@ "0501" :> Scenario(EEA_AI_MATCH_NO_CHIP, "0500")
    @@ "0502" :> Scenario(EEA_AI_FAIL_MANUAL_PASS, "0500")
    @@ "0503" :> Scenario(EEA_MANUAL_PASS, "0500")

Scenarios ==
  UK_DL @@ UK_PASSPORT @@ ID_DOCUMENT_FACE_MATCH @@ ID_DOCUMENT_AUTHENTICITY
    @@ ID_DOCUMENT_AUTHENTICITY_2 @@ OTHER_CHECKS @@ UK_PASSPORT_PEOPLE
    @@ UK_PASSPORT_DOCUMENTS @@ UK_PASSPORT_NAMES @@ UK_PASSPORT_FIELDS
    @@ NON_UK_PASSPORT @@ EU_DL @@ EEA_ID

\* 1601 succeeds in the end, with a driving licence.
ScenarioOf(id) ==
  IF id = "1601" THEN Scenario(VALID_DL_RESPONSE, "0000") ELSE Scenarios[id]

-----------------------------------------------------------------------------
(* GET /sessions/{id}/media/{id}/content: the document fields.             *)

Parts(type, country) ==
  [media |-> [type |-> type, country |-> country], names |-> "parts", fullName |-> <<>>]

\* Without a given or a family name, the full name is what there is.
FullNameOnly(fullName) ==
  [media |-> [type |-> "PASSPORT", country |-> "GBR"], names |-> "full", fullName |-> fullName]

\* The person the tests create a session for: "FRANK JACOB JAMES" and a surname.
Person == [given |-> <<<<"F">>, <<"J">>, <<"J">>>>, family |-> <<<<"S">>>>]

GBR_DRIVING_LICENCE == Parts("DRIVING_LICENCE", "GBR")
GBR_DRIVING_LICENCE_NON_SPACE_CHARS_RETURNED_WRONG == Parts("DRIVING_LICENCE", "GBR")
GBR_DRIVING_LICENCE_MISSING_FORMATTED_ADDRESS == Parts("DRIVING_LICENCE", "GBR")
GBR_PASSPORT == Parts("PASSPORT", "GBR")
GBR_PASSPORT_JOYCE == Parts("PASSPORT", "GBR")
GBR_PASSPORT_PAUL == Parts("PASSPORT", "GBR")
GBR_PASSPORT_ANTHONY == Parts("PASSPORT", "GBR")
GBR_PASSPORT_SUZIE == Parts("PASSPORT", "GBR")
GBR_PASSPORT_WRONG_SPLIT_GIVEN_NAME == Parts("PASSPORT", "GBR")
GBR_PASSPORT_ONLY_FULLNAME == FullNameOnly(FullName(Person))
GBR_PASSPORT_GIVEN_NAME == FullNameOnly(FullName(Person))
GBR_PASSPORT_FAMILY_NAME == FullNameOnly(FullName(Person))
GBR_PASSPORT_MISSING_FAMILY_NAME == FullNameOnly(<<"K", Space, "J">>)
ESP_PASSPORT == Parts("PASSPORT", "EU")
ESP_PASSPORT_WRONG_SPLIT_SURNAMES == Parts("PASSPORT", "EU")
DEU_DRIVING_LICENCE == Parts("DRIVING_LICENCE", "EU")
DEU_DRIVING_LICENCE_INCORRECT_NAME_SEQUENCE == Parts("DRIVING_LICENCE", "EU")
NLD_NATIONAL_ID == Parts("NATIONAL_ID", "EU")

MediaIds ==
  {"0000", "0002", "0003", "0100", "0129", "0130", "0131", "0132", "0150", "0151", "0152",
   "0153", "0180", "0200", "0206", "0400", "0402", "0500"}

MediaContent(code) ==
  CASE code = "0000" -> GBR_DRIVING_LICENCE
    [] code = "0002" -> GBR_DRIVING_LICENCE_NON_SPACE_CHARS_RETURNED_WRONG
    [] code = "0003" -> GBR_DRIVING_LICENCE_MISSING_FORMATTED_ADDRESS
    [] code = "0100" -> GBR_PASSPORT
    [] code = "0129" -> GBR_PASSPORT_JOYCE
    [] code = "0130" -> GBR_PASSPORT_PAUL
    [] code = "0131" -> GBR_PASSPORT_ANTHONY
    [] code = "0132" -> GBR_PASSPORT_SUZIE
    [] code = "0150" -> GBR_PASSPORT_ONLY_FULLNAME
    [] code = "0151" -> GBR_PASSPORT_GIVEN_NAME
    [] code = "0152" -> GBR_PASSPORT_FAMILY_NAME
    [] code = "0153" -> GBR_PASSPORT_WRONG_SPLIT_GIVEN_NAME
    [] code = "0180" -> GBR_PASSPORT_MISSING_FAMILY_NAME
    [] code = "0200" -> ESP_PASSPORT
    [] code = "0206" -> ESP_PASSPORT_WRONG_SPLIT_SURNAMES
    [] code = "0400" -> DEU_DRIVING_LICENCE
    [] code = "0402" -> DEU_DRIVING_LICENCE_INCORRECT_NAME_SEQUENCE
    [] code = "0500" -> NLD_NATIONAL_ID

\* What the completion makes an answer of: the session, its document fields and the
\* person row.
AnswerOf(id) ==
  LET scenario == ScenarioOf(id)
      content == MediaContent(scenario.media)
  IN  IF scenario.media = None THEN scenario.answer
      ELSE [scenario.answer EXCEPT !.media = content.media, !.names = content.names,
                                   !.fullName = content.fullName, !.person = Person]

-----------------------------------------------------------------------------
(* What each endpoint answers, as a status. The codes of an endpoint's     *)
(* errors begin with its digit; 504 is the gateway's answer to a stub that *)
(* sleeps for 30 seconds.                                                  *)

\* "0199": the codes of supported documents no scenario is written for.
SUPPORTED_DOCUMENTS == DOMAIN Scenarios \cup {"0199"}

Listed(errors, id) == IF id \in DOMAIN errors THEN errors[id] ELSE 500

CONFIGURATION_ERRORS ==
  "2400" :> 400 @@ "2401" :> 401 @@ "2404" :> 404 @@ "2409" :> 409 @@ "2503" :> 503
    @@ "2999" :> 504

INSTRUCTIONS_ERRORS ==
  "3400" :> 400 @@ "3401" :> 401 @@ "3404" :> 404 @@ "3409" :> 409 @@ "3503" :> 503
    @@ "3999" :> 504

IPV_INTEG_FULL_NAMES ==
  {"Kenneth Decerqueira", "JOYCE BASU", "PAUL HIRONS", "ANTHONY ACHEAPONG", "SUZIE SHREEVE",
   "Linda Duff", "Paul BUTTIVANT"}

\* Names of integration users stand for a code; of others, their digits are it.
IdOf(name) ==
  CASE name = "Kenneth Decerqueira" -> "0100"
    [] name = "JOYCE BASU" -> "0129"
    [] name = "PAUL HIRONS" -> "0130"
    [] name = "ANTHONY ACHEAPONG" -> "0131"
    [] name = "SUZIE SHREEVE" -> "0132"
    [] name = "Linda Duff" -> "0204"
    [] name = "Paul BUTTIVANT" -> "0205"
    [] OTHER -> name

\* A name without digits makes the stub throw. Codes of later errors can be created.
createSession(name) ==
  IF name = "no building" THEN 400
  ELSE IF name = "no digits" THEN 500
  ELSE IF IdOf(name) \in SUPPORTED_DOCUMENTS \cup DOMAIN CONFIGURATION_ERRORS
                          \cup DOMAIN INSTRUCTIONS_ERRORS
    THEN 201
  ELSE Listed("1400" :> 400 @@ "1401" :> 401 @@ "1403" :> 403 @@ "1404" :> 404
                @@ "1503" :> 503 @@ "1999" :> 504, name)

getSessionConfiguration(id) ==
  IF id \in SUPPORTED_DOCUMENTS THEN 200 ELSE Listed(CONFIGURATION_ERRORS, id)

\* A missing code is sliced before it is checked, and what that throws is a 500.
FadCodeStatus(fadCode) ==
  CASE fadCode = "missing" -> 500
    [] fadCode \in {"empty", "malformed", "XXXX"} -> 400
    [] OTHER -> 200

updateSessionInstructions(id) ==
  IF id \in SUPPORTED_DOCUMENTS THEN 200 ELSE Listed(INSTRUCTIONS_ERRORS, id)

fetchInstructionsPdf(id) ==
  IF id \in SUPPORTED_DOCUMENTS THEN 200
  ELSE Listed("4400" :> 400 @@ "4401" :> 401 @@ "4404" :> 404 @@ "4409" :> 409
                @@ "4500" :> 500 @@ "4503" :> 503 @@ "4999" :> 504, id)

getSession(id) ==
  IF id \in DOMAIN Scenarios THEN 200
  ELSE Listed("5400" :> 400 @@ "5401" :> 401 @@ "5404" :> 404 @@ "5429" :> 429
                @@ "5503" :> 503 @@ "5999" :> 504, id)

\* No scenario's media id ends in a code of an error.
getMediaContent(code) == IF code \in MediaIds THEN 200 ELSE 500

\* Mutant: the counter goes on.
CountedOn(n) == [status |-> IF n < 2 THEN 503 ELSE 200, count |-> n + 1]

\* 1601: unavailable twice, then served, by a counter that all endpoints of one
\* instance of the stub share.
TwiceUnavailable(n) ==
  IF n < 2 THEN [status |-> 503, count |-> n + 1] ELSE [status |-> 200, count |-> 0]

\* MockYotiSessionHandler: the endpoint of a request, and the counter after it.
Respond(op, name, fadCode, n) ==
  IF op = "generateInstructions" /\ FadCodeStatus(fadCode) # 200
    THEN [status |-> FadCodeStatus(fadCode), count |-> n]
  ELSE IF op # "getMediaContent" /\ name = "1601" THEN TwiceUnavailable(n)
  ELSE [status |->
          CASE op = "createSession" -> createSession(name)
            [] op = "fetchSessionInfo" -> getSessionConfiguration(IdOf(name))
            [] op = "generateInstructions" -> updateSessionInstructions(IdOf(name))
            [] op = "fetchInstructionsPdf" -> fetchInstructionsPdf(IdOf(name))
            [] op = "getCompletedSessionInfo" -> getSession(IdOf(name))
            [] op = "getMediaContent" -> getMediaContent(ScenarioOf(IdOf(name)).media),
        count |-> n]
=============================================================================
