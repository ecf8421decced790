------------------------------- MODULE Scores -------------------------------
(***************************************************************************)
(* What YotiSessionCompletionProcessor makes of Yoti's answer about a      *)
(* completed session: an error for IPV Core, a credential, or an exception *)
(* nobody is told of. Which document counts, whose names it carries, the   *)
(* scores of GenerateVerifiableCredential and the contra-indicators.       *)
(* A pure function of the answer.                                          *)
(***************************************************************************)
EXTENDS Naturals, Sequences, CredentialNames

CONSTANT DocumentIds  \* ids of documents within one Yoti session

DocumentTypes == {"PASSPORT", "DRIVING_LICENCE", "NATIONAL_ID", "RESIDENCE_PERMIT"}

\* "EU": the countries of EU_DL_COUNTRIES; "OTHER": neither those nor GBR.
Countries == {"GBR", "EU", "OTHER"}

V01Reasons == {"FACE_NOT_GENUINE", "LARGE_AGE_GAP", "PHOTO_OF_MASK", "PHOTO_OF_PHOTO",
               "DIFFERENT_PERSON"}

D14Reasons == {"COUNTERFEIT", "TAMPERED", "MISSING_HOLOGRAM", "NO_HOLOGRAM_MOVEMENT",
               "DOC_NUMBER_INVALID"}

Reasons == V01Reasons \cup D14Reasons
             \cup {"EXPIRED_DOCUMENT", "FRAUD_LIST_MATCH", "DATA_MISMATCH", "UNKNOWN"}

\* A check Yoti reports; passed: the sub-checks of its breakdown with result PASS.
Check == [done : BOOLEAN, value : {"APPROVE", "NOT_AVAILABLE", "REJECT"},
          reason : Reasons, passed : SUBSET {"chip_csca_trusted", "manual_face_match"}]

\* fields: no document_fields; no media id in them; or both.
Document == [id : DocumentIds, type : DocumentTypes, country : Countries,
             fields : {"none", "noMedia", "media"}]

\* media: the document fields fetched by that id, None when the answer is empty.
\* names: given and family name are in it, or only a full name, or no name at all;
\* person: the name of the person row, None when the row is missing. visualReview
\* stands for the three mandatory checks that only have to be done.
Answer ==
  [completed    : BOOLEAN,
   documents    : Seq(Document),
   used         : Seq(DocumentIds),
   authenticity : Check \cup {None},
   faceMatch    : Check \cup {None},
   visualReview : {"missing", "pending", "done"},
   media        : [type : DocumentTypes, country : Countries] \cup {None},
   names        : {"parts", "full", "missing"},
   fullName     : Seq(Letters \cup {Space}),
   person       : PersonName \cup {None}]

-----------------------------------------------------------------------------
(* YotiSessionCompletionProcessor: which document, and what is refused.    *)

\* The document the authenticity check names; its absence is an error.
Used(a) == {n \in DOMAIN a.documents : a.documents[n].id = a.used[1]}

NoDocument(a) ==
  \/ ~a.completed
  \/ a.documents = <<>>
  \/ a.authenticity = None \/ Len(a.used) # 1
  \/ Used(a) = {}

NoFields(a) ==
  \/ \E n \in Used(a) : /\ \A m \in Used(a) : n <= m
                        /\ a.documents[n].fields # "media"
  \/ a.media = None

\* A full name has to be cut into parts with the help of the person row.
NoNames(a) ==
  \/ a.names = "missing"
  \/ /\ a.names = "full"
     /\ a.person = None \/ getNamesFromPersonIdentity(a.person, a.fullName) = None

Refused(a) == NoDocument(a) \/ NoFields(a) \/ NoNames(a)

-----------------------------------------------------------------------------
(* GenerateVerifiableCredential, of the first document of the session.     *)

First(a) == a.documents[1]

doesDocumentContainValidChip(type, check) ==
  type \in {"PASSPORT", "NATIONAL_ID"} /\ "chip_csca_trusted" \in check.passed

\* The types a credential can be made of; for the others, the processor throws.
Scored(type, country) ==
  type \in {"PASSPORT", "DRIVING_LICENCE"}
    \cup (IF country = "GBR" THEN {} ELSE {"NATIONAL_ID"})

\* Mutant: a driving licence is scored like a passport.
StrengthByChip(type, chip) == IF chip \/ type = "DRIVING_LICENCE" THEN 4 ELSE 3

calculateStrengthScore(type, chip) ==
  IF type \in {"PASSPORT", "NATIONAL_ID"} /\ chip THEN 4 ELSE 3

calculateValidityScore(check, chip) ==
  IF check.value # "APPROVE" THEN 0 ELSE IF chip THEN 3 ELSE 2

\* Mutants: the face is enough; the score of the document is handed on.
VerificationIsValidity(validityScore, check) ==
  IF check.value = "APPROVE" THEN validityScore ELSE 0

VerificationOfFace(validityScore, check) == IF check.value = "APPROVE" THEN 3 ELSE 0

calculateVerificationProcessLevel(validityScore, check) ==
  IF check.value = "APPROVE" /\ validityScore # 0 THEN 3 ELSE 0

getContraIndicator(face, authenticity) ==
  (IF face.value = "REJECT" /\ face.reason \in V01Reasons THEN {"V01"} ELSE {})
    \cup
  (IF authenticity.value # "REJECT" THEN {}
   ELSE IF authenticity.reason \in D14Reasons THEN {"D14"}
   ELSE IF authenticity.reason = "EXPIRED_DOCUMENT" THEN {"D16"}
   ELSE IF authenticity.reason = "FRAUD_LIST_MATCH" THEN {"F03"}
   ELSE {})

ChecksDone(a) ==
  /\ a.authenticity.done
  /\ a.faceMatch # None /\ a.faceMatch.done
  /\ a.visualReview = "done"

\* attachEvidencePayload: a foreign driving licence needs a country of the list,
\* and that country is the one of the document fields.
Attached(a) ==
  /\ Scored(First(a).type, First(a).country)
  /\ First(a).type = "DRIVING_LICENCE" /\ First(a).country # "GBR"
       => a.media.country = "EU"

\* Mutant: contra-indicators are looked for only when the document failed.
FailedDocument(validity, verification) == validity = 0

Failed(validity, verification) == validity = 0 \/ verification = 0

\* The evidence: details are of failed checks or of passed ones, never both.
EvidenceOf(a) ==
  LET chip == doesDocumentContainValidChip(First(a).type, a.authenticity)
      validity == calculateValidityScore(a.authenticity, chip)
      verification == calculateVerificationProcessLevel(validity, a.faceMatch)
      failed == Failed(validity, verification)
  IN  [strengthScore     |-> calculateStrengthScore(First(a).type, chip),
       validityScore     |-> validity,
       verificationScore |-> verification,
       ci                |-> IF failed THEN getContraIndicator(a.faceMatch, a.authenticity)
                             ELSE {},
       failed            |-> failed,
       documentMethod    |-> IF failed \/ chip THEN "vcrypt" ELSE "vri",
       faceMethod        |-> IF "manual_face_match" \in a.faceMatch.passed
                             THEN "pvr" ELSE "bvr"]

-----------------------------------------------------------------------------
\* told: what IPV Core gets. issued: F2F_CREDENTIAL_ISSUED is written, which an
\* unknown type in the document fields prevents after the credential was sent.
Completion(a) ==
  IF Refused(a) THEN [told |-> "error", evidence |-> None, issued |-> FALSE]
  ELSE IF ~ChecksDone(a) \/ ~Attached(a)
    THEN [told |-> "nothing", evidence |-> None, issued |-> FALSE]
  ELSE [told |-> "credential", evidence |-> EvidenceOf(a),
        issued |-> a.media.type \in {"PASSPORT", "DRIVING_LICENCE", "NATIONAL_ID"}]
=============================================================================
