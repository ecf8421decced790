------------------------------ MODULE Evidence ------------------------------
(***************************************************************************)
(* Every answer Yoti can give and what comes of it: each behaviour is one  *)
(* answer and its completion.                                              *)
(***************************************************************************)
EXTENDS Scores

CONSTANT Answers  \* the answers Yoti can give

ASSUME AnswersAssumption == Answers \subseteq Answer

VARIABLES
  answer,   \* Yoti's answer
  outcome   \* what came of it

evidenceVars == <<answer, outcome>>

-----------------------------------------------------------------------------
Init == answer \in Answers /\ outcome = None

Complete ==
  /\ outcome = None
  /\ outcome' = Completion(answer)
  /\ UNCHANGED answer

Next == Complete

Spec == Init /\ [][Next]_evidenceVars

-----------------------------------------------------------------------------
Evidence ==
  [strengthScore : {3, 4}, validityScore : {0, 2, 3}, verificationScore : {0, 3},
   ci : SUBSET {"V01", "D14", "D16", "F03"}, failed : BOOLEAN,
   documentMethod : {"vcrypt", "vri"}, faceMethod : {"pvr", "bvr"}]

\* The type of both variables.
TypeOK ==
  /\ answer \in Answers
  /\ outcome \in [told : {"error", "credential", "nothing"},
                  evidence : Evidence \cup {None}, issued : BOOLEAN] \cup {None}

Delivered == outcome # None /\ outcome.evidence # None

\* A credential vouches for the person only if Yoti approved both the document and
\* the face, all mandatory checks are done, and then it carries no
\* contra-indicator.
VerifiedMeansApproved ==
  Delivered /\ outcome.evidence.verificationScore = 3 =>
    /\ answer.authenticity.value = "APPROVE" /\ answer.faceMatch.value = "APPROVE"
    /\ answer.authenticity.done /\ answer.faceMatch.done
    /\ answer.visualReview = "done"
    /\ outcome.evidence.ci = {}

\* No contra-indicator is lost: the branch that looks for them is the one of the
\* failed scores, and a rejection of either check makes one of the scores fail.
NoContraIndicatorLost ==
  Delivered =>
    outcome.evidence.ci = getContraIndicator(answer.faceMatch, answer.authenticity)

\* The scores agree: what vouches for a chip has the strength of a chip, and the
\* check details say vri exactly for documents that passed without one.
ScoresAgree ==
  Delivered =>
    LET e == outcome.evidence IN
    /\ e.validityScore = 3 => e.strengthScore = 4
    /\ e.strengthScore = 4 /\ e.validityScore # 0 => e.validityScore = 3
    /\ e.documentMethod = "vri" <=> e.validityScore = 2 /\ e.verificationScore = 3
    /\ e.failed <=> e.verificationScore = 0

\* A credential made of a full name bears the family name of the person row,
\* wherever the given names occur in it.
FamilyNameIsTheirs ==
  Delivered /\ answer.names = "full" =>
    getNamesFromPersonIdentity(answer.person, answer.fullName).family =
      Joined(answer.person.family)

FamilyNameStartsInGiven(name) ==
  \E i \in Occurrences(FullName(name), Joined(name.family)) : i <= Len(Joined(name.given))

\* And their given names, unless the family name can be read from within them on.
GivenNamesUnlessRepeated ==
  /\ Delivered /\ answer.names = "full"
  /\ ~FamilyNameStartsInGiven(answer.person)
  => getNamesFromPersonIdentity(answer.person, answer.fullName).given = answer.person.given

-----------------------------------------------------------------------------
(* What the repository says and the code does not do.                      *)

\* The table above calculateStrengthScore: "will get a strength score of 4: UK
\* Passports with valid chip". The passport the checks were made of need not be
\* the first document of the session.
UkPassportWithChipIsFour ==
  Delivered =>
    \A n \in Used(answer) :
      /\ answer.documents[n].type = "PASSPORT" /\ answer.documents[n].country = "GBR"
      /\ "chip_csca_trusted" \in answer.authenticity.passed
      => outcome.evidence.strengthScore = 4

\* getNamesFromPersonIdentity: "Remove family name from the full name and split at
\* spaces".
GivenNamesAreTheirs ==
  Delivered /\ answer.names = "full" =>
    getNamesFromPersonIdentity(answer.person, answer.fullName).given = answer.person.given
=============================================================================
