--------------------------- MODULE EvidenceProofs ---------------------------
(***************************************************************************)
(* What is proved of Evidence: its safety properties for every answer of   *)
(* Yoti, whatever the documents, checks and reasons are. The invariant is  *)
(* Completed: the outcome is still open or the completion of the answer.   *)
(***************************************************************************)
EXTENDS Evidence, WellFoundedInduction, SequenceTheorems, TLAPS

Completed ==
  /\ answer \in Answers
  /\ outcome = None \/ outcome = Completion(answer)

\* A credential comes only of checks that are there and done.
Delivering(a) ==
  /\ a \in Answer
  /\ a.authenticity # None /\ ChecksDone(a)

\* The completion of an answer stays the completion of that answer.
LEMMA CompletedInvariant == Spec => []Completed
<1>1. Init => Completed
  BY DEF Init, Completed
<1>2. Completed /\ [Next]_evidenceVars => Completed'
  BY DEF Completed, Next, Complete, evidenceVars
<1> QED
  BY <1>1, <1>2, PTL DEF Spec

\* What was delivered is the evidence of an answer whose checks are done.
LEMMA DeliveredIsEvidence ==
  ASSUME Completed, Delivered
  PROVE  Delivering(answer) /\ outcome.evidence = EvidenceOf(answer)
<1>1. answer \in Answer
  BY AnswersAssumption DEF Completed
<1>2. outcome = Completion(answer) /\ outcome.evidence # None
  BY DEF Completed, Delivered
<1>3. ~Refused(answer) /\ ChecksDone(answer)
  BY <1>2 DEF Completion
<1>4. answer.authenticity # None
  BY <1>3 DEF Refused, NoDocument
<1>5. outcome.evidence = EvidenceOf(answer)
  BY <1>2, <1>3 DEF Completion
<1> QED
  BY <1>1, <1>3, <1>4, <1>5 DEF Delivering

\* The two checks of a delivered answer are checks.
LEMMA ChecksAreChecks ==
  ASSUME NEW a, Delivering(a)
  PROVE  /\ a.authenticity \in Check /\ a.faceMatch \in Check
         /\ First(a).type \in {"PASSPORT", "NATIONAL_ID"}
              \/ doesDocumentContainValidChip(First(a).type, a.authenticity) = FALSE
         /\ doesDocumentContainValidChip(First(a).type, a.authenticity) \in BOOLEAN
<1>1. a.authenticity \in Check /\ a.faceMatch \in Check
  BY DEF Delivering, ChecksDone, Answer
<1> QED
  BY <1>1 DEF doesDocumentContainValidChip

\* The scores depend on the recommendations and on the chip, and on nothing else.
LEMMA ScoresOfTheChecks ==
  ASSUME NEW a, Delivering(a), NEW chip,
         chip = doesDocumentContainValidChip(First(a).type, a.authenticity)
  PROVE  LET e == EvidenceOf(a)
         IN  /\ e.strengthScore = (IF chip THEN 4 ELSE 3)
             /\ e.validityScore = (IF a.authenticity.value # "APPROVE" THEN 0
                                   ELSE IF chip THEN 3 ELSE 2)
             /\ e.verificationScore = (IF /\ a.faceMatch.value = "APPROVE"
                                          /\ a.authenticity.value = "APPROVE"
                                       THEN 3 ELSE 0)
             /\ e.failed <=> e.verificationScore = 0
             /\ e.documentMethod = (IF e.failed \/ chip THEN "vcrypt" ELSE "vri")
             /\ e.ci = (IF e.failed THEN getContraIndicator(a.faceMatch, a.authenticity)
                        ELSE {})
             /\ e.faceMethod \in {"pvr", "bvr"}
<1> DEFINE strength == calculateStrengthScore(First(a).type, chip)
           validity == calculateValidityScore(a.authenticity, chip)
           verification == calculateVerificationProcessLevel(validity, a.faceMatch)
           failed == Failed(validity, verification)
           ci == IF failed THEN getContraIndicator(a.faceMatch, a.authenticity) ELSE {}
           document == IF failed \/ chip THEN "vcrypt" ELSE "vri"
           face == IF "manual_face_match" \in a.faceMatch.passed THEN "pvr" ELSE "bvr"
<1>1. EvidenceOf(a) =
        [strengthScore |-> strength, validityScore |-> validity,
         verificationScore |-> verification, ci |-> ci, failed |-> failed,
         documentMethod |-> document, faceMethod |-> face]
  BY DEF EvidenceOf
<1>2. strength = (IF chip THEN 4 ELSE 3)
  BY ChecksAreChecks DEF calculateStrengthScore
<1>3. validity = (IF a.authenticity.value # "APPROVE" THEN 0 ELSE IF chip THEN 3 ELSE 2)
  BY DEF calculateValidityScore
<1>4. verification = (IF /\ a.faceMatch.value = "APPROVE"
                         /\ a.authenticity.value = "APPROVE" THEN 3 ELSE 0)
  BY <1>3 DEF calculateVerificationProcessLevel
<1>5. failed <=> verification = 0
  BY <1>3, <1>4 DEF Failed
<1>6. /\ ci = (IF failed THEN getContraIndicator(a.faceMatch, a.authenticity) ELSE {})
      /\ document = (IF failed \/ chip THEN "vcrypt" ELSE "vri")
      /\ face \in {"pvr", "bvr"}
  OBVIOUS
<1> HIDE DEF strength, validity, verification, failed, ci, document, face
<1>7. /\ EvidenceOf(a).strengthScore = strength
      /\ EvidenceOf(a).validityScore = validity
      /\ EvidenceOf(a).verificationScore = verification
      /\ EvidenceOf(a).ci = ci
      /\ EvidenceOf(a).failed <=> failed
      /\ EvidenceOf(a).documentMethod = document
      /\ EvidenceOf(a).faceMethod = face
  BY <1>1
<1> QED
  BY <1>2, <1>3, <1>4, <1>5, <1>6, <1>7

\* Contra-indicators come of rejections, and approved checks have none.
LEMMA ApprovedHasNone ==
  ASSUME NEW face, NEW authenticity, face.value = "APPROVE", authenticity.value = "APPROVE"
  PROVE  getContraIndicator(face, authenticity) = {}
  BY DEF getContraIndicator

\* What the scores of a delivered credential are, chip standing for the document's.
LEMMA DeliveredScores ==
  ASSUME Completed, Delivered
  PROVE  \E chip \in BOOLEAN :
           /\ outcome.evidence.strengthScore = (IF chip THEN 4 ELSE 3)
           /\ outcome.evidence.validityScore =
                (IF answer.authenticity.value # "APPROVE" THEN 0 ELSE IF chip THEN 3 ELSE 2)
           /\ outcome.evidence.verificationScore =
                (IF /\ answer.faceMatch.value = "APPROVE"
                    /\ answer.authenticity.value = "APPROVE" THEN 3 ELSE 0)
           /\ outcome.evidence.failed <=> outcome.evidence.verificationScore = 0
           /\ outcome.evidence.documentMethod =
                (IF outcome.evidence.failed \/ chip THEN "vcrypt" ELSE "vri")
           /\ outcome.evidence.ci =
                (IF outcome.evidence.failed
                 THEN getContraIndicator(answer.faceMatch, answer.authenticity) ELSE {})
<1>1. Delivering(answer) /\ outcome.evidence = EvidenceOf(answer)
  BY DeliveredIsEvidence
<1>2. PICK chip \in BOOLEAN :
        chip = doesDocumentContainValidChip(First(answer).type, answer.authenticity)
  BY <1>1, ChecksAreChecks
<1> WITNESS chip \in BOOLEAN
<1> QED
  BY <1>1, <1>2, ScoresOfTheChecks

\* The credential's scores, its check methods and its strength agree with each other:
\* GenerateVerifiableCredential computes them in four functions and two branches.
THEOREM ScoresAlwaysAgree == Spec => []ScoresAgree
<1>1. Completed => ScoresAgree
  <2> SUFFICES ASSUME Completed, Delivered
               PROVE  LET e == outcome.evidence IN
                      /\ e.validityScore = 3 => e.strengthScore = 4
                      /\ e.strengthScore = 4 /\ e.validityScore # 0 => e.validityScore = 3
                      /\ e.documentMethod = "vri"
                           <=> e.validityScore = 2 /\ e.verificationScore = 3
                      /\ e.failed <=> e.verificationScore = 0
    BY DEF ScoresAgree
  <2>1. PICK chip \in BOOLEAN :
          /\ outcome.evidence.strengthScore = (IF chip THEN 4 ELSE 3)
          /\ outcome.evidence.validityScore =
               (IF answer.authenticity.value # "APPROVE" THEN 0 ELSE IF chip THEN 3 ELSE 2)
          /\ outcome.evidence.verificationScore =
               (IF /\ answer.faceMatch.value = "APPROVE"
                   /\ answer.authenticity.value = "APPROVE" THEN 3 ELSE 0)
          /\ outcome.evidence.failed <=> outcome.evidence.verificationScore = 0
          /\ outcome.evidence.documentMethod =
               (IF outcome.evidence.failed \/ chip THEN "vcrypt" ELSE "vri")
    BY DeliveredScores
  <2>2. outcome.evidence.documentMethod = "vri"
          <=> outcome.evidence.validityScore = 2 /\ outcome.evidence.verificationScore = 3
    BY <2>1
  <2> QED
    BY <2>1, <2>2
<1> QED
  BY CompletedInvariant, <1>1, PTL

\* A credential that vouches for the person rests on two approvals, on checks that are
\* all done, and holds no contra-indicator (calculateVerificationProcessLevel,
\* YotiSessionCompletionProcessor's mandatory checks).
THEOREM VerifiedIsApproved == Spec => []VerifiedMeansApproved
<1>1. Completed => VerifiedMeansApproved
  <2> SUFFICES ASSUME Completed, Delivered, outcome.evidence.verificationScore = 3
               PROVE  /\ answer.authenticity.value = "APPROVE"
                      /\ answer.faceMatch.value = "APPROVE"
                      /\ answer.authenticity.done /\ answer.faceMatch.done
                      /\ answer.visualReview = "done"
                      /\ outcome.evidence.ci = {}
    BY DEF VerifiedMeansApproved
  <2>1. answer.authenticity.value = "APPROVE" /\ answer.faceMatch.value = "APPROVE"
    BY DeliveredScores
  <2>2. answer.authenticity.done /\ answer.faceMatch.done /\ answer.visualReview = "done"
    BY DeliveredIsEvidence DEF Delivering, ChecksDone
  <2>3. ~outcome.evidence.failed
    BY DeliveredScores
  <2>4. outcome.evidence.ci = {}
    BY <2>3, DeliveredScores
  <2> QED
    BY <2>1, <2>2, <2>4
<1> QED
  BY CompletedInvariant, <1>1, PTL

\* Looking for contra-indicators only among failed scores loses none: a rejected
\* check fails a score, and getContraIndicator finds nothing in approved checks.
THEOREM NoneLost == Spec => []NoContraIndicatorLost
<1>1. Completed => NoContraIndicatorLost
  <2> SUFFICES ASSUME Completed, Delivered
               PROVE  outcome.evidence.ci =
                        getContraIndicator(answer.faceMatch, answer.authenticity)
    BY DEF NoContraIndicatorLost
  <2>1. CASE outcome.evidence.failed
    BY <2>1, DeliveredScores
  <2>2. CASE ~outcome.evidence.failed
    <3>1. answer.faceMatch.value = "APPROVE" /\ answer.authenticity.value = "APPROVE"
      BY <2>2, DeliveredScores
    <3>2. getContraIndicator(answer.faceMatch, answer.authenticity) = {}
      BY <3>1, ApprovedHasNone
    <3>3. outcome.evidence.ci = {}
      BY <2>2, DeliveredScores
    <3> QED
      BY <3>2, <3>3
  <2> QED
    BY <2>1, <2>2
<1> QED
  BY CompletedInvariant, <1>1, PTL

\* Evidence of checks that are there has scores and details of the documented range.
LEMMA EvidenceIsEvidence ==
  ASSUME NEW a, a.faceMatch # None, a.authenticity # None
  PROVE  EvidenceOf(a) \in Evidence
<1> DEFINE chip == doesDocumentContainValidChip(First(a).type, a.authenticity)
           strength == calculateStrengthScore(First(a).type, chip)
           validity == calculateValidityScore(a.authenticity, chip)
           verification == calculateVerificationProcessLevel(validity, a.faceMatch)
           failed == Failed(validity, verification)
           ci == IF failed THEN getContraIndicator(a.faceMatch, a.authenticity) ELSE {}
           document == IF failed \/ chip THEN "vcrypt" ELSE "vri"
           face == IF "manual_face_match" \in a.faceMatch.passed THEN "pvr" ELSE "bvr"
<1>1. EvidenceOf(a) =
        [strengthScore |-> strength, validityScore |-> validity,
         verificationScore |-> verification, ci |-> ci, failed |-> failed,
         documentMethod |-> document, faceMethod |-> face]
  BY DEF EvidenceOf
<1>2. strength \in {3, 4}
  BY DEF calculateStrengthScore
<1>3. validity \in {0, 2, 3}
  BY DEF calculateValidityScore
<1>4. verification \in {0, 3}
  BY DEF calculateVerificationProcessLevel
<1>5. failed \in BOOLEAN
  BY DEF Failed
<1>6. ci \in SUBSET {"V01", "D14", "D16", "F03"}
  BY DEF getContraIndicator
<1>7. document \in {"vcrypt", "vri"} /\ face \in {"pvr", "bvr"}
  OBVIOUS
<1> HIDE DEF strength, validity, verification, failed, ci, document, face
<1> QED
  BY <1>1, <1>2, <1>3, <1>4, <1>5, <1>6, <1>7 DEF Evidence

\* Every outcome is an error, silence or a credential with scores of the ranges that
\* the identity checks' documentation gives.
THEOREM TypeCorrect == Spec => []TypeOK
<1> DEFINE Outcomes == [told : {"error", "credential", "nothing"},
                        evidence : Evidence \cup {None}, issued : BOOLEAN]
<1>1. Completed => TypeOK
  <2> SUFFICES ASSUME Completed, outcome # None
               PROVE  outcome \in Outcomes
    BY DEF Completed, TypeOK
  <2>1. outcome = Completion(answer)
    BY DEF Completed
  <2>2. CASE Delivered
    <3>1. EvidenceOf(answer) \in Evidence
      BY <2>2, DeliveredIsEvidence, EvidenceIsEvidence DEF Delivering, ChecksDone
    <3>2. outcome = [told |-> "credential", evidence |-> EvidenceOf(answer),
                     issued |-> answer.media.type \in
                                  {"PASSPORT", "DRIVING_LICENCE", "NATIONAL_ID"}]
      BY <2>1, <2>2 DEF Completion, Delivered
    <3> QED
      BY <3>1, <3>2
  <2>3. CASE ~Delivered
    <3>1. outcome.evidence = None
      BY <2>3 DEF Delivered
    <3>2. CASE Refused(answer) \/ ~ChecksDone(answer) \/ ~Attached(answer)
      BY <2>1, <3>2 DEF Completion
    <3>3. CASE ~(Refused(answer) \/ ~ChecksDone(answer) \/ ~Attached(answer))
      <4>1. outcome = [told |-> "credential", evidence |-> EvidenceOf(answer),
                       issued |-> answer.media.type \in
                                    {"PASSPORT", "DRIVING_LICENCE", "NATIONAL_ID"}]
        BY <2>1, <3>3 DEF Completion
      <4>2. EvidenceOf(answer) = None
        BY <3>1, <4>1
      <4> QED
        BY <4>1, <4>2
    <3> QED
      BY <3>2, <3>3
  <2> QED
    BY <2>2, <2>3
<1> QED
  BY CompletedInvariant, <1>1, PTL

(***************************************************************************)
(* The names. Joining and Reading are recursive, and what they compute is  *)
(* proved by induction on their position. The library's induction theorems *)
(* take a predicate; here a set of positions stands for it (UpToBound),    *)
(* and the well-ordering of the naturals for the theorem.                  *)
(***************************************************************************)

\* A set of naturals that is not empty has a least element.
LEMMA LeastElement ==
  ASSUME NEW T \in SUBSET Nat, T # {}
  PROVE  \E m \in T : \A k \in T : m <= k
<1>1. PICK m \in T : \A k \in T : <<k, m>> \notin OpToRel(<, Nat)
  BY WFMin, NatLessThanWellFounded, Zenon
<1>2. ASSUME NEW k \in T
      PROVE  m <= k
  <2>1. k \in Nat /\ m \in Nat
    OBVIOUS
  <2>2. <<k, m>> \in Nat \X Nat /\ <<k, m>>[1] = k /\ <<k, m>>[2] = m
    BY <2>1
  <2>3. ~(k < m)
    BY <1>1, <2>2, Zenon DEF OpToRel
  <2> QED
    BY <2>1, <2>3
<1> QED
  BY <1>2

\* Induction up to a bound, over a set instead of a predicate.
LEMMA UpToBound ==
  ASSUME NEW N \in Nat, NEW P,
         0 \in P,
         \A n \in 0..N : n # N /\ n \in P => n + 1 \in P
  PROVE  \A n \in 0..N : n \in P
<1> DEFINE T == {n \in 0..N : n \notin P}
<1>1. SUFFICES ASSUME T # {}
               PROVE  FALSE
  OBVIOUS
<1>2. PICK m \in T : \A k \in T : m <= k
  <2>1. T \in SUBSET Nat
    OBVIOUS
  <2> HIDE DEF T
  <2> QED
    BY <1>1, <2>1, LeastElement
<1>3. m # 0
  OBVIOUS
<1>4. m - 1 \in 0..N /\ m - 1 # N
  BY <1>3
<1>5. m - 1 \notin T
  BY <1>2, <1>4
<1>6. m - 1 \in P
  BY <1>4, <1>5
<1> QED
  BY <1>4, <1>6

\* Joining is defined for every sequence of words.
LEMMA JoiningDefined ==
  ASSUME NEW words, Len(words) \in Nat
  PROVE  Joining(words) =
           [n \in 0..Len(words) |->
              IF n = 0 THEN <<>>
              ELSE IF n = 1 THEN words[1]
              ELSE Joining(words)[n - 1] \o <<Space>> \o words[n]]
<1> DEFINE N == Len(words)
           Step(f, n) == IF n = 0 THEN <<>>
                          ELSE IF n = 1 THEN words[1]
                          ELSE f[n - 1] \o <<Space>> \o words[n]
           Begun == {k \in 0..N : \E f : f = [n \in 0..k |-> Step(f, n)]}
<1>1. 0 \in Begun
  <2> DEFINE f == [n \in 0..0 |-> <<>>]
  <2>1. f = [n \in 0..0 |-> Step(f, n)]
    OBVIOUS
  <2> HIDE DEF f, Step
  <2> QED
    BY <2>1
<1>2. ASSUME NEW k \in 0..N, k # N, k \in Begun
      PROVE  k + 1 \in Begun
  <2>1. PICK f : f = [n \in 0..k |-> Step(f, n)]
    BY <1>2
  <2> DEFINE g == [n \in 0..(k + 1) |-> Step(f, n)]
  <2>2. ASSUME NEW n \in 0..(k + 1)
        PROVE  Step(g, n) = Step(f, n)
    <3>1. CASE n = 0
      BY <3>1
    <3>2. CASE n # 0
      <4>1. n - 1 \in 0..k
        BY <3>2
      <4>2. f[n - 1] = Step(f, n - 1) /\ g[n - 1] = Step(f, n - 1)
        <5> HIDE DEF Step
        <5> QED
          BY <2>1, <4>1
      <4> HIDE DEF g
      <4> QED
        BY <4>2
    <3> QED
      BY <3>1, <3>2
  <2>3. g = [n \in 0..(k + 1) |-> Step(g, n)]
    <3>1. \A n \in 0..(k + 1) : Step(g, n) = Step(f, n)
      BY <2>2
    <3> HIDE DEF Step
    <3> QED
      BY <3>1
  <2> HIDE DEF g, Step
  <2>4. k + 1 \in 0..N
    BY <1>2
  <2> QED
    BY <2>3, <2>4
<1>3. N \in Begun
  <2>1. \A n \in 0..N : n # N /\ n \in Begun => n + 1 \in Begun
    BY <1>2
  <2> HIDE DEF Begun
  <2>2. \A n \in 0..N : n \in Begun
    BY <1>1, <2>1, UpToBound
  <2> QED
    BY <2>2
<1>4. \E f : f = [n \in 0..N |-> Step(f, n)]
  BY <1>3
<1> HIDE DEF Step
<1>5. Joining(words) = CHOOSE f : f = [n \in 0..N |-> Step(f, n)]
  BY Zenon DEF Joining, Step
<1>6. Joining(words) = [n \in 0..N |-> Step(Joining(words), n)]
  BY <1>4, <1>5, Zenon
<1> QED
  BY <1>6, Zenon DEF Step

Text == Seq(Letters \cup {Space})

\* A word is a text without spaces that has a letter.
LEMMA WordIsText ==
  ASSUME NEW word \in Word
  PROVE  /\ word \in Text /\ Len(word) \in Nat \ {0}
         /\ \A i \in 1..Len(word) : word[i] \in Letters /\ word[i] # Space
<1>1. word \in Seq(Letters) /\ word # <<>>
  BY DEF Word
<1>2. word \in Text
  BY <1>1, SeqMonotonic, Letters \subseteq Letters \cup {Space} DEF Text
<1>3. Len(word) \in Nat \ {0}
  BY <1>1, EmptySeq
<1>4. \A i \in 1..Len(word) : word[i] \in Letters
  BY <1>1, ElementOfSeq
<1> QED
  BY <1>2, <1>3, <1>4, SpaceAssumption

\* The texts that are words with single spaces between them: no space at either end.
Closed(text) ==
  /\ text \in Text /\ Len(text) \in Nat \ {0}
  /\ text[1] # Space /\ text[Len(text)] # Space

\* One more word joined.
LEMMA JoinOneMore ==
  ASSUME NEW text, Closed(text), NEW word \in Word
  PROVE  /\ Closed(text \o <<Space>> \o word)
         /\ Len(text \o <<Space>> \o word) = Len(text) + 1 + Len(word)
         /\ \A i \in 1..Len(text) : (text \o <<Space>> \o word)[i] = text[i]
         /\ (text \o <<Space>> \o word)[Len(text) + 1] = Space
         /\ \A i \in 1..Len(word) :
              (text \o <<Space>> \o word)[Len(text) + 1 + i] = word[i]
<1> DEFINE spaced == text \o <<Space>>
           longer == spaced \o word
<1>1. text \in Text /\ word \in Text /\ <<Space>> \in Text
  BY WordIsText DEF Closed, Text
<1>2. Len(text) \in Nat \ {0} /\ Len(word) \in Nat \ {0} /\ Len(<<Space>>) = 1
  BY WordIsText DEF Closed
<1>3. /\ spaced \in Text /\ Len(spaced) = Len(text) + 1
      /\ \A i \in 1..Len(text) : spaced[i] = text[i]
      /\ spaced[Len(text) + 1] = Space
  <2>1. /\ spaced \in Text /\ Len(spaced) = Len(text) + Len(<<Space>>)
        /\ \A i \in 1..Len(text) + Len(<<Space>>) :
             spaced[i] = IF i <= Len(text) THEN text[i] ELSE <<Space>>[i - Len(text)]
    BY <1>1, ConcatProperties DEF Text
  <2> HIDE DEF spaced
  <2> QED
    BY <1>2, <2>1
<1>4. /\ longer \in Text /\ Len(longer) = Len(spaced) + Len(word)
      /\ \A i \in 1..Len(spaced) + Len(word) :
           longer[i] = IF i <= Len(spaced) THEN spaced[i] ELSE word[i - Len(spaced)]
  <2> HIDE DEF spaced
  <2> QED
    BY <1>1, <1>3, ConcatProperties DEF Text
<1> HIDE DEF spaced, longer
<1>5. /\ Len(longer) = Len(text) + 1 + Len(word)
      /\ \A i \in 1..Len(text) : longer[i] = text[i]
      /\ longer[Len(text) + 1] = Space
      /\ \A i \in 1..Len(word) : longer[Len(text) + 1 + i] = word[i]
  BY <1>2, <1>3, <1>4
<1>6. longer[1] # Space
  BY <1>2, <1>5 DEF Closed
<1>7. longer[Len(longer)] # Space
  <2>1. longer[Len(text) + 1 + Len(word)] = word[Len(word)]
    BY <1>2, <1>5
  <2>2. word[Len(word)] # Space
    BY <1>2, WordIsText
  <2> QED
    BY <1>5, <2>1, <2>2
<1>8. Closed(longer)
  BY <1>2, <1>4, <1>5, <1>6, <1>7 DEF Closed
<1> QED
  BY <1>5, <1>8 DEF spaced, longer

\* The first words joined, from those before them.
LEMMA JoiningStep ==
  ASSUME NEW words \in Seq(Word), NEW n \in 1..Len(words)
  PROVE  Joining(words)[n] =
           IF n = 1 THEN words[1] ELSE Joining(words)[n - 1] \o <<Space>> \o words[n]
<1>1. Len(words) \in Nat
  BY LenProperties
<1>2. n \in 0..Len(words) /\ n # 0
  BY <1>1
<1>3. Joining(words) =
        [k \in 0..Len(words) |->
           IF k = 0 THEN <<>>
           ELSE IF k = 1 THEN words[1]
           ELSE Joining(words)[k - 1] \o <<Space>> \o words[k]]
  BY <1>1, JoiningDefined
<1> QED
  BY <1>2, <1>3

\* Where a word begins in the joined text, after a space unless it is the first.
BeforeWord(words, n) == IF n = 1 THEN 0 ELSE Len(Joining(words)[n - 1]) + 1

\* A joined text begins and ends with a letter.
LEMMA JoiningClosed ==
  ASSUME NEW words \in Seq(Word), NEW n \in 1..Len(words)
  PROVE  Closed(Joining(words)[n])
<1> DEFINE P == {k \in 0..Len(words) : k # 0 => Closed(Joining(words)[k])}
<1>1. Len(words) \in Nat
  BY LenProperties
<1>2. 0 \in P
  BY <1>1
<1>3. ASSUME NEW k \in 0..Len(words), k # Len(words), k \in P
      PROVE  k + 1 \in P
  <2>1. k + 1 \in 1..Len(words)
    BY <1>1, <1>3
  <2>2. words[k + 1] \in Word
    BY <2>1, ElementOfSeq
  <2>3. CASE k = 0
    <3>1. Joining(words)[k + 1] = words[k + 1]
      BY <2>1, <2>3, JoiningStep
    <3>2. Closed(words[k + 1])
      BY <2>2, WordIsText DEF Closed
    <3> QED
      BY <2>1, <3>1, <3>2
  <2>4. CASE k # 0
    <3>1. Joining(words)[k + 1] = Joining(words)[k] \o <<Space>> \o words[k + 1]
      <4>1. k + 1 # 1 /\ (k + 1) - 1 = k
        BY <1>1, <2>4
      <4> QED
        BY <2>1, <4>1, JoiningStep
    <3>2. Closed(Joining(words)[k])
      BY <1>3, <2>4
    <3>3. Closed(Joining(words)[k + 1])
      BY <2>2, <3>1, <3>2, JoinOneMore
    <3> QED
      BY <2>1, <3>3
  <2> QED
    BY <2>3, <2>4
<1>4. n \in 0..Len(words) /\ n # 0
  BY <1>1
<1>5. n \in P
  <2>1. \A k \in 0..Len(words) : k # Len(words) /\ k \in P => k + 1 \in P
    BY <1>3
  <2> HIDE DEF P
  <2> QED
    BY <1>1, <1>2, <1>4, <2>1, UpToBound
<1> QED
  BY <1>4, <1>5

\* The joined text up to a word is the text before it, a space and the word.
LEMMA JoiningReads ==
  ASSUME NEW words \in Seq(Word), NEW n \in 1..Len(words)
  PROVE  /\ BeforeWord(words, n) \in Nat
         /\ Len(Joining(words)[n]) = BeforeWord(words, n) + Len(words[n])
         /\ \A i \in 1..Len(words[n]) :
              Joining(words)[n][BeforeWord(words, n) + i] = words[n][i]
         /\ n # 1 => /\ Joining(words)[n][BeforeWord(words, n)] = Space
                     /\ \A i \in 1..Len(Joining(words)[n - 1]) :
                          Joining(words)[n][i] = Joining(words)[n - 1][i]
<1>1. Len(words) \in Nat /\ words[n] \in Word
  BY LenProperties, ElementOfSeq
<1>2. CASE n = 1
  <2>1. Joining(words)[n] = words[n]
    BY <1>2, JoiningStep
  <2> QED
    BY <1>1, <1>2, <2>1, WordIsText DEF BeforeWord
<1>3. CASE n # 1
  <2> DEFINE before == Joining(words)[n - 1]
  <2>1. n - 1 \in 1..Len(words)
    BY <1>1, <1>3
  <2>2. Closed(before)
    BY <2>1, JoiningClosed
  <2>3. Joining(words)[n] = before \o <<Space>> \o words[n]
    BY <1>3, JoiningStep
  <2>4. Len(before) \in Nat
    BY <2>2 DEF Closed
  <2>5. BeforeWord(words, n) = Len(before) + 1
    BY <1>3 DEF BeforeWord
  <2> HIDE DEF before
  <2>6. /\ Len(Joining(words)[n]) = Len(before) + 1 + Len(words[n])
        /\ \A i \in 1..Len(before) : Joining(words)[n][i] = before[i]
        /\ Joining(words)[n][Len(before) + 1] = Space
        /\ \A i \in 1..Len(words[n]) :
             Joining(words)[n][Len(before) + 1 + i] = words[n][i]
    <3> DEFINE word == words[n]
    <3>1. word \in Word /\ Joining(words)[n] = before \o <<Space>> \o word
      BY <1>1, <2>3
    <3> HIDE DEF word
    <3>2. /\ Len(before \o <<Space>> \o word) = Len(before) + 1 + Len(word)
          /\ \A i \in 1..Len(before) : (before \o <<Space>> \o word)[i] = before[i]
          /\ (before \o <<Space>> \o word)[Len(before) + 1] = Space
          /\ \A i \in 1..Len(word) :
               (before \o <<Space>> \o word)[Len(before) + 1 + i] = word[i]
      BY <2>2, <3>1, JoinOneMore
    <3>3. /\ Len(Joining(words)[n]) = Len(before) + 1 + Len(word)
          /\ \A i \in 1..Len(before) : Joining(words)[n][i] = before[i]
          /\ Joining(words)[n][Len(before) + 1] = Space
          /\ \A i \in 1..Len(word) : Joining(words)[n][Len(before) + 1 + i] = word[i]
      BY <3>1, <3>2, Zenon
    <3> QED
      BY <3>3 DEF word
  <2> QED
    BY <1>3, <2>4, <2>5, <2>6 DEF before
<1> QED
  BY <1>2, <1>3

\* What is joined stays where it is when more words are.
LEMMA JoiningExtends ==
  ASSUME NEW words \in Seq(Word), NEW n \in 1..Len(words)
  PROVE  /\ Len(Joining(words)[n]) \in Nat
         /\ Len(Joining(words)[n]) <= Len(Joined(words))
         /\ \A i \in 1..Len(Joining(words)[n]) : Joined(words)[i] = Joining(words)[n][i]
<1> DEFINE Extends(m) ==
             /\ Len(Joining(words)[n]) <= Len(Joining(words)[m])
             /\ \A i \in 1..Len(Joining(words)[n]) :
                  Joining(words)[m][i] = Joining(words)[n][i]
           P == {m \in 0..Len(words) : n <= m => Extends(m)}
<1>1. Len(words) \in Nat /\ Len(Joining(words)[n]) \in Nat
  BY LenProperties, JoiningClosed DEF Closed
<1>2. 0 \in P
  BY <1>1
<1>3. ASSUME NEW k \in 0..Len(words), k # Len(words), k \in P
      PROVE  k + 1 \in P
  <2>1. k + 1 \in 1..Len(words)
    BY <1>1, <1>3
  <2>2. CASE n = k + 1
    <3>1. Extends(k + 1)
      BY <1>1, <2>2
    <3> QED
      BY <2>1, <3>1
  <2>3. CASE n <= k
    <3>1. Extends(k) /\ k \in 1..Len(words)
      BY <1>1, <1>3, <2>3
    <3>2. Len(Joining(words)[k]) \in Nat
      BY <3>1, JoiningClosed DEF Closed
    <3>3. words[k + 1] \in Word
      BY <2>1, ElementOfSeq
    <3>4. Len(words[k + 1]) \in Nat
      BY <3>3, WordIsText
    <3>5. k + 1 # 1 /\ (k + 1) - 1 = k
      BY <3>1
    <3>6. /\ Len(Joining(words)[k + 1]) = Len(Joining(words)[k]) + 1 + Len(words[k + 1])
          /\ \A i \in 1..Len(Joining(words)[k]) :
               Joining(words)[k + 1][i] = Joining(words)[k][i]
      <4>1. BeforeWord(words, k + 1) = Len(Joining(words)[k]) + 1
        BY <3>5 DEF BeforeWord
      <4>2. /\ Len(Joining(words)[k + 1]) = BeforeWord(words, k + 1) + Len(words[k + 1])
            /\ \A i \in 1..Len(Joining(words)[(k + 1) - 1]) :
                 Joining(words)[k + 1][i] = Joining(words)[(k + 1) - 1][i]
        BY <2>1, <3>5, JoiningReads
      <4> QED
        BY <3>5, <4>1, <4>2
    <3>7. Extends(k + 1)
      <4>1. Len(Joining(words)[n]) <= Len(Joining(words)[k + 1])
        <5>1. Len(Joining(words)[n]) <= Len(Joining(words)[k])
          BY <3>1
        <5>2. Len(Joining(words)[k + 1]) = Len(Joining(words)[k]) + 1 + Len(words[k + 1])
          BY <3>6
        <5> DEFINE a == Len(Joining(words)[n])
                   b == Len(Joining(words)[k])
                   c == Len(words[k + 1])
                   d == Len(Joining(words)[k + 1])
        <5>3. a \in Nat /\ b \in Nat /\ c \in Nat /\ a <= b /\ d = b + 1 + c
          BY <1>1, <3>2, <3>4, <5>1, <5>2
        <5> HIDE DEF a, b, c, d
        <5>4. a <= d
          BY <5>3
        <5> QED
          BY <5>4 DEF a, d
      <4>2. ASSUME NEW i \in 1..Len(Joining(words)[n])
            PROVE  Joining(words)[k + 1][i] = Joining(words)[n][i]
        <5>1. i \in 1..Len(Joining(words)[k])
          BY <1>1, <3>1, <3>2
        <5>2. Joining(words)[k + 1][i] = Joining(words)[k][i]
          BY <3>6, <5>1
        <5>3. Joining(words)[k][i] = Joining(words)[n][i]
          BY <3>1
        <5> QED
          BY <5>2, <5>3
      <4> QED
        BY <4>1, <4>2
    <3> QED
      BY <2>1, <3>7
  <2>4. CASE ~(n <= k + 1)
    BY <2>1, <2>4
  <2> QED
    BY <1>1, <2>2, <2>3, <2>4
<1>4. Len(words) \in P
  <2>1. \A k \in 0..Len(words) : k # Len(words) /\ k \in P => k + 1 \in P
    BY <1>3
  <2> HIDE DEF P
  <2>2. \A k \in 0..Len(words) : k \in P
    BY <1>1, <1>2, <2>1, UpToBound
  <2> QED
    BY <1>1, <2>2
<1>5. Extends(Len(words))
  BY <1>1, <1>4
<1> QED
  BY <1>1, <1>5 DEF Joined

\* Joined names are closed texts.
LEMMA JoinedClosed ==
  ASSUME NEW words \in Seq(Word) \ {<<>>}
  PROVE  Closed(Joined(words)) /\ Len(words) \in 1..Len(words)
<1>1. Len(words) \in Nat \ {0}
  BY EmptySeq
<1>2. Len(words) \in 1..Len(words)
  BY <1>1
<1> QED
  BY <1>2, JoiningClosed DEF Joined

\* Min and Max choose the bounds of a set.
LEMMA Bounds ==
  ASSUME NEW T \in SUBSET Nat, NEW m \in T
  PROVE  /\ (\A k \in T : m <= k) => Min(T) = m
         /\ (\A k \in T : k <= m) => Max(T) = m
<1>1. ASSUME \A k \in T : m <= k
      PROVE  Min(T) = m
  <2>1. ASSUME NEW n \in T, \A k \in T : n <= k
        PROVE  n = m
    <3>1. n <= m /\ m <= n /\ n \in Nat /\ m \in Nat
      BY <1>1, <2>1
    <3> QED
      BY <3>1
  <2>2. \E n \in T : \A k \in T : n <= k
    BY <1>1
  <2> QED
    BY <2>1, <2>2 DEF Min
<1>2. ASSUME \A k \in T : k <= m
      PROVE  Max(T) = m
  <2>1. ASSUME NEW n \in T, \A k \in T : n >= k
        PROVE  n = m
    <3>1. n <= m /\ n >= m /\ n \in Nat /\ m \in Nat
      BY <1>2, <2>1
    <3> QED
      BY <3>1
  <2>2. \E n \in T : \A k \in T : n >= k
    <3>1. \A k \in T : k \in Nat /\ m \in Nat
      OBVIOUS
    <3>2. \A k \in T : m >= k
      BY <1>2, <3>1
    <3> QED
      BY <3>2
  <2> QED
    BY <2>1, <2>2 DEF Max
<1> QED
  BY <1>1, <1>2

\* What stands in a text from some place on.
LEMMA StandsAt ==
  ASSUME NEW text \in Text, NEW part \in Text, NEW m \in Nat,
         m + Len(part) <= Len(text),
         \A k \in 1..Len(part) : text[m + k] = part[k]
  PROVE  SubSeq(text, m + 1, m + Len(part)) = part
<1> DEFINE found == SubSeq(text, m + 1, m + Len(part))
<1>1. Len(text) \in Nat /\ Len(part) \in Nat
  BY LenProperties DEF Text
<1>2. m + 1 \in Int /\ m + Len(part) \in Int
  BY <1>1
<1>3. \A k \in (m + 1)..(m + Len(part)) : text[k] \in Letters \cup {Space}
  BY <1>1, ElementOfSeq DEF Text
<1>4. /\ found \in Text
      /\ Len(found) = IF m + 1 <= m + Len(part) THEN m + Len(part) - (m + 1) + 1 ELSE 0
      /\ \A k \in 1..(m + Len(part) - (m + 1) + 1) : found[k] = text[m + 1 + k - 1]
  BY <1>2, <1>3, SubSeqProperties DEF Text
<1>5. m + Len(part) - (m + 1) + 1 = Len(part)
  BY <1>1
<1>6. Len(found) = Len(part)
  <2> HIDE DEF found
  <2> QED
    BY <1>1, <1>4
<1>7. \A k \in 1..Len(part) : m + 1 + k - 1 = m + k
  BY <1>1
<1>8. \A k \in 1..Len(part) : found[k] = part[k]
  <2> HIDE DEF found
  <2> QED
    BY <1>4, <1>5, <1>7
<1> HIDE DEF found
<1>9. found = part
  BY <1>4, <1>6, <1>8, SeqEqual DEF Text
<1> QED
  BY <1>9 DEF found

\* Removing the first occurrence of a part.
LEMMA WithoutFirst ==
  ASSUME NEW before \in Text, NEW part \in Text, NEW after \in Text,
         \A i \in Occurrences(before \o part \o after, part) : i > Len(before)
  PROVE  Without(before \o part \o after, part) = before \o after
<1> DEFINE start == before \o part
           whole == start \o after
           i == Len(before) + 1
           found == Occurrences(whole, part)
<1>1. /\ Len(before) \in Nat /\ Len(part) \in Nat /\ Len(after) \in Nat
      /\ start \in Text /\ Len(start) = Len(before) + Len(part)
  BY LenProperties, ConcatProperties DEF Text
<1>2. whole \in Text /\ Len(whole) = Len(before) + Len(part) + Len(after)
  <2> HIDE DEF start
  <2> QED
    BY <1>1, LenProperties, ConcatProperties DEF Text
<1>3. /\ \A k \in 1..Len(before) : whole[k] = before[k]
      /\ \A k \in 1..Len(part) : whole[Len(before) + k] = part[k]
      /\ \A k \in 1..Len(after) : whole[Len(before) + Len(part) + k] = after[k]
  <2>1. \A k \in 1..Len(before) + Len(part) :
          start[k] = IF k <= Len(before) THEN before[k] ELSE part[k - Len(before)]
    BY ConcatProperties DEF Text
  <2>2. \A k \in 1..Len(start) + Len(after) :
          whole[k] = IF k <= Len(start) THEN start[k] ELSE after[k - Len(start)]
    <3> HIDE DEF start
    <3> QED
      BY <1>1, ConcatProperties DEF Text
  <2> HIDE DEF start, whole
  <2> QED
    BY <1>1, <2>1, <2>2
<1>4. SubSeq(whole, 1, Len(before)) = before
  <2> HIDE DEF whole
  <2>1. 0 + Len(before) <= Len(whole) /\ 0 + Len(before) = Len(before)
    BY <1>1, <1>2
  <2>2. \A k \in 1..Len(before) : whole[0 + k] = before[k]
    BY <1>1, <1>3
  <2>3. SubSeq(whole, 0 + 1, 0 + Len(before)) = before
    BY <1>2, <2>1, <2>2, StandsAt
  <2> QED
    BY <2>1, <2>3
<1>5. SubSeq(whole, i, i + Len(part) - 1) = part
  <2> HIDE DEF whole
  <2>1. Len(before) + Len(part) <= Len(whole) /\ Len(before) + Len(part) = i + Len(part) - 1
    BY <1>1, <1>2
  <2>2. SubSeq(whole, Len(before) + 1, Len(before) + Len(part)) = part
    BY <1>1, <1>2, <1>3, <2>1, StandsAt
  <2> QED
    BY <2>1, <2>2
<1>6. SubSeq(whole, i + Len(part), Len(whole)) = after
  <2> DEFINE m == Len(before) + Len(part)
  <2>1. m \in Nat /\ m + Len(after) = Len(whole) /\ m + 1 = i + Len(part)
    BY <1>1, <1>2
  <2>2. \A k \in 1..Len(after) : whole[m + k] = after[k]
    BY <1>3
  <2> HIDE DEF m, whole, i
  <2>3. m + Len(after) <= Len(whole)
    BY <1>1, <2>1
  <2>4. SubSeq(whole, m + 1, m + Len(after)) = after
    BY <1>2, <2>1, <2>2, <2>3, StandsAt
  <2> QED
    BY <2>1, <2>4
<1>7. i \in found
  <2> HIDE DEF whole
  <2> QED
    BY <1>1, <1>2, <1>5 DEF Occurrences
<1>8. Min(found) = i
  <2>1. found \in SUBSET Nat
    <3> HIDE DEF whole
    <3> QED
      BY <1>1, <1>2 DEF Occurrences
  <2>2. \A k \in found : i <= k
    <3>1. \A k \in found : k > Len(before) /\ k \in Nat
      BY <2>1
    <3> HIDE DEF found
    <3> QED
      BY <1>1, <3>1
  <2> HIDE DEF found, i
  <2> QED
    BY <1>7, <2>1, <2>2, Bounds
<1>9. Without(whole, part) = SubSeq(whole, 1, i - 1) \o SubSeq(whole, i + Len(part), Len(whole))
  <2> HIDE DEF whole, i
  <2> QED
    BY <1>7, <1>8 DEF Without
<1>10. i - 1 = Len(before)
  BY <1>1
<1> QED
  BY <1>4, <1>6, <1>9, <1>10

\* trim() takes the space before a closed text away, and nothing else.
LEMMA TrimmedIsRest ==
  ASSUME NEW text, Closed(text)
  PROVE  Trimmed(<<Space>> \o text) = text
<1> DEFINE spaced == <<Space>> \o text
           letters == {i \in 1..Len(spaced) : spaced[i] # Space}
<1>1. /\ text \in Text /\ <<Space>> \in Text /\ Len(<<Space>>) = 1
      /\ Len(text) \in Nat \ {0} /\ text[1] # Space /\ text[Len(text)] # Space
  BY DEF Closed, Text
<1>2. /\ spaced \in Text /\ Len(spaced) = 1 + Len(text)
      /\ \A k \in 1..(1 + Len(text)) : spaced[k] = IF k <= 1 THEN Space ELSE text[k - 1]
  <2>1. /\ spaced \in Text /\ Len(spaced) = Len(<<Space>>) + Len(text)
        /\ \A k \in 1..Len(<<Space>>) + Len(text) :
             spaced[k] = IF k <= Len(<<Space>>) THEN <<Space>>[k] ELSE text[k - Len(<<Space>>)]
    BY <1>1, ConcatProperties DEF Text
  <2> HIDE DEF spaced
  <2> QED
    BY <1>1, <2>1
<1>3. /\ spaced[1] = Space /\ spaced[2] # Space /\ spaced[Len(spaced)] # Space
      /\ \A k \in 1..Len(text) : spaced[1 + k] = text[k]
  <2> HIDE DEF spaced
  <2>1. 2 - 1 = 1 /\ (1 + Len(text)) - 1 = Len(text)
    BY <1>1
  <2>2. spaced[1] = Space /\ spaced[2] = text[2 - 1]
    BY <1>1, <1>2
  <2>3. spaced[1 + Len(text)] = text[(1 + Len(text)) - 1]
    BY <1>1, <1>2
  <2>4. \A k \in 1..Len(text) : spaced[1 + k] = text[k]
    BY <1>1, <1>2
  <2> QED
    BY <1>1, <1>2, <2>1, <2>2, <2>3, <2>4
<1>4. Min(letters) = 2 /\ Max(letters) = Len(spaced) /\ letters # {}
  <2> HIDE DEF spaced
  <2>1. letters \in SUBSET Nat /\ 2 \in letters /\ Len(spaced) \in letters
    BY <1>1, <1>2, <1>3
  <2>2. \A k \in letters : 2 <= k /\ k <= Len(spaced)
    BY <1>1, <1>2, <1>3
  <2> HIDE DEF letters
  <2> QED
    BY <2>1, <2>2, Bounds
<1>5. Trimmed(spaced) = SubSeq(spaced, 2, Len(spaced))
  <2> HIDE DEF spaced
  <2> QED
    BY <1>4 DEF Trimmed
<1>6. SubSeq(spaced, 1 + 1, 1 + Len(text)) = text
  <2> HIDE DEF spaced
  <2>1. 1 + Len(text) <= Len(spaced)
    BY <1>1, <1>2
  <2> QED
    BY <1>1, <1>2, <1>3, <2>1, StandsAt
<1>7. 1 + 1 = 2
  OBVIOUS
<1> QED
  BY <1>2, <1>5, <1>6, <1>7

\* The given names begin the full name, so that is where they are removed.
LEMMA FamilyIsRest ==
  ASSUME NEW person \in PersonName
  PROVE  Trimmed(Without(FullName(person), Joined(person.given))) = Joined(person.family)
<1> DEFINE given == Joined(person.given)
           rest == <<Space>> \o Joined(person.family)
<1>1. Closed(given) /\ Closed(Joined(person.family))
  BY JoinedClosed DEF PersonName
<1>2. /\ given \in Text /\ <<>> \in Text /\ <<Space>> \in Text
      /\ Joined(person.family) \in Text /\ rest \in Text
  BY <1>1, ConcatProperties DEF Closed, Text
<1>3. FullName(person) = (<<>> \o given) \o rest
  <2>1. FullName(person) = (given \o <<Space>>) \o Joined(person.family)
    BY DEF FullName
  <2>2. FullName(person) = given \o rest
    BY <1>2, <2>1, ConcatAssociative DEF Text
  <2>3. <<>> \o given = given
    BY <1>2, ConcatEmptySeq DEF Text
  <2> QED
    BY <2>2, <2>3
<1> HIDE DEF given, rest
<1>4. \A i \in Occurrences(<<>> \o given \o rest, given) : i > Len(<<>>)
  <2>1. Len(<<>>) = 0
    OBVIOUS
  <2>2. \A i \in Occurrences(<<>> \o given \o rest, given) : i \in Int /\ i >= 1
    <3> DEFINE whole == <<>> \o given \o rest
    <3>1. whole \in Text /\ Len(whole) \in Nat /\ Len(given) \in Nat
      BY <1>2, ConcatProperties, LenProperties DEF Text
    <3> HIDE DEF whole
    <3>2. \A i \in Occurrences(whole, given) : i \in Int /\ i >= 1
      BY <3>1 DEF Occurrences
    <3> QED
      BY <3>2 DEF whole
  <2> QED
    BY <2>1, <2>2
<1>5. Without(FullName(person), given) = <<>> \o rest
  <2> DEFINE before == <<>>
  <2>1. /\ before \in Text /\ FullName(person) = before \o given \o rest
        /\ \A i \in Occurrences(before \o given \o rest, given) : i > Len(before)
    BY <1>2, <1>3, <1>4
  <2> HIDE DEF before
  <2>2. Without(FullName(person), given) = before \o rest
    BY <1>2, <2>1, WithoutFirst
  <2> QED
    BY <2>2 DEF before
<1>6. <<>> \o rest = rest
  BY <1>2, ConcatEmptySeq DEF Text
<1>7. Trimmed(Without(FullName(person), given)) = Joined(person.family)
  BY <1>1, <1>5, <1>6, TrimmedIsRest DEF rest
<1> QED
  BY <1>7 DEF given

\* Reading is defined for every text.
LEMMA ReadingDefined ==
  ASSUME NEW text, Len(text) \in Nat
  PROVE  Reading(text) =
           [n \in 0..Len(text) |->
              IF n = 0 THEN <<>>
              ELSE IF text[n] = Space THEN Reading(text)[n - 1]
              ELSE IF n = 1 \/ text[n - 1] = Space
                   THEN Append(Reading(text)[n - 1], <<text[n]>>)
              ELSE Append(Front(Reading(text)[n - 1]),
                          Append(Last(Reading(text)[n - 1]), text[n]))]
<1> DEFINE N == Len(text)
           Step(f, n) == IF n = 0 THEN <<>>
                         ELSE IF text[n] = Space THEN f[n - 1]
                         ELSE IF n = 1 \/ text[n - 1] = Space
                              THEN Append(f[n - 1], <<text[n]>>)
                         ELSE Append(Front(f[n - 1]), Append(Last(f[n - 1]), text[n]))
           Begun == {k \in 0..N : \E f : f = [n \in 0..k |-> Step(f, n)]}
<1>1. 0 \in Begun
  <2> DEFINE f == [n \in 0..0 |-> <<>>]
  <2>1. f = [n \in 0..0 |-> Step(f, n)]
    OBVIOUS
  <2> HIDE DEF f, Step
  <2> QED
    BY <2>1
<1>2. ASSUME NEW k \in 0..N, k # N, k \in Begun
      PROVE  k + 1 \in Begun
  <2>1. PICK f : f = [n \in 0..k |-> Step(f, n)]
    BY <1>2
  <2> DEFINE g == [n \in 0..(k + 1) |-> Step(f, n)]
  <2>2. ASSUME NEW n \in 0..(k + 1)
        PROVE  Step(g, n) = Step(f, n)
    <3>1. CASE n = 0
      BY <3>1
    <3>2. CASE n # 0
      <4>1. n - 1 \in 0..k
        BY <3>2
      <4>2. f[n - 1] = Step(f, n - 1) /\ g[n - 1] = Step(f, n - 1)
        <5> HIDE DEF Step
        <5> QED
          BY <2>1, <4>1
      <4> HIDE DEF g
      <4>3. f[n - 1] = g[n - 1]
        BY <4>2
      <4> QED
        BY <4>3
    <3> QED
      BY <3>1, <3>2
  <2>3. g = [n \in 0..(k + 1) |-> Step(g, n)]
    <3>1. \A n \in 0..(k + 1) : Step(g, n) = Step(f, n)
      BY <2>2
    <3> HIDE DEF Step
    <3> QED
      BY <3>1
  <2> HIDE DEF g, Step
  <2>4. k + 1 \in 0..N
    BY <1>2
  <2> QED
    BY <2>3, <2>4
<1>3. N \in Begun
  <2>1. \A n \in 0..N : n # N /\ n \in Begun => n + 1 \in Begun
    BY <1>2
  <2> HIDE DEF Begun
  <2>2. \A n \in 0..N : n \in Begun
    BY <1>1, <2>1, UpToBound
  <2> QED
    BY <2>2
<1>4. \E f : f = [n \in 0..N |-> Step(f, n)]
  BY <1>3
<1> HIDE DEF Step
<1>5. Reading(text) = CHOOSE f : f = [n \in 0..N |-> Step(f, n)]
  BY Zenon DEF Reading, Step
<1>6. Reading(text) = [n \in 0..N |-> Step(Reading(text), n)]
  BY <1>4, <1>5, Zenon
<1> QED
  BY <1>6, Zenon DEF Step

\* The three ways of reading one more letter.
LEMMA ReadingSteps ==
  ASSUME NEW text \in Text
  PROVE  /\ Reading(text)[0] = <<>>
         /\ \A n \in 1..Len(text) :
              /\ text[n] = Space => Reading(text)[n] = Reading(text)[n - 1]
              /\ text[n] # Space /\ (n = 1 \/ text[n - 1] = Space)
                 => Reading(text)[n] = Append(Reading(text)[n - 1], <<text[n]>>)
              /\ text[n] # Space /\ n # 1 /\ text[n - 1] # Space
                 => Reading(text)[n] = Append(Front(Reading(text)[n - 1]),
                                              Append(Last(Reading(text)[n - 1]), text[n]))
<1>1. Len(text) \in Nat
  BY LenProperties DEF Text
<1> DEFINE Step(f, n) == IF n = 0 THEN <<>>
                         ELSE IF text[n] = Space THEN f[n - 1]
                         ELSE IF n = 1 \/ text[n - 1] = Space
                              THEN Append(f[n - 1], <<text[n]>>)
                         ELSE Append(Front(f[n - 1]), Append(Last(f[n - 1]), text[n]))
<1>2. Reading(text) = [n \in 0..Len(text) |-> Step(Reading(text), n)]
  BY <1>1, ReadingDefined
<1>3. \A n \in 0..Len(text) : Reading(text)[n] = Step(Reading(text), n)
  <2> HIDE DEF Step
  <2> QED
    BY <1>2, Zenon
<1>4. 0 \in 0..Len(text)
  BY <1>1
<1>5. Reading(text)[0] = <<>>
  BY <1>3, <1>4
<1>6. ASSUME NEW n \in 1..Len(text)
      PROVE  Reading(text)[n] = Step(Reading(text), n) /\ n # 0
  <2>1. n \in 0..Len(text) /\ n # 0
    BY <1>1
  <2> HIDE DEF Step
  <2> QED
    BY <1>3, <2>1
<1> QED
  BY <1>5, <1>6

\* The last element of a longer sequence and what is before it.
LEMMA FrontAndLast ==
  ASSUME NEW S, NEW seq \in Seq(S), NEW e \in S
  PROVE  Front(Append(seq, e)) = seq /\ Last(Append(seq, e)) = e
<1> DEFINE longer == Append(seq, e)
<1>1. /\ longer \in Seq(S) /\ Len(longer) = Len(seq) + 1 /\ Len(seq) \in Nat
      /\ \A i \in 1..Len(seq) : longer[i] = seq[i]
      /\ longer[Len(seq) + 1] = e
  BY AppendProperties, LenProperties
<1> HIDE DEF longer
<1>2. Last(longer) = e
  BY <1>1 DEF Last
<1>3. Front(longer) = SubSeq(longer, 1, Len(seq))
  <2>1. (Len(seq) + 1) - 1 = Len(seq)
    BY <1>1
  <2> QED
    BY <1>1, <2>1 DEF Front
<1>4. SubSeq(longer, 1, Len(seq)) = seq
  <2> DEFINE front == SubSeq(longer, 1, Len(seq))
  <2>1. \A i \in 1..Len(seq) : longer[i] \in S
    BY <1>1, ElementOfSeq
  <2>2. /\ front \in Seq(S) /\ Len(front) = IF 1 <= Len(seq) THEN Len(seq) - 1 + 1 ELSE 0
        /\ \A i \in 1..(Len(seq) - 1 + 1) : front[i] = longer[1 + i - 1]
    BY <1>1, <2>1, SubSeqProperties
  <2> HIDE DEF front
  <2>3. Len(front) = Len(seq) /\ \A i \in 1..Len(seq) : front[i] = seq[i]
    <3>1. \A i \in 1..Len(seq) : 1 + i - 1 = i
      OBVIOUS
    <3>2. Len(seq) - 1 + 1 = Len(seq)
      BY <1>1
    <3> QED
      BY <1>1, <2>2, <3>1, <3>2
  <2>4. front = seq
    BY <2>2, <2>3, SeqEqual
  <2> QED
    BY <2>4 DEF front
<1> QED
  BY <1>2, <1>3, <1>4 DEF longer

\* The first n elements, one by one.
LEMMA OneMore ==
  ASSUME NEW S, NEW seq \in Seq(S), NEW n \in 1..Len(seq)
  PROVE  SubSeq(seq, 1, n) = Append(SubSeq(seq, 1, n - 1), seq[n]) /\ seq[n] \in S
                              /\ SubSeq(seq, 1, n - 1) \in Seq(S)
<1>1. Len(seq) \in Nat /\ seq[n] \in S
  BY LenProperties, ElementOfSeq
<1>2. 1 \in 1..Len(seq) /\ n \in 1..Len(seq)
  BY <1>1
<1>3. SubSeq(seq, 1, n) = SubSeq(seq, 1, n - 1) \o <<seq[n]>>
  BY <1>2, SubSeqRecursiveSecond
<1>4. SubSeq(seq, 1, n - 1) \in Seq(S)
  <2>1. \A i \in 1..(n - 1) : i \in 1..Len(seq)
    BY <1>1
  <2>2. \A i \in 1..(n - 1) : seq[i] \in S
    BY <2>1, ElementOfSeq
  <2>3. 1 \in Int /\ n - 1 \in Int
    BY <1>1
  <2> QED
    BY <2>2, <2>3, SubSeqProperties
<1>5. Append(SubSeq(seq, 1, n - 1), seq[n]) = SubSeq(seq, 1, n - 1) \o <<seq[n]>>
  BY <1>1, <1>4, AppendIsConcat
<1> QED
  BY <1>1, <1>3, <1>4, <1>5

\* A word that follows a space, or begins the text, is read as one word.
LEMMA WordIsRead ==
  ASSUME NEW text \in Text, NEW word \in Word, NEW b \in Nat, NEW earlier \in Seq(Word),
         b + Len(word) <= Len(text),
         \A i \in 1..Len(word) : text[b + i] = word[i],
         b = 0 \/ text[b] = Space,
         Reading(text)[b] = earlier
  PROVE  Reading(text)[b + Len(word)] = Append(earlier, word)
<1> DEFINE Read(i) == Append(earlier, SubSeq(word, 1, i))
           P == {i \in 0..Len(word) : i # 0 => Reading(text)[b + i] = Read(i)}
<1>1. /\ Len(text) \in Nat /\ Len(word) \in Nat \ {0} /\ word \in Seq(Letters)
      /\ \A i \in 1..Len(word) : word[i] \in Letters /\ word[i] # Space
  BY WordIsText, LenProperties DEF Text, Word
<1>2. 0 \in P
  BY <1>1
<1>3. ASSUME NEW k \in 0..Len(word), k # Len(word), k \in P
      PROVE  k + 1 \in P
  <2>1. k + 1 \in 1..Len(word) /\ k + 1 \in 0..Len(word) /\ k \in Nat
    BY <1>1, <1>3
  <2>2. b + (k + 1) \in 1..Len(text)
    BY <1>1, <2>1
  <2>3. text[b + (k + 1)] = word[k + 1] /\ text[b + (k + 1)] # Space
    BY <1>1, <2>1
  <2>4. /\ (k + 1) - 1 = k /\ (b + (k + 1)) - 1 = b + k
        /\ k = 0 => b + k = b
        /\ b + (k + 1) = 1 => b = 0 /\ k = 0
    BY <2>1
  <2>5. /\ SubSeq(word, 1, k + 1) = Append(SubSeq(word, 1, k), word[k + 1])
        /\ SubSeq(word, 1, k) \in Seq(Letters) /\ word[k + 1] \in Letters
    BY <1>1, <2>1, <2>4, OneMore
  <2>6. Reading(text)[b + (k + 1)] = Read(k + 1)
    <3>1. CASE k = 0
      <4>1. Reading(text)[b + (k + 1)] = Append(earlier, <<word[k + 1]>>)
        <5> DEFINE n == b + (k + 1)
        <5>1. n = 1 \/ text[n - 1] = Space
          BY <2>4, <3>1
        <5>2. n \in 1..Len(text) /\ text[n] # Space /\ text[n] = word[k + 1]
          BY <2>2, <2>3
        <5>3. Reading(text)[n - 1] = earlier
          BY <2>4, <3>1
        <5> HIDE DEF n
        <5>4. Reading(text)[n] = Append(Reading(text)[n - 1], <<text[n]>>)
          BY <5>1, <5>2, ReadingSteps
        <5>5. Reading(text)[n] = Append(earlier, <<word[k + 1]>>)
          BY <5>2, <5>3, <5>4
        <5> QED
          BY <5>5 DEF n
      <4>2. SubSeq(word, 1, k) = <<>>
        BY <3>1, SubSeqEmpty
      <4>3. Append(<<>>, word[k + 1]) = <<word[k + 1]>>
        OBVIOUS
      <4> QED
        BY <2>5, <4>1, <4>2, <4>3
    <3>2. CASE k # 0
      <4>1. Reading(text)[b + k] = Append(earlier, SubSeq(word, 1, k))
        BY <1>3, <3>2
      <4>2. text[b + k] # Space
        <5>1. k \in 1..Len(word)
          BY <1>1, <1>3, <3>2
        <5> QED
          BY <1>1, <5>1
      <4>3. Reading(text)[b + (k + 1)] = Append(Front(Reading(text)[b + k]),
                                                Append(Last(Reading(text)[b + k]), word[k + 1]))
        <5> DEFINE n == b + (k + 1)
        <5>1. n # 1 /\ n - 1 = b + k
          BY <2>1, <2>4, <3>2
        <5>2. n \in 1..Len(text) /\ text[n] # Space /\ text[n] = word[k + 1]
          BY <2>2, <2>3
        <5> HIDE DEF n
        <5>3. text[n - 1] # Space
          BY <4>2, <5>1
        <5>4. Reading(text)[n] = Append(Front(Reading(text)[n - 1]),
                                        Append(Last(Reading(text)[n - 1]), text[n]))
          BY <5>1, <5>2, <5>3, ReadingSteps
        <5>5. Reading(text)[n] = Append(Front(Reading(text)[b + k]),
                                        Append(Last(Reading(text)[b + k]), word[k + 1]))
          BY <5>1, <5>2, <5>4
        <5> QED
          BY <5>5 DEF n
      <4>4. /\ Front(Reading(text)[b + k]) = earlier
            /\ Last(Reading(text)[b + k]) = SubSeq(word, 1, k)
        <5>1. earlier \in Seq(Seq(Letters))
          BY SeqMonotonic, Word \subseteq Seq(Letters) DEF Word
        <5>2. /\ Front(Append(earlier, SubSeq(word, 1, k))) = earlier
              /\ Last(Append(earlier, SubSeq(word, 1, k))) = SubSeq(word, 1, k)
          <6> DEFINE begun == SubSeq(word, 1, k)
          <6>1. begun \in Seq(Letters)
            BY <2>5
          <6> HIDE DEF begun
          <6>2. Front(Append(earlier, begun)) = earlier /\ Last(Append(earlier, begun)) = begun
            BY <5>1, <6>1, FrontAndLast
          <6> QED
            BY <6>2 DEF begun
        <5> QED
          BY <4>1, <5>2, Zenon
      <4> QED
        BY <2>5, <4>3, <4>4
    <3> QED
      BY <3>1, <3>2
  <2> QED
    BY <2>1, <2>6
<1>4. Len(word) \in P
  <2>1. \A k \in 0..Len(word) : k # Len(word) /\ k \in P => k + 1 \in P
    BY <1>3
  <2> HIDE DEF P
  <2>2. \A k \in 0..Len(word) : k \in P
    BY <1>1, <1>2, <2>1, UpToBound
  <2> QED
    BY <1>1, <2>2
<1>5. Reading(text)[b + Len(word)] = Append(earlier, SubSeq(word, 1, Len(word)))
  BY <1>1, <1>4
<1> QED
  BY <1>1, <1>5, SubSeqFull

\* Joined words with a space after them are read as those words.
LEMMA WordsOfJoined ==
  ASSUME NEW words \in Seq(Word) \ {<<>>}
  PROVE  Words(Joined(words) \o <<Space>>) = words
<1> DEFINE text == Joined(words) \o <<Space>>
           End(n) == Len(Joining(words)[n])
           Read(n) == Reading(text)[End(n)] = SubSeq(words, 1, n)
           P == {n \in 0..Len(words) : n # 0 => Read(n)}
<1>1. /\ Len(words) \in Nat \ {0} /\ words \in Seq(Word) /\ Len(words) \in 1..Len(words)
      /\ Closed(Joined(words))
  BY EmptySeq, JoinedClosed
<1>2. /\ Joined(words) \in Text /\ <<Space>> \in Text /\ Len(<<Space>>) = 1
      /\ Len(Joined(words)) \in Nat \ {0}
  BY <1>1 DEF Closed, Text
<1>3. /\ text \in Text /\ Len(text) = Len(Joined(words)) + 1
      /\ \A i \in 1..Len(Joined(words)) : text[i] = Joined(words)[i]
      /\ text[Len(Joined(words)) + 1] = Space
  <2>1. /\ text \in Text /\ Len(text) = Len(Joined(words)) + Len(<<Space>>)
        /\ \A i \in 1..Len(Joined(words)) + Len(<<Space>>) :
             text[i] = IF i <= Len(Joined(words)) THEN Joined(words)[i]
                       ELSE <<Space>>[i - Len(Joined(words))]
    BY <1>2, ConcatProperties DEF Text
  <2> HIDE DEF text
  <2> QED
    BY <1>2, <2>1
<1> HIDE DEF text
<1>4. \A n \in 1..Len(words) :
        /\ End(n) \in Nat /\ End(n) <= Len(Joined(words))
        /\ \A i \in 1..End(n) : text[i] = Joining(words)[n][i]
  <2>1. ASSUME NEW n \in 1..Len(words)
        PROVE  /\ End(n) \in Nat /\ End(n) <= Len(Joined(words))
               /\ \A i \in 1..End(n) : Joined(words)[i] = Joining(words)[n][i]
    BY <1>1, JoiningExtends
  <2>2. ASSUME NEW n \in 1..Len(words), NEW i \in 1..End(n)
        PROVE  text[i] = Joining(words)[n][i]
    <3>1. i \in 1..Len(Joined(words))
      <4>1. End(n) \in Nat /\ End(n) <= Len(Joined(words))
        BY <2>1
      <4> HIDE DEF End
      <4> QED
        BY <1>2, <4>1
    <3> QED
      BY <1>3, <2>1, <3>1
  <2> QED
    BY <2>1, <2>2
<1>5. 0 \in P
  BY <1>1
<1>6. ASSUME NEW k \in 0..Len(words), k # Len(words), k \in P
      PROVE  k + 1 \in P
  <2> DEFINE n == k + 1
             b == BeforeWord(words, n)
             word == words[n]
             earlier == SubSeq(words, 1, k)
  <2>1. n \in 1..Len(words) /\ n \in 0..Len(words) /\ n - 1 = k
    BY <1>1, <1>6
  <2>2. SubSeq(words, 1, n) = Append(earlier, word) /\ earlier \in Seq(Word) /\ word \in Word
    BY <1>1, <2>1, OneMore
  <2>3. Len(word) \in Nat \ {0}
    BY <2>2, WordIsText
  <2> HIDE DEF n
  <2>4. /\ b \in Nat /\ End(n) = b + Len(word)
        /\ \A i \in 1..Len(word) : Joining(words)[n][b + i] = word[i]
        /\ n # 1 => Joining(words)[n][b] = Space
    BY <1>1, <2>1, JoiningReads
  <2>5. /\ n = 1 => b = 0
        /\ n # 1 => b = End(k) + 1
    BY <2>1 DEF BeforeWord
  <2>6. End(n) <= Len(Joined(words)) /\ \A i \in 1..End(n) : text[i] = Joining(words)[n][i]
    BY <1>4, <2>1
  <2> HIDE DEF b, word, earlier
  <2>7. b + Len(word) <= Len(text)
    <3> HIDE DEF End
    <3> QED
      BY <1>2, <1>3, <2>3, <2>4, <2>6
  <2>8. ASSUME NEW i \in 1..Len(word)
        PROVE  text[b + i] = word[i]
    <3>1. b + i \in 1..End(n)
      <4> HIDE DEF End
      <4> QED
        BY <2>3, <2>4
    <3> QED
      BY <2>4, <2>6, <3>1
  <2>9. n # 1 => text[b] = Space /\ b \in 1..Len(text)
    <3>1. ASSUME n # 1
          PROVE  b \in 1..End(n) /\ b \in 1..Len(text)
      <4>1. b # 0
        <5>1. End(k) \in Nat
          <6>1. k \in 1..Len(words)
            BY <1>1, <1>6, <2>1, <3>1
          <6> QED
            BY <1>4, <6>1
        <5> HIDE DEF End
        <5> QED
          BY <2>5, <3>1, <5>1
      <4> HIDE DEF End
      <4> QED
        BY <1>2, <1>3, <2>3, <2>4, <2>7, <4>1
    <3> QED
      BY <2>4, <2>6, <3>1
  <2>10. Reading(text)[b] = earlier
    <3>1. CASE n = 1
      <4>1. k = 0 /\ b = 0
        BY <2>1, <2>5, <3>1
      <4>2. earlier = <<>>
        BY <4>1, SubSeqEmpty DEF earlier
      <4> QED
        BY <1>3, <4>1, <4>2, ReadingSteps
    <3>2. CASE n # 1
      <4>1. k # 0
        BY <1>6, <2>1, <3>2
      <4>2. Reading(text)[b] = Reading(text)[b - 1]
        BY <1>3, <2>9, <3>2, ReadingSteps
      <4>3. b - 1 = End(k)
        <5>1. End(k) \in Nat
          <6>1. k \in 1..Len(words)
            BY <1>1, <1>6, <4>1
          <6> QED
            BY <1>4, <6>1
        <5> HIDE DEF End
        <5> QED
          BY <2>5, <3>2, <5>1
      <4>4. Reading(text)[End(k)] = earlier
        BY <1>6, <4>1 DEF earlier
      <4> QED
        BY <4>2, <4>3, <4>4
    <3> QED
      BY <3>1, <3>2
  <2>11. b = 0 \/ text[b] = Space
    BY <2>5, <2>9
  <2>12. Reading(text)[b + Len(word)] = Append(earlier, word)
    BY <1>3, <2>2, <2>4, <2>7, <2>8, <2>10, <2>11, WordIsRead
  <2>13. Read(n)
    BY <2>2, <2>4, <2>12
  <2>14. n \in P
    BY <2>1, <2>13
  <2> QED
    BY <2>14 DEF n
<1>7. Read(Len(words))
  <2>1. \A k \in 0..Len(words) : k # Len(words) /\ k \in P => k + 1 \in P
    BY <1>6
  <2>2. Len(words) \in P
    <3> HIDE DEF P
    <3>1. \A k \in 0..Len(words) : k \in P
      BY <1>1, <1>5, <2>1, UpToBound
    <3> QED
      BY <1>1, <3>1
  <2> HIDE DEF Read
  <2> QED
    BY <1>1, <2>2
<1>8. Reading(text)[Len(text)] = Reading(text)[Len(Joined(words))]
  <2> DEFINE n == Len(text)
  <2>1. n \in 1..Len(text) /\ text[n] = Space /\ n - 1 = Len(Joined(words))
    BY <1>2, <1>3
  <2> HIDE DEF n
  <2>2. Reading(text)[n] = Reading(text)[n - 1]
    BY <1>3, <2>1, ReadingSteps
  <2> QED
    BY <2>1, <2>2 DEF n
<1>9. Reading(text)[Len(Joined(words))] = words
  BY <1>1, <1>7, SubSeqFull DEF Joined
<1> QED
  BY <1>8, <1>9 DEF Words, text

\* The family name ends the full name: unless it is found in the given names
\* before that, they are what is left.
LEMMA GivenIsRest ==
  ASSUME NEW person \in PersonName,
         \A i \in Occurrences(FullName(person), Joined(person.family)) :
           ~(i <= Len(Joined(person.given)))
  PROVE  Words(Without(FullName(person), Joined(person.family))) = person.given
<1> DEFINE given == Joined(person.given)
           family == Joined(person.family)
           before == given \o <<Space>>
           whole == FullName(person)
<1>1. Closed(given) /\ Closed(family)
  BY JoinedClosed DEF PersonName
<1>2. /\ given \in Text /\ family \in Text /\ <<Space>> \in Text /\ <<>> \in Text
      /\ Len(given) \in Nat /\ Len(family) \in Nat \ {0} /\ family[1] # Space
      /\ Len(<<Space>>) = 1
  BY <1>1 DEF Closed, Text
<1> HIDE DEF given, family
<1>3. /\ before \in Text /\ Len(before) = Len(given) + 1
      /\ before[Len(given) + 1] = Space
  <2>1. /\ before \in Text /\ Len(before) = Len(given) + Len(<<Space>>)
        /\ \A i \in 1..Len(given) + Len(<<Space>>) :
             before[i] = IF i <= Len(given) THEN given[i] ELSE <<Space>>[i - Len(given)]
    BY <1>2, ConcatProperties DEF Text
  <2> HIDE DEF before
  <2> QED
    BY <1>2, <2>1
<1>4. whole = before \o family
  BY DEF FullName, given, family
<1> HIDE DEF before, whole
<1>5. /\ whole \in Text /\ Len(whole) = Len(before) + Len(family)
      /\ whole[Len(given) + 1] = Space
  <2>1. /\ whole \in Text /\ Len(whole) = Len(before) + Len(family)
        /\ \A i \in 1..Len(before) + Len(family) :
             whole[i] = IF i <= Len(before) THEN before[i] ELSE family[i - Len(before)]
    <3>1. /\ before \o family \in Text /\ Len(before \o family) = Len(before) + Len(family)
          /\ \A i \in 1..Len(before) + Len(family) :
               (before \o family)[i] = IF i <= Len(before) THEN before[i]
                                       ELSE family[i - Len(before)]
      <4>1. before \in Text /\ family \in Text
        BY <1>2, <1>3
      <4> QED
        BY <4>1, ConcatProperties DEF Text
    <3> QED
      BY <1>4, <3>1
  <2> QED
    BY <1>2, <1>3, <2>1
<1>6. ASSUME NEW i \in Occurrences(whole, family)
      PROVE  i > Len(before)
  <2>1. i \in Int /\ i \in 1..(Len(whole) - Len(family) + 1)
    BY <1>2, <1>3, <1>5 DEF Occurrences
  <2>2. ~(i <= Len(given))
    BY <1>6 DEF whole, family, given
  <2>3. whole[i] = family[1]
    <3>1. SubSeq(whole, i, i + Len(family) - 1) = family
      BY <1>6 DEF Occurrences
    <3>2. \A k \in i..(i + Len(family) - 1) : whole[k] \in Letters \cup {Space}
      <4>1. \A k \in i..(i + Len(family) - 1) : k \in 1..Len(whole)
        BY <1>2, <1>3, <1>5, <2>1
      <4> QED
        BY <1>5, <4>1, ElementOfSeq DEF Text
    <3>3. \A k \in 1..(i + Len(family) - 1 - i + 1) :
            SubSeq(whole, i, i + Len(family) - 1)[k] = whole[i + k - 1]
      <4>1. i + Len(family) - 1 \in Int
        BY <1>2, <2>1
      <4> QED
        BY <2>1, <3>2, <4>1, SubSeqProperties
    <3>4. 1 \in 1..(i + Len(family) - 1 - i + 1) /\ i + 1 - 1 = i
      BY <1>2, <2>1
    <3>5. SubSeq(whole, i, i + Len(family) - 1)[1] = whole[i + 1 - 1]
      BY <3>3, <3>4
    <3> QED
      BY <3>1, <3>4, <3>5
  <2>4. i # Len(given) + 1
    BY <1>2, <1>5, <2>3
  <2> QED
    BY <1>2, <1>3, <2>1, <2>2, <2>4
<1>7. Without(whole, family) = before
  <2> DEFINE after == <<>>
  <2>1. after \in Text /\ before \o family \o after = whole /\ before \o after = before
    <3>1. whole \o <<>> = whole /\ before \o <<>> = before
      BY <1>3, <1>5, ConcatEmptySeq DEF Text
    <3> QED
      BY <1>2, <1>4, <3>1
  <2> HIDE DEF after
  <2>2. \A i \in Occurrences(before \o family \o after, family) : i > Len(before)
    BY <1>6, <2>1
  <2>3. Without(before \o family \o after, family) = before \o after
    BY <1>2, <1>3, <2>1, <2>2, WithoutFirst
  <2> QED
    BY <2>1, <2>3
<1>8. Words(before) = person.given
  <2>1. person.given \in Seq(Word) \ {<<>>}
    BY DEF PersonName
  <2> QED
    BY <2>1, WordsOfJoined DEF before, given
<1> QED
  BY <1>7, <1>8 DEF whole, family

\* A credential made of a full name is made of the person row's.
LEMMA FullNameIsTheRows ==
  ASSUME Completed, Delivered, answer.names = "full"
  PROVE  answer.person \in PersonName /\ answer.fullName = FullName(answer.person)
<1>1. outcome = Completion(answer) /\ outcome.evidence # None /\ answer \in Answer
  BY AnswersAssumption DEF Completed, Delivered
<1>2. ~NoNames(answer)
  BY <1>1 DEF Completion, Refused
<1>3. /\ answer.person # None
      /\ getNamesFromPersonIdentity(answer.person, answer.fullName) # None
  BY <1>2 DEF NoNames
<1>4. answer.person \in PersonName
  BY <1>1, <1>3 DEF Answer
<1> QED
  BY <1>3, <1>4 DEF getNamesFromPersonIdentity

\* The family name in the credential is the person row's, for every person, full
\* name and alphabet: the given names begin the full name, so their first occurrence
\* is where they stand.
THEOREM FamilyNameKept == Spec => []FamilyNameIsTheirs
<1>1. Completed => FamilyNameIsTheirs
  <2> SUFFICES ASSUME Completed, Delivered, answer.names = "full"
               PROVE  getNamesFromPersonIdentity(answer.person, answer.fullName).family =
                        Joined(answer.person.family)
    BY DEF FamilyNameIsTheirs
  <2>1. answer.person \in PersonName /\ answer.fullName = FullName(answer.person)
    BY FullNameIsTheRows
  <2>2. Trimmed(Without(FullName(answer.person), Joined(answer.person.given))) =
          Joined(answer.person.family)
    BY <2>1, FamilyIsRest
  <2> QED
    BY <2>1, <2>2 DEF getNamesFromPersonIdentity
<1> QED
  BY CompletedInvariant, <1>1, PTL

\* So are the given names, word by word, unless the family name can be read from
\* within them on.
THEOREM GivenNamesKept == Spec => []GivenNamesUnlessRepeated
<1>1. Completed => GivenNamesUnlessRepeated
  <2> SUFFICES ASSUME Completed, Delivered, answer.names = "full",
                      ~FamilyNameStartsInGiven(answer.person)
               PROVE  getNamesFromPersonIdentity(answer.person, answer.fullName).given =
                        answer.person.given
    BY DEF GivenNamesUnlessRepeated
  <2>1. answer.person \in PersonName /\ answer.fullName = FullName(answer.person)
    BY FullNameIsTheRows
  <2>2. Words(Without(FullName(answer.person), Joined(answer.person.family))) =
          answer.person.given
    BY <2>1, GivenIsRest DEF FamilyNameStartsInGiven
  <2> QED
    BY <2>1, <2>2 DEF getNamesFromPersonIdentity
<1> QED
  BY CompletedInvariant, <1>1, PTL
=============================================================================
