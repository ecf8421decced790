----------------------------- MODULE MCEvidence -----------------------------
EXTENDS Evidence

CONSTANTS d1, d2, ro, ma

Doc(id, type, country, fields) ==
  [id |-> id, type |-> type, country |-> country, fields |-> fields]

Checks(reasons, subCheck) ==
  [done : {TRUE}, value : {"APPROVE", "NOT_AVAILABLE"}, reason : {"UNKNOWN"},
   passed : SUBSET {subCheck}]
    \cup [done : {TRUE}, value : {"REJECT"}, reason : reasons, passed : SUBSET {subCheck}]

\* One reason of each kind the code tells apart, and one it does not know.
AuthenticityChecks ==
  Checks({"TAMPERED", "EXPIRED_DOCUMENT", "FRAUD_LIST_MATCH", "DATA_MISMATCH", "UNKNOWN"},
         "chip_csca_trusted")

FaceChecks == Checks({"LARGE_AGE_GAP", "UNKNOWN"}, "manual_face_match")

NotDone == [done |-> FALSE, value |-> "NOT_AVAILABLE", reason |-> "UNKNOWN", passed |-> {}]

Approved(subCheck) ==
  [done |-> TRUE, value |-> "APPROVE", reason |-> "UNKNOWN", passed |-> {subCheck}]

Medias == [type : DocumentTypes, country : Countries]

\* One document, every combination of scores.
ScoredAnswers ==
  [completed : {TRUE},
   documents : {<<Doc(d1, type, country, "media")>> : type \in DocumentTypes,
                                                      country \in Countries},
   used : {<<d1>>}, authenticity : AuthenticityChecks, faceMatch : FaceChecks,
   visualReview : {"done"},
   media : {m \in Medias : m.type \in {"DRIVING_LICENCE", "RESIDENCE_PERMIT"}},
   names : {"parts"}, fullName : {<<>>}, person : {None}]

\* Up to two documents, every way of naming the one that was used.
DocumentAnswers ==
  [completed : BOOLEAN,
   documents : BoundedSeq({Doc(d1, "PASSPORT", "GBR", "media"),
                           Doc(d1, "PASSPORT", "GBR", "none"),
                           Doc(d2, "DRIVING_LICENCE", "EU", "media"),
                           Doc(d2, "DRIVING_LICENCE", "EU", "noMedia")}, 2),
   used : BoundedSeq({d1, d2}, 2),
   authenticity : {None, NotDone, Approved("chip_csca_trusted")},
   faceMatch : {None, NotDone, Approved("manual_face_match")},
   visualReview : {"missing", "pending", "done"},
   media : {None, [type |-> "PASSPORT", country |-> "GBR"],
            [type |-> "DRIVING_LICENCE", country |-> "EU"]},
   names : {"parts"}, fullName : {<<>>}, person : {None}]

\* Every way of finding a name: one or two given names of up to two letters, a
\* family name like them or one of two words.
Name(n) == UNION {[1..k -> {ro, ma}] : k \in 1..n}

Persons ==
  [given : UNION {[1..k -> Name(2)] : k \in 1..2},
   family : [1..1 -> Name(2)] \cup [1..2 -> Name(1)]]

Named(names, fullName, person) ==
  [completed |-> TRUE, documents |-> <<Doc(d1, "PASSPORT", "GBR", "media")>>,
   used |-> <<d1>>, authenticity |-> Approved("chip_csca_trusted"),
   faceMatch |-> Approved("manual_face_match"), visualReview |-> "done",
   media |-> [type |-> "PASSPORT", country |-> "GBR"],
   names |-> names, fullName |-> fullName, person |-> person]

NamedAnswers ==
  {Named("full", FullName(person), person) : person \in Persons}
    \cup {Named("full", fullName, person) :
           fullName \in {<<ro, Space, ma>>, <<ro, ma, Space, ma>>}, person \in Persons \cup {None}}
    \cup {Named("missing", <<>>, None)}

MCAnswers == ScoredAnswers \cup DocumentAnswers \cup NamedAnswers
=============================================================================
