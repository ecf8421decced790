---------------------------- MODULE MCYotiClient ----------------------------
(***************************************************************************)
(* Two journeys and two instances of the stub. The first journey tests any *)
(* scenario or error, the second one disturbs it or not.                   *)
(***************************************************************************)
EXTENDS YotiClient

CONSTANTS c1, c2, i1, i2

MCCallers == {c1, c2}
MCInstances == {i1, i2}
MCLetters == {"F", "J", "S", "K"}
MCDocumentIds == {"used", "other", "third"}

\* Codes of requests that fail, one of every status an endpoint answers with.
ErrorNames ==
  {"no building", "no digits", "1400", "1503", "1999", "2404", "2503", "2999", "3409",
   "3503", "3999", "4401", "4500", "4999", "5404", "5429", "5503", "5999", "0199"}

Names == DOMAIN Scenarios \cup IPV_INTEG_FULL_NAMES \cup ErrorNames \cup {"1601"}

Of(names, fadCodes) == [name : names, fadCode : fadCodes]

\* Any one journey beside one that is refused at once, and two that share counters.
MCJourneys ==
  LET one == Of(Names, {"valid"}) \cup Of({"0100", "1601"}, FadCodes)
      two == Of({"1601"}, {"XXXX"})
  IN  {c1 :> j @@ c2 :> [name |-> "no building", fadCode |-> "valid"] : j \in one}
        \cup {c1 :> j @@ c2 :> k : j \in Of({"1601"}, {"valid"}), k \in two}
=============================================================================
