-------------------------------- MODULE Keys --------------------------------
(***************************************************************************)
(* The keys of a session request. The client (modelled on the IPV stub)    *)
(* signs it with a key it publishes and encrypts it with a key of the CRI; *)
(* the CRI tries its keys by alias while they rotate, and verifies it with *)
(* the client's keys as it last fetched them.                              *)
(***************************************************************************)
EXTENDS Integers, Sequences

CONSTANTS
  Kids,          \* signing keys the client may have
  MaxAge,        \* for how long fetched keys are kept
  LastTime,      \* bound of the clock
  MaxRotations,  \* bound: rotations of the CRI's encryption key
  None

ASSUME KeysAssumption ==
  /\ MaxAge \in Nat /\ LastTime \in Nat /\ MaxRotations \in Nat
  /\ None \notin Nat /\ None \notin Kids

VARIABLES
  now,
  signing,      \* SIGNING_KEY of the client
  publishedAt,  \* since when each key is published, None when it is not
  retiredAt,    \* when each key was withdrawn, None when it was not
  rotations,    \* of the CRI's encryption key
  cache,        \* cachedJwks and cachedTime of one adapter
  jwe,          \* the request it decrypts
  jwt,          \* the request it verifies
  outcome       \* of the last request

keysVars == <<now, signing, publishedAt, retiredAt, rotations, cache, jwe, jwt, outcome>>

Published == {k \in Kids : publishedAt[k] # None}

\* partial: a key the client published was missing when they were fetched.
Cache == [keys : SUBSET Kids, until : Nat, partial : BOOLEAN]

Jwt == [kid : Kids \cup {None}, signedBy : Kids]

\* key: None for one that is not the CRI's. madeAt: the rotations when it was made;
\* unlucky: the key management did not answer for the right key.
Jwe == [jwt : Jwt, key : Nat \cup {None}, madeAt : Nat, attempt : 1..4, unlucky : BOOLEAN]

Outcomes == {"accepted", "key", "fetch", "kid", "signature"}

ASSUME NoneIsNoOutcome == None \notin Outcomes

-----------------------------------------------------------------------------
(* The client.                                                             *)

\* Its keys are replaced: those that stay published keep their age.
Redeploy ==
  \E s, additional \in Kids :
    /\ signing' = s
    /\ publishedAt' = [k \in Kids |-> IF k \notin {s, additional} THEN None
                                      ELSE IF publishedAt[k] = None THEN now
                                      ELSE publishedAt[k]]
    /\ retiredAt' = [k \in Kids |-> IF k \in {s, additional} THEN None
                                    ELSE IF publishedAt[k] # None THEN now
                                    ELSE retiredAt[k]]
    /\ UNCHANGED <<now, rotations, cache, jwe, jwt, outcome>>

\* Mutant: the key of before is tried first.
PreviousFirst == <<"previous", "active", "inactive">>

ENCRYPTION_KEY_ALIASES == <<"active", "previous", "inactive">>

\* The keys of the CRI are numbered in the order they come into use, the one that is
\* no longer given an alias first.
LegacyKey == 0

KeyOf(alias) ==
  CASE alias = "previous" -> rotations + 1
    [] alias = "active" -> rotations + 2
    [] alias = "inactive" -> rotations + 3

\* A request, or one of those that test a refusal: with a kid that is of no published
\* key or of another one, or encrypted with a key that is not the CRI's.
Send ==
  /\ jwe = None /\ jwt = None
  /\ \E kid \in Published \cup {None}, key \in {LegacyKey, KeyOf("active"), None} :
       jwe' = [jwt |-> [kid |-> kid, signedBy |-> signing], key |-> key,
               madeAt |-> rotations, attempt |-> 1, unlucky |-> FALSE]
  /\ outcome' = None
  /\ UNCHANGED <<now, signing, publishedAt, retiredAt, rotations, cache, jwt>>

-----------------------------------------------------------------------------
(* The CRI.                                                                *)

\* External: every alias moves on by one key.
Rotate ==
  /\ rotations < MaxRotations
  /\ rotations' = rotations + 1
  /\ UNCHANGED <<now, signing, publishedAt, retiredAt, cache, jwe, jwt, outcome>>

\* The key of the attempt, the legacy key being the last.
Tried == IF jwe.attempt <= 3 THEN KeyOf(ENCRYPTION_KEY_ALIASES[jwe.attempt]) ELSE LegacyKey

Decrypted ==
  /\ jwe # None
  /\ jwe.key = Tried
  /\ jwt' = jwe.jwt /\ jwe' = None
  /\ UNCHANGED <<now, signing, publishedAt, retiredAt, rotations, cache, outcome>>

\* What an attempt throws is swallowed, and the next key is tried.
NotDecrypted ==
  /\ jwe # None
  /\ IF jwe.attempt = 4
     THEN jwe' = None /\ outcome' = "key"
     ELSE /\ jwe' = [jwe EXCEPT !.attempt = @ + 1, !.unlucky = @ \/ jwe.key = Tried]
          /\ UNCHANGED outcome
  /\ UNCHANGED <<now, signing, publishedAt, retiredAt, rotations, cache, jwt>>

\* Mutants: kept for a second more; kept for ever.
StaleLate == cache # None => now > cache.until + 1

StaleNever == cache = None

Stale == cache # None => now > cache.until

\* Mutant: a second more than the client says.
CachedTimeAndMore == now + MaxAge + 1

CachedTime == now + MaxAge

Verdict(keys) ==
  IF jwt.kid \notin keys THEN "kid"
  ELSE IF jwt.signedBy # jwt.kid THEN "signature" ELSE "accepted"

Verified(verdict) ==
  /\ jwt # None
  /\ jwt' = None /\ outcome' = verdict
  /\ UNCHANGED <<now, signing, publishedAt, retiredAt, rotations, jwe>>

\* Keys that are not too old are used as they are, whatever kid is asked for.
VerifyCached == ~Stale /\ Verified(Verdict(cache.keys)) /\ UNCHANGED cache

\* Otherwise they are fetched and kept. A key may be missing: getKeyFromKmsAsJwk in the
\* client's jwkUtils.ts leaves out one that KMS does not give it.
VerifyFetched ==
  /\ Stale
  /\ \E keys \in SUBSET Published :
       /\ cache' = [keys |-> keys, until |-> CachedTime, partial |-> keys # Published]
       /\ Verified(Verdict(keys))

FetchFails == Stale /\ Verified("fetch") /\ UNCHANGED cache

Tick ==
  /\ now < LastTime
  /\ now' = now + 1
  /\ UNCHANGED <<signing, publishedAt, retiredAt, rotations, cache, jwe, jwt, outcome>>

-----------------------------------------------------------------------------
KeysInit ==
  /\ now = 0 /\ rotations = 0
  /\ cache = None /\ jwe = None /\ jwt = None /\ outcome = None
  /\ signing \in Kids
  /\ publishedAt = [k \in Kids |-> IF k = signing THEN 0 ELSE None]
  /\ retiredAt = [k \in Kids |-> None]

KeysNext ==
  \/ Redeploy \/ Send \/ Rotate \/ Decrypted \/ NotDecrypted
  \/ VerifyCached \/ VerifyFetched \/ FetchFails \/ Tick

KeysSpec == KeysInit /\ [][KeysNext]_keysVars

-----------------------------------------------------------------------------
\* The type of every variable; a key is published or withdrawn at a time that has
\* come, and what is fetched is kept no longer than MaxAge.
KeysTypeOK ==
  /\ now \in 0..LastTime /\ rotations \in 0..MaxRotations
  /\ signing \in Published
  /\ publishedAt \in [Kids -> 0..now \cup {None}]
  /\ retiredAt \in [Kids -> 0..now \cup {None}]
  /\ cache \in Cache \cup {None}
  /\ cache # None => cache.until <= now + MaxAge
  /\ jwe \in Jwe \cup {None} /\ jwt \in Jwt \cup {None}
  /\ outcome \in Outcomes \cup {None}

\* A key the client has published is refused at most as long as fetched keys are
\* kept, unless the client left out a key when they were fetched.
RefusedOnlyWhenNew ==
  [][\A k \in Published :
       jwt # None /\ jwt.kid = k /\ outcome' = "kid"
         => now <= publishedAt[k] + MaxAge \/ cache'.partial]_keysVars

\* A key the client has withdrawn is accepted at most as long.
WithdrawnIsForgotten ==
  [][\A k \in Kids \ Published :
       jwt # None /\ jwt.kid = k /\ outcome' = "accepted"
         => retiredAt[k] # None /\ now <= retiredAt[k] + MaxAge]_keysVars

\* A rotation between two attempts, or before the first one, loses no request that
\* was encrypted with the key that was active, or with the legacy key.
RotationLosesNoRequest ==
  [][jwe # None /\ outcome' = "key" =>
       \/ jwe.key = None \/ jwe.unlucky \/ jwe.key = Tried
       \/ rotations > jwe.madeAt + 1]_keysVars
=============================================================================
