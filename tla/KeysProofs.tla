----------------------------- MODULE KeysProofs -----------------------------
(***************************************************************************)
(* What is proved of Keys, for any keys, any max-age and any number of     *)
(* rotations. The cache is related to the times at which keys were         *)
(* published and withdrawn, and the attempts on a request to the rotations *)
(* since it was made.                                                      *)
(***************************************************************************)
EXTENDS Keys, TLAPS

CacheFollows ==
  cache # None =>
    /\ ~cache.partial =>
         \A k \in Published : publishedAt[k] + MaxAge < cache.until => k \in cache.keys
    /\ \A k \in cache.keys \ Published :
         retiredAt[k] # None /\ retiredAt[k] + MaxAge >= cache.until

\* A request with the key that was active has been tried once at most, and then with
\* the key of one rotation later.
AttemptsFollow ==
  jwe # None =>
    /\ jwe.key \in {LegacyKey, jwe.madeAt + 2, None}
    /\ jwe.madeAt <= rotations
    /\ jwe.key = jwe.madeAt + 2 /\ ~jwe.unlucky /\ rotations <= jwe.madeAt + 1 =>
         jwe.attempt = 1 \/ (jwe.attempt = 2 /\ rotations = jwe.madeAt + 1)

KeysInv == KeysTypeOK /\ CacheFollows /\ AttemptsFollow

\* The numbers behind the aliases.
LEMMA TriedKeys ==
  ASSUME KeysInv, jwe # None
  PROVE  /\ jwe.attempt = 1 => Tried = rotations + 2
         /\ jwe.attempt = 2 => Tried = rotations + 1
         /\ jwe.attempt = 3 => Tried = rotations + 3
         /\ jwe.attempt = 4 => Tried = 0
<1>1. KeyOf("active") = rotations + 2 /\ KeyOf("previous") = rotations + 1
      /\ KeyOf("inactive") = rotations + 3
  BY DEF KeyOf
<1>2. /\ ENCRYPTION_KEY_ALIASES[1] = "active" /\ ENCRYPTION_KEY_ALIASES[2] = "previous"
      /\ ENCRYPTION_KEY_ALIASES[3] = "inactive"
  BY DEF ENCRYPTION_KEY_ALIASES
<1>3. CASE jwe.attempt = 1
  BY <1>1, <1>2, <1>3 DEF Tried
<1>4. CASE jwe.attempt = 2
  BY <1>1, <1>2, <1>4 DEF Tried
<1>5. CASE jwe.attempt = 3
  BY <1>1, <1>2, <1>5 DEF Tried
<1>6. CASE jwe.attempt = 4
  BY <1>6 DEF Tried, LegacyKey
<1>7. jwe.attempt \in 1..4
  BY DEF KeysInv, KeysTypeOK, Jwe
<1> QED
  BY <1>3, <1>4, <1>5, <1>6, <1>7

-----------------------------------------------------------------------------
LEMMA InitKeysInv == KeysInit => KeysInv
<1> SUFFICES ASSUME KeysInit PROVE KeysInv
  OBVIOUS
<1>1. KeysTypeOK
  BY KeysAssumption DEF KeysInit, KeysTypeOK, Published
<1> QED
  BY <1>1 DEF KeysInit, KeysInv, CacheFollows, AttemptsFollow

LEMMA RedeployKeeps == ASSUME KeysInv, Redeploy PROVE KeysInv'
<1>1. PICK s, additional \in Kids :
        /\ signing' = s
        /\ publishedAt' = [k \in Kids |-> IF k \notin {s, additional} THEN None
                                          ELSE IF publishedAt[k] = None THEN now
                                          ELSE publishedAt[k]]
        /\ retiredAt' = [k \in Kids |-> IF k \in {s, additional} THEN None
                                        ELSE IF publishedAt[k] # None THEN now
                                        ELSE retiredAt[k]]
        /\ UNCHANGED <<now, rotations, cache, jwe, jwt, outcome>>
  BY DEF Redeploy
<1>2. /\ now \in Nat /\ publishedAt \in [Kids -> 0..now \cup {None}]
      /\ retiredAt \in [Kids -> 0..now \cup {None}]
      /\ cache \in Cache \cup {None}
      /\ cache # None => cache.until <= now + MaxAge
  BY DEF KeysInv, KeysTypeOK
<1>3. KeysTypeOK'
  <2>1. publishedAt' \in [Kids -> 0..now' \cup {None}]
        /\ retiredAt' \in [Kids -> 0..now' \cup {None}]
    BY <1>1, <1>2
  <2>2. signing' \in Published'
    BY <1>1, <1>2, KeysAssumption DEF Published
  <2> QED
    BY <1>1, <2>1, <2>2 DEF KeysInv, KeysTypeOK
<1>4. CacheFollows'
  <2> SUFFICES ASSUME cache # None
               PROVE  /\ ~cache.partial =>
                           \A k \in Published' :
                             publishedAt'[k] + MaxAge < cache.until => k \in cache.keys
                      /\ \A k \in cache.keys \ Published' :
                           retiredAt'[k] # None /\ retiredAt'[k] + MaxAge >= cache.until
    BY <1>1 DEF CacheFollows
  <2>1. cache.until \in Nat /\ cache.keys \subseteq Kids /\ cache.until <= now + MaxAge
    <3>1. cache \in Cache
      BY <1>2
    <3> QED
      BY <1>2, <3>1 DEF Cache
  <2>2. ASSUME ~cache.partial, NEW k \in Published',
               publishedAt'[k] + MaxAge < cache.until
        PROVE  k \in cache.keys
    <3>1. k \in Kids /\ publishedAt'[k] # None
      BY <2>2 DEF Published
    <3>2. publishedAt'[k] # now
      <4> DEFINE p == publishedAt'[k]
      <4>1. p + MaxAge < cache.until
        BY <2>2
      <4> HIDE DEF p
      <4>2. p # now
        BY <1>2, <2>1, <4>1, KeysAssumption
      <4> QED
        BY <4>2 DEF p
    <3>3. publishedAt[k] # None /\ publishedAt'[k] = publishedAt[k]
      BY <1>1, <3>1, <3>2
    <3> QED
      BY <2>2, <3>1, <3>3 DEF KeysInv, CacheFollows, Published
  <2>3. ASSUME NEW k \in cache.keys \ Published'
        PROVE  retiredAt'[k] # None /\ retiredAt'[k] + MaxAge >= cache.until
    <3>1. k \in Kids /\ publishedAt'[k] = None
      BY <2>1, <2>3 DEF Published
    <3>2. k \notin {s, additional}
      BY <1>1, <1>2, <3>1, KeysAssumption
    <3>3. CASE publishedAt[k] # None
      BY <1>1, <1>2, <2>1, <3>1, <3>2, <3>3, KeysAssumption
    <3>4. CASE publishedAt[k] = None
      <4>1. retiredAt'[k] = retiredAt[k]
        BY <1>1, <3>1, <3>2, <3>4
      <4> QED
        BY <2>3, <3>1, <3>4, <4>1 DEF KeysInv, CacheFollows, Published
    <3> QED
      BY <3>3, <3>4
  <2> QED
    BY <2>2, <2>3
<1>5. AttemptsFollow'
  BY <1>1 DEF KeysInv, AttemptsFollow
<1> QED
  BY <1>3, <1>4, <1>5 DEF KeysInv

LEMMA SendKeeps == ASSUME KeysInv, Send PROVE KeysInv'
<1>1. PICK kid \in Published \cup {None}, key \in {LegacyKey, KeyOf("active"), None} :
        jwe' = [jwt |-> [kid |-> kid, signedBy |-> signing], key |-> key,
                madeAt |-> rotations, attempt |-> 1, unlucky |-> FALSE]
  BY DEF Send
<1>2. UNCHANGED <<now, signing, publishedAt, retiredAt, rotations, cache, jwt>>
      /\ outcome' = None
  BY DEF Send
<1>3. rotations \in Nat /\ signing \in Kids /\ Published \subseteq Kids
  BY DEF KeysInv, KeysTypeOK, Published
<1>4. key \in {0, rotations + 2, None}
  BY DEF LegacyKey, KeyOf
<1>5. jwe' \in Jwe
  BY <1>1, <1>3, <1>4 DEF Jwe, Jwt
<1>6. KeysTypeOK'
  BY <1>2, <1>5 DEF KeysInv, KeysTypeOK, Published
<1>7. CacheFollows'
  BY <1>2 DEF KeysInv, CacheFollows, Published
<1>8. AttemptsFollow'
  <2>1. /\ jwe'.key \in {LegacyKey, jwe'.madeAt + 2, None} /\ jwe'.madeAt <= rotations'
        /\ jwe'.attempt = 1
    BY <1>1, <1>2, <1>3, <1>4 DEF LegacyKey
  <2> QED
    BY <2>1 DEF AttemptsFollow
<1> QED
  BY <1>6, <1>7, <1>8 DEF KeysInv

LEMMA RotateKeeps == ASSUME KeysInv, Rotate PROVE KeysInv'
<1>1. /\ rotations \in Nat /\ rotations' = rotations + 1 /\ rotations < MaxRotations
      /\ UNCHANGED <<now, signing, publishedAt, retiredAt, cache, jwe, jwt, outcome>>
  BY DEF Rotate, KeysInv, KeysTypeOK
<1>2. KeysTypeOK'
  BY <1>1, KeysAssumption DEF KeysInv, KeysTypeOK, Published
<1>3. CacheFollows'
  BY <1>1 DEF KeysInv, CacheFollows, Published
<1>4. AttemptsFollow'
  <2> SUFFICES ASSUME jwe # None PROVE AttemptsFollow'
    BY <1>1 DEF AttemptsFollow
  <2>1. jwe.madeAt \in Nat
    BY DEF KeysInv, KeysTypeOK, Jwe
  <2>2. jwe.key \in {LegacyKey, jwe.madeAt + 2, None} /\ jwe.madeAt <= rotations
        /\ (jwe.key = jwe.madeAt + 2 /\ ~jwe.unlucky /\ rotations <= jwe.madeAt + 1 =>
               jwe.attempt = 1 \/ (jwe.attempt = 2 /\ rotations = jwe.madeAt + 1))
    BY DEF KeysInv, AttemptsFollow
  <2>3. rotations + 1 <= jwe.madeAt + 1 => rotations = jwe.madeAt
    BY <1>1, <2>1, <2>2
  <2> QED
    BY <1>1, <2>1, <2>2, <2>3 DEF AttemptsFollow, LegacyKey
<1> QED
  BY <1>2, <1>3, <1>4 DEF KeysInv

LEMMA DecryptedKeeps == ASSUME KeysInv, Decrypted PROVE KeysInv'
<1>1. /\ jwt' = jwe.jwt /\ jwe' = None /\ jwe # None
      /\ UNCHANGED <<now, signing, publishedAt, retiredAt, rotations, cache, outcome>>
  BY DEF Decrypted
<1>2. jwt' \in Jwt
  BY <1>1 DEF KeysInv, KeysTypeOK, Jwe
<1>3. KeysTypeOK'
  BY <1>1, <1>2 DEF KeysInv, KeysTypeOK, Published
<1>4. CacheFollows'
  BY <1>1 DEF KeysInv, CacheFollows, Published
<1> QED
  BY <1>1, <1>3, <1>4 DEF KeysInv, AttemptsFollow

LEMMA NotDecryptedKeeps == ASSUME KeysInv, NotDecrypted PROVE KeysInv'
<1>1. /\ jwe # None
      /\ UNCHANGED <<now, signing, publishedAt, retiredAt, rotations, cache, jwt>>
  BY DEF NotDecrypted
<1>2. CacheFollows'
  BY <1>1 DEF KeysInv, CacheFollows, Published
<1>3. CASE jwe.attempt = 4
  <2>1. jwe' = None /\ outcome' = "key"
    BY <1>3 DEF NotDecrypted
  <2>2. KeysTypeOK'
    BY <1>1, <2>1 DEF KeysInv, KeysTypeOK, Published, Outcomes
  <2> QED
    BY <1>2, <2>1, <2>2 DEF KeysInv, AttemptsFollow
<1>4. CASE jwe.attempt # 4
  <2> DEFINE missed == jwe.key = Tried
             new == [jwt |-> jwe.jwt, key |-> jwe.key, madeAt |-> jwe.madeAt,
                     attempt |-> jwe.attempt + 1, unlucky |-> jwe.unlucky \/ missed]
  <2>1. jwe \in Jwe /\ rotations \in Nat
    BY <1>1 DEF KeysInv, KeysTypeOK
  <2>2. jwe' = [jwe EXCEPT !.attempt = @ + 1, !.unlucky = @ \/ jwe.key = Tried]
        /\ outcome' = outcome
    BY <1>4 DEF NotDecrypted
  <2> HIDE DEF missed
  <2>3. jwe' = new
    BY <2>1, <2>2 DEF Jwe, missed
  <2>4. missed \in BOOLEAN
    BY DEF missed
  <2>5. jwe' \in Jwe
    BY <1>4, <2>1, <2>3, <2>4 DEF Jwe
  <2>6. KeysTypeOK'
    BY <1>1, <2>2, <2>5 DEF KeysInv, KeysTypeOK, Published
  <2>7. ~jwe'.unlucky => ~jwe.unlucky /\ jwe.key # Tried
    BY <2>3 DEF missed
  <2>8. /\ jwe'.key = jwe.key /\ jwe'.madeAt = jwe.madeAt
        /\ jwe'.attempt = jwe.attempt + 1
    BY <2>3
  <2>9. jwe.madeAt \in Nat /\ jwe.attempt \in 1..4
    BY <2>1 DEF Jwe
  <2>10. AttemptsFollow'
    <3>1. /\ jwe.attempt = 1 => Tried = rotations + 2
          /\ jwe.attempt = 2 => Tried = rotations + 1
      BY <1>1, TriedKeys
    <3>2. /\ jwe.key \in {LegacyKey, jwe.madeAt + 2, None} /\ jwe.madeAt <= rotations
          /\ jwe.key = jwe.madeAt + 2 /\ ~jwe.unlucky /\ rotations <= jwe.madeAt + 1 =>
               jwe.attempt = 1 \/ (jwe.attempt = 2 /\ rotations = jwe.madeAt + 1)
      BY <1>1 DEF KeysInv, AttemptsFollow
    <3>3. /\ jwe.key = jwe.madeAt + 2 /\ ~jwe'.unlucky /\ rotations <= jwe.madeAt + 1 =>
               jwe.attempt = 1 /\ rotations = jwe.madeAt + 1
      BY <2>1, <2>7, <2>9, <3>1, <3>2
    <3> QED
      BY <1>1, <2>8, <2>9, <3>2, <3>3 DEF AttemptsFollow, LegacyKey
  <2> QED
    BY <1>2, <2>6, <2>10 DEF KeysInv
<1> QED
  BY <1>3, <1>4

\* Every end of a verification but a fetch leaves the cache alone.
LEMMA VerifiedKeeps ==
  ASSUME KeysInv, NEW verdict \in Outcomes, Verified(verdict), UNCHANGED cache
  PROVE  KeysInv'
<1>1. /\ jwt' = None /\ outcome' = verdict
      /\ UNCHANGED <<now, signing, publishedAt, retiredAt, rotations, jwe, cache>>
  BY DEF Verified
<1>2. KeysTypeOK'
  BY <1>1 DEF KeysInv, KeysTypeOK, Published
<1>3. CacheFollows' /\ AttemptsFollow'
  BY <1>1 DEF KeysInv, CacheFollows, Published, AttemptsFollow
<1> QED
  BY <1>2, <1>3 DEF KeysInv

LEMMA VerdictIsOutcome == \A keys : Verdict(keys) \in Outcomes
  BY DEF Verdict, Outcomes

LEMMA VerifyFetchedKeeps == ASSUME KeysInv, VerifyFetched PROVE KeysInv'
<1>1. PICK keys \in SUBSET Published :
        /\ cache' = [keys |-> keys, until |-> CachedTime, partial |-> keys # Published]
        /\ Verified(Verdict(keys))
  BY DEF VerifyFetched
<1>2. /\ jwt' = None /\ outcome' \in Outcomes
      /\ UNCHANGED <<now, signing, publishedAt, retiredAt, rotations, jwe>>
  BY <1>1, VerdictIsOutcome DEF Verified
<1>3. Published' = Published /\ Published \subseteq Kids
  BY <1>2 DEF Published
<1>4. cache' \in Cache /\ cache'.until = now + MaxAge /\ now \in Nat
  BY <1>1, <1>3, KeysAssumption DEF Cache, CachedTime, KeysInv, KeysTypeOK
<1>5. KeysTypeOK'
  <2>1. cache' # None => cache'.until <= now' + MaxAge
    BY <1>2, <1>4, KeysAssumption
  <2>2. /\ now' \in 0..LastTime /\ rotations' \in 0..MaxRotations
        /\ signing' \in Published'
        /\ publishedAt' \in [Kids -> 0..now' \cup {None}]
        /\ retiredAt' \in [Kids -> 0..now' \cup {None}]
    BY <1>2, <1>3 DEF KeysInv, KeysTypeOK
  <2>3. /\ jwe' \in Jwe \cup {None} /\ jwt' \in Jwt \cup {None}
        /\ outcome' \in Outcomes \cup {None}
    BY <1>2 DEF KeysInv, KeysTypeOK
  <2> QED
    BY <1>4, <2>1, <2>2, <2>3 DEF KeysTypeOK
<1>6. CacheFollows'
  <2>1. cache'.keys = keys /\ cache'.partial = (keys # Published)
    BY <1>1
  <2> QED
    BY <1>3, <2>1 DEF CacheFollows
<1>7. AttemptsFollow'
  BY <1>2 DEF KeysInv, AttemptsFollow
<1> QED
  BY <1>5, <1>6, <1>7 DEF KeysInv

LEMMA TickKeeps == ASSUME KeysInv, Tick PROVE KeysInv'
<1>1. /\ now \in Nat /\ now' = now + 1 /\ now < LastTime
      /\ UNCHANGED <<signing, publishedAt, retiredAt, rotations, cache, jwe, jwt, outcome>>
  BY DEF Tick, KeysInv, KeysTypeOK
<1>2. 0..now \subseteq 0..now'
  BY <1>1
<1>3. KeysTypeOK'
  <2>1. publishedAt' \in [Kids -> 0..now' \cup {None}]
        /\ retiredAt' \in [Kids -> 0..now' \cup {None}]
    BY <1>1, <1>2 DEF KeysInv, KeysTypeOK
  <2>2. cache' # None => cache'.until <= now' + MaxAge
    BY <1>1, KeysAssumption DEF KeysInv, KeysTypeOK, Cache
  <2>3. now' \in 0..LastTime
    BY <1>1, KeysAssumption
  <2> QED
    BY <1>1, <2>1, <2>2, <2>3 DEF KeysInv, KeysTypeOK, Published
<1>4. CacheFollows' /\ AttemptsFollow'
  BY <1>1 DEF KeysInv, CacheFollows, Published, AttemptsFollow
<1> QED
  BY <1>3, <1>4 DEF KeysInv

LEMMA NextKeysInv == KeysInv /\ [KeysNext]_keysVars => KeysInv'
<1> SUFFICES ASSUME KeysInv, [KeysNext]_keysVars PROVE KeysInv'
  OBVIOUS
<1>1. CASE VerifyCached \/ FetchFails
  <2>1. "fetch" \in Outcomes
    BY DEF Outcomes
  <2> QED
    BY <1>1, <2>1, VerifiedKeeps, VerdictIsOutcome DEF VerifyCached, FetchFails
<1>2. CASE UNCHANGED keysVars
  BY <1>2 DEF keysVars, KeysInv, KeysTypeOK, Published, CacheFollows, AttemptsFollow
<1> QED
  BY <1>1, <1>2, RedeployKeeps, SendKeeps, RotateKeeps, DecryptedKeeps, NotDecryptedKeeps,
     VerifyFetchedKeeps, TickKeeps DEF KeysNext

LEMMA KeysInvariant == KeysSpec => []KeysInv
  BY InitKeysInv, NextKeysInv, PTL DEF KeysSpec

-----------------------------------------------------------------------------
\* The variables keep their types, and fetched keys are never kept beyond MaxAge.
THEOREM KeysTypes == KeysSpec => []KeysTypeOK
<1>1. KeysInv => KeysTypeOK
  BY DEF KeysInv
<1> QED
  BY <1>1, KeysInvariant, PTL

-----------------------------------------------------------------------------
\* One request at a time: it has no outcome before it is verified or given up.
OneAtATime ==
  /\ jwe # None \/ jwt # None => outcome = None
  /\ jwt # None => jwe = None

LEMMA InOrder == KeysSpec => []OneAtATime
<1>1. KeysInit => OneAtATime
  BY DEF KeysInit, OneAtATime
<1>2. OneAtATime /\ [KeysNext]_keysVars => OneAtATime'
  <2> SUFFICES ASSUME OneAtATime, [KeysNext]_keysVars PROVE OneAtATime'
    OBVIOUS
  <2>1. CASE Redeploy \/ Rotate \/ Tick \/ UNCHANGED keysVars
    BY <2>1 DEF Redeploy, Rotate, Tick, keysVars, OneAtATime
  <2>2. CASE Send
    BY <2>2 DEF Send, OneAtATime
  <2>3. CASE Decrypted
    BY <2>3 DEF Decrypted, OneAtATime
  <2>4. CASE NotDecrypted
    BY <2>4 DEF NotDecrypted, OneAtATime
  <2>5. CASE VerifyCached \/ VerifyFetched \/ FetchFails
    BY <2>5 DEF VerifyCached, VerifyFetched, FetchFails, Verified, OneAtATime
  <2> QED
    BY <2>1, <2>2, <2>3, <2>4, <2>5 DEF KeysNext
<1> QED
  BY <1>1, <1>2, PTL DEF KeysSpec

\* Only a verification gives one of its verdicts to the request that is verified.
LEMMA VerdictBySteps ==
  ASSUME KeysInv, OneAtATime, [KeysNext]_keysVars, jwt # None, outcome' \in Outcomes
  PROVE  VerifyCached \/ VerifyFetched \/ FetchFails
<1>1. outcome = None /\ jwe = None
  BY DEF OneAtATime
<1>2. outcome \notin Outcomes
  BY <1>1, NoneIsNoOutcome
<1> QED
  BY <1>1, <1>2
  DEF KeysNext, keysVars, Redeploy, Send, Rotate, Decrypted, NotDecrypted, Tick

\* A key the client published more than MaxAge ago is not refused as unknown, unless
\* the client left it out itself.
THEOREM NewKeysAreServed == KeysSpec => RefusedOnlyWhenNew
<1>1. KeysInv /\ OneAtATime /\ [KeysNext]_keysVars =>
        [\A k \in Published :
           jwt # None /\ jwt.kid = k /\ outcome' = "kid"
             => now <= publishedAt[k] + MaxAge \/ cache'.partial]_keysVars
  <2> SUFFICES ASSUME KeysInv, OneAtATime, [KeysNext]_keysVars, NEW k \in Published,
                      jwt # None, jwt.kid = k, outcome' = "kid", ~cache'.partial
               PROVE  now <= publishedAt[k] + MaxAge
    OBVIOUS
  <2>1. now \in Nat /\ publishedAt[k] \in Nat /\ MaxAge \in Nat
    BY KeysAssumption DEF KeysInv, KeysTypeOK, Published
  <2>2. VerifyCached \/ VerifyFetched \/ FetchFails
    BY VerdictBySteps DEF Outcomes
  <2>3. CASE VerifyCached
    <3>1. cache # None /\ ~(now > cache.until) /\ cache' = cache
          /\ Verdict(cache.keys) = "kid"
      BY <2>3 DEF VerifyCached, Verified, Stale
    <3>2. cache.until \in Nat
      BY <3>1 DEF KeysInv, KeysTypeOK, Cache
    <3>3. k \notin cache.keys
      BY <3>1 DEF Verdict
    <3>4. ~(publishedAt[k] + MaxAge < cache.until)
      BY <3>1, <3>3 DEF KeysInv, CacheFollows
    <3> QED
      BY <2>1, <3>1, <3>2, <3>4
  <2>4. CASE VerifyFetched
    <3>1. PICK keys \in SUBSET Published :
            /\ cache' = [keys |-> keys, until |-> CachedTime, partial |-> keys # Published]
            /\ Verified(Verdict(keys))
      BY <2>4 DEF VerifyFetched
    <3>2. keys = Published
      BY <3>1
    <3>3. Verdict(keys) = "kid"
      BY <3>1 DEF Verified
    <3> QED
      BY <3>2, <3>3 DEF Verdict
  <2>5. CASE FetchFails
    BY <2>5 DEF FetchFails, Verified
  <2> QED
    BY <2>2, <2>3, <2>4, <2>5
<1> QED
  BY <1>1, KeysInvariant, InOrder, PTL DEF KeysSpec, RefusedOnlyWhenNew

\* A key the client withdrew more than MaxAge ago is accepted no more.
THEOREM WithdrawnKeysExpire == KeysSpec => WithdrawnIsForgotten
<1>1. KeysInv /\ OneAtATime /\ [KeysNext]_keysVars =>
        [\A k \in Kids \ Published :
           jwt # None /\ jwt.kid = k /\ outcome' = "accepted"
             => retiredAt[k] # None /\ now <= retiredAt[k] + MaxAge]_keysVars
  <2> SUFFICES ASSUME KeysInv, OneAtATime, [KeysNext]_keysVars,
                      NEW k \in Kids \ Published,
                      jwt # None, jwt.kid = k, outcome' = "accepted"
               PROVE  retiredAt[k] # None /\ now <= retiredAt[k] + MaxAge
    OBVIOUS
  <2>1. VerifyCached \/ VerifyFetched \/ FetchFails
    BY VerdictBySteps DEF Outcomes
  <2>2. CASE VerifyCached
    <3>1. cache # None /\ ~(now > cache.until) /\ Verdict(cache.keys) = "accepted"
      BY <2>2 DEF VerifyCached, Verified, Stale
    <3>2. k \in cache.keys
      BY <3>1 DEF Verdict
    <3>3. retiredAt[k] # None /\ retiredAt[k] + MaxAge >= cache.until
      BY <3>1, <3>2 DEF KeysInv, CacheFollows
    <3>4. now \in Nat /\ cache.until \in Nat /\ MaxAge \in Nat /\ retiredAt[k] \in Nat
      BY <3>1, <3>3, KeysAssumption DEF KeysInv, KeysTypeOK, Cache
    <3> QED
      BY <3>1, <3>3, <3>4
  <2>3. CASE VerifyFetched
    <3>1. PICK keys \in SUBSET Published : Verified(Verdict(keys))
      BY <2>3 DEF VerifyFetched
    <3>2. Verdict(keys) = "accepted"
      BY <3>1 DEF Verified
    <3> QED
      BY <3>1, <3>2 DEF Verdict
  <2>4. CASE FetchFails
    BY <2>4 DEF FetchFails, Verified
  <2> QED
    BY <2>1, <2>2, <2>3, <2>4
<1> QED
  BY <1>1, KeysInvariant, InOrder, PTL DEF KeysSpec, WithdrawnIsForgotten

\* A request made with a key of the CRI is lost to no single rotation.
THEOREM RotationIsSafe == KeysSpec => RotationLosesNoRequest
<1>1. KeysInv /\ OneAtATime /\ [KeysNext]_keysVars =>
        [jwe # None /\ outcome' = "key" =>
           \/ jwe.key = None \/ jwe.unlucky \/ jwe.key = Tried
           \/ rotations > jwe.madeAt + 1]_keysVars
  <2> SUFFICES ASSUME KeysInv, OneAtATime, [KeysNext]_keysVars, jwe # None,
                      outcome' = "key", jwe.key # None, ~jwe.unlucky, jwe.key # Tried
               PROVE  rotations > jwe.madeAt + 1
    OBVIOUS
  <2>1. outcome = None /\ jwt = None /\ outcome # "key"
    BY NoneIsNoOutcome DEF OneAtATime, Outcomes
  <2>2. NotDecrypted
    BY <2>1 DEF KeysNext, keysVars, Redeploy, Send, Rotate, Decrypted, Tick,
       VerifyCached, VerifyFetched, FetchFails, Verified
  <2>3. jwe.attempt = 4
    BY <2>1, <2>2 DEF NotDecrypted
  <2>4. jwe.key # LegacyKey
    BY <2>3, TriedKeys DEF LegacyKey
  <2>5. jwe.madeAt \in Nat /\ rotations \in Nat
    BY DEF KeysInv, KeysTypeOK, Jwe
  <2>6. ~(rotations <= jwe.madeAt + 1)
    BY <2>3, <2>4 DEF KeysInv, AttemptsFollow
  <2> QED
    BY <2>5, <2>6
<1> QED
  BY <1>1, KeysInvariant, InOrder, PTL DEF KeysSpec, RotationLosesNoRequest
=============================================================================
