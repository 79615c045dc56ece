---------------------------- MODULE JwksVerifier ----------------------------
(***************************************************************************)
(* Authentication of the HTTP API: authMiddleware and the JWKS verifier    *)
(* with its key cache (internal/httpapi/auth_middleware.go, pkg/jwtclaims/ *)
(* jwks_verifier.go).                                                      *)
(*                                                                         *)
(* Every request is a goroutine.  It looks its key up in the cache; on a   *)
(* miss it fetches the key set, replaces the cache and looks again.  Any   *)
(* number of refreshes run at once, and the provider may rotate its keys   *)
(* between and during them.  A lookup, the answer of the provider and the  *)
(* replacement of the cache are steps of their own.                        *)
(***************************************************************************)
EXTENDS Naturals, Sequences, FiniteSets

CONSTANTS
  Requests,      \* the goroutines that serve requests
  Tokens,        \* the tokens clients send
  Documents,     \* the key sets the provider may publish
  Issuer,        \* jwksVerifier.issuer
  ExpectedAZP,   \* jwksVerifier.expectedAZP, "" if not configured
  ClockSkew, CacheTTL,
  HTTPWait,      \* the timeout of the HTTP client
  None,          \* no token, no key, never
  MaxTime,       \* bound: the end of time
  MaxRotations   \* bound: changes of the published key set

----------------------------------------------------------------------------
(* The key set.  n and e are 0 if they do not decode. *)

toRSAPublicKey(n, e) == IF e > 1 /\ n > 0 THEN <<n, e>> ELSE None

usable(key) ==
  /\ key.kty = "RSA" /\ key.use \in {"", "sig"} /\ key.alg \in {"", "RS256"}
  /\ toRSAPublicKey(key.n, key.e) # None

(* The usable keys by kid; of two keys with one kid the last is kept. *)
parseJWKS(doc) ==
  LET kept == {i \in DOMAIN doc : usable(doc[i])}
      last(kid) == CHOOSE i \in kept : doc[i].kid = kid /\ \A j \in kept : doc[j].kid = kid => j <= i
  IN [kid \in {doc[i].kid : i \in kept} |-> toRSAPublicKey(doc[last(kid)].n, doc[last(kid)].e)]

KeySets == {parseJWKS(doc) : doc \in Documents}
NoKeys == [kid \in {} |-> None]
KeysIn(keys) == {keys[kid] : kid \in DOMAIN keys}
PublicKeys == UNION {KeysIn(keys) : keys \in KeySets}

(* A token without a kid means the only key there is. *)
keyOf(keys, kid) ==
  IF kid \in DOMAIN keys /\ kid # "" THEN keys[kid]
  ELSE IF kid = "" /\ Cardinality(DOMAIN keys) = 1
       THEN CHOOSE key \in KeysIn(keys) : TRUE
       ELSE None

ASSUME JwksVerifierAssumption ==
  /\ \A t \in Tokens : t.key # None
  /\ None \notin PublicKeys /\ None \notin Tokens /\ None \notin Nat
  /\ ClockSkew \in Nat /\ CacheTTL \in Nat /\ HTTPWait \in Nat
  /\ MaxTime \in Nat /\ MaxRotations \in Nat

VARIABLES
  clock,                  \* the time
  jwks,                   \* the key set the provider publishes
  keysByKid, cacheUntil,  \* the cache
  pc,                     \* per request: how far it has come
  token,                  \* per request: the bearer token, or None
  answer,                 \* per request: the keys the provider answered
  signingKey,             \* per request: what getSigningKey found
  asked,                  \* per request: when its fetch began
  foundAt,                \* history, per request: when its key was found
  overtaken,              \* history: requests whose fetch another refresh has overtaken
  version,                \* history: rotations so far
  cachedVersion,          \* history: the version of the key set in the cache
  answerVersion,          \* history, per request: the version of its answer
  lastSeen,               \* history, per key: the last time it was published, while it is not
  resolves                \* history, per token: since when its kid leads to its key, or None

provider == <<jwks, version, lastSeen, resolves>>
cache == <<keysByKid, cacheUntil, cachedVersion>>
fetched == <<answer, answerVersion, asked>>
vars == <<clock, provider, cache, pc, token, fetched, signingKey, foundAt, overtaken>>

Stages == {"idle", "lookup", "fetch", "answered", "again", "verify", "served", "refused"}

TypeOK ==
  /\ clock \in Nat /\ jwks \in KeySets
  /\ keysByKid \in KeySets \union {NoKeys} /\ cacheUntil \in Nat
  /\ pc \in [Requests -> Stages]
  /\ token \in [Requests -> Tokens \union {None}]
  /\ answer \in [Requests -> KeySets \union {NoKeys}]
  /\ signingKey \in [Requests -> PublicKeys \union {None}]
  /\ asked \in [Requests -> Nat] /\ foundAt \in [Requests -> Nat]
  /\ overtaken \subseteq Requests
  /\ version \in Nat /\ cachedVersion \in Nat /\ answerVersion \in [Requests -> Nat]
  /\ lastSeen \in [PublicKeys -> Nat]
  /\ resolves \in [Tokens -> Nat \union {None}]

Init ==
  /\ clock = 0 /\ jwks \in KeySets
  /\ keysByKid = NoKeys /\ cacheUntil = 0
  /\ pc = [r \in Requests |-> "idle"]
  /\ token = [r \in Requests |-> None]
  /\ answer = [r \in Requests |-> NoKeys]
  /\ signingKey = [r \in Requests |-> None]
  /\ asked = [r \in Requests |-> 0] /\ foundAt = [r \in Requests |-> 0]
  /\ overtaken = {}
  /\ version = 0 /\ cachedVersion = 0 /\ answerVersion = [r \in Requests |-> 0]
  /\ lastSeen = [key \in PublicKeys |-> 0]
  /\ resolves = [t \in Tokens |-> IF keyOf(jwks, t.kid) = t.key THEN 0 ELSE None]

Goto(r, stage) == pc' = [pc EXCEPT ![r] = stage]

----------------------------------------------------------------------------
(* The provider publishes another key set. *)
Rotate(keys) ==
  /\ version < MaxRotations /\ version' = version + 1
  /\ jwks' = keys
  /\ lastSeen' = [key \in PublicKeys |-> IF key \in KeysIn(jwks) THEN clock ELSE lastSeen[key]]
  /\ resolves' = [t \in Tokens |-> IF keyOf(keys, t.kid) # t.key THEN None
                                   ELSE IF keyOf(jwks, t.kid) = t.key THEN resolves[t]
                                   ELSE clock]
  /\ UNCHANGED <<clock, cache, pc, token, fetched, signingKey, foundAt, overtaken>>

(* Time does not pass the deadline of a fetch. *)
Tick ==
  /\ clock < MaxTime /\ clock' = clock + 1
  /\ \A r \in Requests : pc[r] \in {"fetch", "answered"} => clock < asked[r] + HTTPWait
  /\ UNCHANGED <<provider, cache, pc, token, fetched, signingKey, foundAt, overtaken>>

----------------------------------------------------------------------------
(* What can be told from the token alone: it is a bearer token of three    *)
(* parts, signed with RS256.                                               *)
extractBearerToken(t) == t # None
decodeHeader(t) == t.parts = 3 /\ t.alg = "RS256"

(* A request reaches authMiddleware. *)
authMiddleware(r, t) ==
  /\ pc[r] \in {"idle", "served", "refused"}
  /\ IF extractBearerToken(t) /\ decodeHeader(t)
     THEN Goto(r, "lookup") /\ token' = [token EXCEPT ![r] = t]
     ELSE Goto(r, "refused") /\ token' = [token EXCEPT ![r] = None]
  /\ signingKey' = [signingKey EXCEPT ![r] = None]
  /\ foundAt' = [foundAt EXCEPT ![r] = 0]
  /\ UNCHANGED <<clock, provider, cache, fetched, overtaken>>

(* The answer to a request is 401, and its local state goes. *)
Refuse(r) ==
  /\ Goto(r, "refused")
  /\ token' = [token EXCEPT ![r] = None]
  /\ signingKey' = [signingKey EXCEPT ![r] = None]
  /\ foundAt' = [foundAt EXCEPT ![r] = 0]

(* The refresh of r is over. *)
EndFetch(r) ==
  /\ answer' = [answer EXCEPT ![r] = NoKeys]
  /\ answerVersion' = [answerVersion EXCEPT ![r] = 0]
  /\ asked' = [asked EXCEPT ![r] = 0]
  /\ overtaken' = overtaken \ {r}

(* Mutant: a key set that has expired is still used. *)
getCachedKeyForever(kid) == IF keysByKid = NoKeys THEN None ELSE keyOf(keysByKid, kid)

getCachedKey(kid) ==
  IF keysByKid = NoKeys \/ clock > cacheUntil THEN None ELSE keyOf(keysByKid, kid)

(* getSigningKey: the first lookup ... *)
getSigningKey(r) ==
  LET key == getCachedKey(token[r].kid)
  IN /\ pc[r] = "lookup"
     /\ IF key # None
        THEN /\ Goto(r, "verify")
             /\ signingKey' = [signingKey EXCEPT ![r] = key]
             /\ foundAt' = [foundAt EXCEPT ![r] = clock]
             /\ UNCHANGED asked
        ELSE /\ Goto(r, "fetch")
             /\ asked' = [asked EXCEPT ![r] = clock]
             /\ UNCHANGED <<signingKey, foundAt>>
     /\ UNCHANGED <<clock, provider, cache, token, answer, answerVersion, overtaken>>

(* The provider answers with what it publishes at that moment. *)
Answer(r) ==
  /\ pc[r] = "fetch" /\ Goto(r, "answered")
  /\ answer' = [answer EXCEPT ![r] = jwks]
  /\ answerVersion' = [answerVersion EXCEPT ![r] = version]
  /\ UNCHANGED <<clock, provider, cache, token, asked, signingKey, foundAt, overtaken>>

(* Mutant: a refresh that fails empties the cache. *)
RefreshFailsEmptying(r) ==
  /\ pc[r] \in {"fetch", "answered"} /\ Refuse(r) /\ EndFetch(r)
  /\ keysByKid' = NoKeys /\ cacheUntil' = 0 /\ cachedVersion' = 0
  /\ UNCHANGED <<clock, provider>>

(* No answer in time, another status than 200, no usable key. *)
RefreshFails(r) ==
  /\ pc[r] \in {"fetch", "answered"} /\ Refuse(r) /\ EndFetch(r)
  /\ UNCHANGED <<clock, provider, cache>>

(* The requests whose fetch or second lookup a refresh of r gets ahead of. *)
Overtakes(r) == {s \in Requests \ {r} : pc[s] \in {"fetch", "answered", "again"}}

(* Mutant: a cache that has not expired is left alone. *)
refreshJWKSIfExpired(r) ==
  LET keep == keysByKid # NoKeys /\ clock <= cacheUntil
  IN /\ pc[r] = "answered" /\ answer[r] # NoKeys
     /\ Goto(r, "again")
     /\ keysByKid' = IF keep THEN keysByKid ELSE answer[r]
     /\ cachedVersion' = IF keep THEN cachedVersion ELSE answerVersion[r]
     /\ cacheUntil' = IF keep THEN cacheUntil ELSE clock + CacheTTL
     /\ overtaken' = overtaken \union Overtakes(r)
     /\ UNCHANGED <<clock, provider, token, fetched, signingKey, foundAt>>

(* The answer replaces the cache, whatever other refreshes did meanwhile. *)
refreshJWKS(r) ==
  /\ pc[r] = "answered" /\ answer[r] # NoKeys
  /\ Goto(r, "again")
  /\ keysByKid' = answer[r] /\ cachedVersion' = answerVersion[r]
  /\ cacheUntil' = clock + CacheTTL
  /\ overtaken' = overtaken \union Overtakes(r)
  /\ UNCHANGED <<clock, provider, token, fetched, signingKey, foundAt>>

(* ... and the second, after the refresh. *)
getSigningKeyAgain(r) ==
  LET key == getCachedKey(token[r].kid)
  IN /\ pc[r] = "again"
     /\ IF key # None
        THEN /\ Goto(r, "verify")
             /\ signingKey' = [signingKey EXCEPT ![r] = key]
             /\ foundAt' = [foundAt EXCEPT ![r] = clock]
             /\ UNCHANGED token
        ELSE Refuse(r)
     /\ EndFetch(r)
     /\ UNCHANGED <<clock, provider, cache>>

----------------------------------------------------------------------------
verifyRS256(t, key) == t.key = key

(* A claim that is 0 or empty is not there; a payload that does not decode has none. *)
validateClaims(t, now) ==
  /\ t.exp # 0 /\ now <= t.exp + ClockSkew
  /\ t.iat <= now + ClockSkew /\ t.authTime <= now + ClockSkew
  /\ t.iss = Issuer
  /\ ExpectedAZP # "" => t.azp = ExpectedAZP

(* The signature, the claims, and on to the handler. *)
ParseAndValidate(r) ==
  /\ pc[r] = "verify"
  /\ IF verifyRS256(token[r], signingKey[r]) /\ validateClaims(token[r], clock)
     THEN Goto(r, "served") /\ UNCHANGED <<token, signingKey, foundAt>>
     ELSE Refuse(r)
  /\ UNCHANGED <<clock, provider, cache, fetched, overtaken>>

RequestStep(r) ==
  \/ \E t \in Tokens \union {None} : authMiddleware(r, t)
  \/ getSigningKey(r) \/ Answer(r) \/ RefreshFails(r) \/ refreshJWKS(r) \/ getSigningKeyAgain(r)
  \/ ParseAndValidate(r)

Next ==
  \/ Tick
  \/ \E keys \in KeySets : Rotate(keys)
  \/ \E r \in Requests : RequestStep(r)

Spec == Init /\ [][Next]_vars

----------------------------------------------------------------------------
(* How old a key set can be while the cache still answers from it. *)
Window == HTTPWait + CacheTTL

Published(key) == key \in KeysIn(jwks)

(***************************************************************************)
(* However refreshes overlap, a request is served only under a key that    *)
(* the provider published no longer than the fetch timeout and the cache   *)
(* TTL before the key was looked up: an older answer that replaces a newer *)
(* one cannot keep a withdrawn key in use any longer than that             *)
(* (getSigningKey, refreshJWKS).                                           *)
(***************************************************************************)
KeysAreTimely ==
  \A r \in Requests :
    pc[r] = "served" =>
      \/ Published(token[r].key)
      \/ token[r].key \in PublicKeys /\ foundAt[r] <= lastSeen[token[r].key] + Window

(***************************************************************************)
(* The cache goes back to an older key set only by a refresh that another  *)
(* one has overtaken between its request and its answer (refreshJWKS).     *)
(***************************************************************************)
RollbackNeedsOverlap ==
  [][cachedVersion' < cachedVersion =>
       \E r \in overtaken : pc[r] = "answered" /\ pc'[r] = "again"]_vars

(* The token's kid led to its key when the fetch of r began, and still does. *)
KnownToProvider(r) == resolves[token[r]] # None /\ resolves[token[r]] < asked[r]

(***************************************************************************)
(* A token with valid claims is refused only if the refresh failed, if its *)
(* key was not published throughout, if another refresh replaced the cache *)
(* before the second lookup or the cache expired by then, or if the cache  *)
(* still had another key under its kid, which ends when the cache that was *)
(* filled before has expired (getSigningKey, ParseAndValidate).            *)
(***************************************************************************)
RefusedForAReason ==
  [][\A r \in Requests :
       /\ pc'[r] = "refused" /\ pc[r] \in {"lookup", "fetch", "answered", "again", "verify"}
       /\ validateClaims(token[r], clock)
       => \/ pc[r] \in {"fetch", "answered"}
          \/ pc[r] = "again" /\ (~KnownToProvider(r) \/ r \in overtaken \/ clock > cacheUntil)
          \/ /\ pc[r] = "verify"
             /\ resolves[token[r]] = None \/ foundAt[r] <= resolves[token[r]] + Window]_vars
=============================================================================
