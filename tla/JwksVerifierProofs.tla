------------------------- MODULE JwksVerifierProofs -------------------------
(* Proofs about JwksVerifier, for any number of requests, tokens and key sets. *)
EXTENDS JwksVerifier, FiniteSetTheorems, TLAPS

(* What a request on its way has found out so far. *)
Control ==
  \A r \in Requests :
    /\ pc[r] \in {"lookup", "fetch", "answered", "again", "verify", "served"} => token[r] \in Tokens
    /\ pc[r] \in {"verify", "served"} => signingKey[r] \in PublicKeys
    /\ pc[r] = "served" => token[r].key = signingKey[r]
    /\ pc[r] = "again" => answer[r] # NoKeys

(* No date lies in the future, and the cache lives for its TTL at most. *)
Dated ==
  /\ cacheUntil <= clock + CacheTTL
  /\ \A r \in Requests : asked[r] <= clock /\ foundAt[r] <= clock
  /\ \A r \in Requests : pc[r] \in {"fetch", "answered"} => clock <= asked[r] + HTTPWait
  /\ \A t \in Tokens : resolves[t] # None => resolves[t] <= clock

(* The history says which tokens the provider's key set verifies. *)
ResolvesNow == \A t \in Tokens : resolves[t] # None <=> keyOf(jwks, t.kid) = t.key

(* A key that is not published any more is known since when. *)
AnswerFresh ==
  \A r \in Requests : \A key \in KeysIn(answer[r]) :
    pc[r] = "answered" => Published(key) \/ asked[r] <= lastSeen[key]
CacheFresh ==
  \A key \in KeysIn(keysByKid) : Published(key) \/ cacheUntil <= lastSeen[key] + Window
FoundFresh ==
  \A r \in Requests :
    pc[r] \in {"verify", "served"} =>
      Published(signingKey[r]) \/ foundAt[r] <= lastSeen[signingKey[r]] + Window

(* A token that a key set does not verify has not been known for long. *)
AnswerKnows ==
  \A r \in Requests, t \in Tokens :
    /\ pc[r] \in {"answered", "again"}
    /\ resolves[t] # None /\ keyOf(answer[r], t.kid) # t.key
    => asked[r] <= resolves[t]
CacheKnows ==
  \A t \in Tokens :
    keysByKid # NoKeys /\ resolves[t] # None /\ keyOf(keysByKid, t.kid) # t.key
    => cacheUntil <= resolves[t] + Window
FoundKnows ==
  \A r \in Requests :
    pc[r] = "verify" /\ resolves[token[r]] # None /\ signingKey[r] # token[r].key
    => foundAt[r] <= resolves[token[r]] + Window

(* Unless it was overtaken, a request finds what it has put into the cache, *)
(* and its answer is no older than the cache.                               *)
Own == \A r \in Requests : pc[r] = "again" /\ r \notin overtaken => keysByKid = answer[r]
Versions ==
  /\ cachedVersion <= version
  /\ \A r \in Requests : pc[r] = "answered" => answerVersion[r] <= version
  /\ \A r \in Requests :
       pc[r] = "answered" /\ r \notin overtaken => cachedVersion <= answerVersion[r]

Inv ==
  /\ TypeOK /\ Control /\ Dated /\ ResolvesNow
  /\ AnswerFresh /\ CacheFresh /\ FoundFresh
  /\ AnswerKnows /\ CacheKnows /\ FoundKnows
  /\ Own /\ Versions

----------------------------------------------------------------------------
(* A lookup in a key set finds nothing or one of its keys. *)
LEMMA KeyOfIn ==
  ASSUME NEW keys \in KeySets \union {NoKeys}, NEW kid
  PROVE  /\ keyOf(keys, kid) = None \/ keyOf(keys, kid) \in KeysIn(keys)
         /\ KeysIn(keys) \subseteq PublicKeys
         /\ None \notin KeysIn(keys)
<1>1. KeysIn(NoKeys) = {}
  BY DEF KeysIn, NoKeys
<1>2. KeysIn(keys) \subseteq PublicKeys
  BY <1>1 DEF PublicKeys
<1> SUFFICES keyOf(keys, kid) = None \/ keyOf(keys, kid) \in KeysIn(keys)
  BY <1>2, JwksVerifierAssumption
<1>3. CASE kid \in DOMAIN keys /\ kid # ""
  BY <1>3 DEF keyOf, KeysIn
<1>4. CASE ~(kid \in DOMAIN keys /\ kid # "") /\ kid = "" /\ Cardinality(DOMAIN keys) = 1
  <2>1. DOMAIN keys # {}
    <3>1. Cardinality({}) # 1
      BY FS_EmptySet
    <3> QED BY <1>4, <3>1, Zenon
  <2>2. \E key \in KeysIn(keys) : TRUE
    BY <2>1 DEF KeysIn
  <2>3. (CHOOSE key \in KeysIn(keys) : TRUE) \in KeysIn(keys)
    BY <2>2
  <2> QED BY <1>4, <2>3 DEF keyOf
<1>5. CASE ~(kid \in DOMAIN keys /\ kid # "") /\ ~(kid = "" /\ Cardinality(DOMAIN keys) = 1)
  BY <1>5 DEF keyOf
<1> QED BY <1>3, <1>4, <1>5

(* What the cache answers, it answers in time and out of its key set. *)
LEMMA CachedKey ==
  ASSUME TypeOK, NEW kid, getCachedKey(kid) # None
  PROVE  /\ keysByKid # NoKeys /\ clock <= cacheUntil
         /\ getCachedKey(kid) = keyOf(keysByKid, kid)
         /\ getCachedKey(kid) \in KeysIn(keysByKid) /\ getCachedKey(kid) \in PublicKeys
<1>1. keysByKid \in KeySets \union {NoKeys} /\ clock \in Nat /\ cacheUntil \in Nat
  BY DEF TypeOK
<1>2. keysByKid # NoKeys /\ ~(clock > cacheUntil) /\ getCachedKey(kid) = keyOf(keysByKid, kid)
  BY DEF getCachedKey
<1> HIDE DEF getCachedKey
<1> QED BY <1>1, <1>2, KeyOfIn

(* Every step keeps the types. *)
LEMMA TypeStep ==
  ASSUME TypeOK, Control, [Next]_vars
  PROVE  TypeOK'
<1> USE JwksVerifierAssumption DEF provider, cache, fetched, Goto, Stages, TypeOK
<1>1. CASE Tick
  BY <1>1 DEF Tick
<1>2. ASSUME NEW keys \in KeySets, Rotate(keys) PROVE TypeOK'
  <2>1. lastSeen' \in [PublicKeys -> Nat]
    BY <1>2 DEF Rotate
  <2>2. resolves' \in [Tokens -> Nat \union {None}]
    BY <1>2 DEF Rotate
  <2> QED BY <1>2, <2>1, <2>2 DEF Rotate
<1>3. ASSUME NEW r \in Requests, NEW t \in Tokens \union {None}, authMiddleware(r, t) PROVE TypeOK'
  BY <1>3 DEF authMiddleware
<1>4. ASSUME NEW r \in Requests, getSigningKey(r) PROVE TypeOK'
  <2>1. CASE getCachedKey(token[r].kid) # None
    <3>1. getCachedKey(token[r].kid) \in PublicKeys
      BY <2>1, CachedKey
    <3> QED BY <1>4, <2>1, <3>1 DEF getSigningKey
  <2>2. CASE getCachedKey(token[r].kid) = None
    BY <1>4, <2>2 DEF getSigningKey
  <2> QED BY <2>1, <2>2
<1>5. ASSUME NEW r \in Requests, Answer(r) PROVE TypeOK'
  BY <1>5 DEF Answer
<1>6. ASSUME NEW r \in Requests, RefreshFails(r) PROVE TypeOK'
  BY <1>6 DEF RefreshFails, Refuse, EndFetch
<1>7. ASSUME NEW r \in Requests, refreshJWKS(r) PROVE TypeOK'
  BY <1>7 DEF refreshJWKS, Overtakes
<1>8. ASSUME NEW r \in Requests, getSigningKeyAgain(r) PROVE TypeOK'
  <2>1. CASE getCachedKey(token[r].kid) # None
    <3>1. getCachedKey(token[r].kid) \in PublicKeys
      BY <2>1, CachedKey
    <3> QED BY <1>8, <2>1, <3>1 DEF getSigningKeyAgain, EndFetch
  <2>2. CASE getCachedKey(token[r].kid) = None
    BY <1>8, <2>2 DEF getSigningKeyAgain, EndFetch, Refuse
  <2> QED BY <2>1, <2>2
<1>9. ASSUME NEW r \in Requests, ParseAndValidate(r) PROVE TypeOK'
  BY <1>9 DEF ParseAndValidate, Refuse
<1>10. CASE UNCHANGED vars
  BY <1>10 DEF vars
<1> QED BY <1>1, <1>2, <1>3, <1>4, <1>5, <1>6, <1>7, <1>8, <1>9, <1>10 DEF Next, RequestStep

(* Every step keeps what a request on its way has found out. *)
LEMMA ControlStep ==
  ASSUME TypeOK, Control, [Next]_vars
  PROVE  Control'
<1> USE JwksVerifierAssumption DEF provider, cache, fetched, Goto, Control, TypeOK
<1>1. CASE Tick
  BY <1>1 DEF Tick
<1>2. ASSUME NEW keys \in KeySets, Rotate(keys) PROVE Control'
  BY <1>2 DEF Rotate
<1>3. ASSUME NEW r \in Requests, NEW t \in Tokens \union {None}, authMiddleware(r, t) PROVE Control'
  BY <1>3 DEF authMiddleware, extractBearerToken
<1>4. ASSUME NEW r \in Requests, getSigningKey(r) PROVE Control'
  <2>1. CASE getCachedKey(token[r].kid) # None
    <3>1. getCachedKey(token[r].kid) \in PublicKeys
      BY <2>1, CachedKey
    <3> QED BY <1>4, <2>1, <3>1 DEF getSigningKey
  <2>2. CASE getCachedKey(token[r].kid) = None
    BY <1>4, <2>2 DEF getSigningKey
  <2> QED BY <2>1, <2>2
<1>5. ASSUME NEW r \in Requests, Answer(r) PROVE Control'
  BY <1>5 DEF Answer
<1>6. ASSUME NEW r \in Requests, RefreshFails(r) PROVE Control'
  BY <1>6 DEF RefreshFails, Refuse, EndFetch
<1>7. ASSUME NEW r \in Requests, refreshJWKS(r) PROVE Control'
  BY <1>7 DEF refreshJWKS
<1>8. ASSUME NEW r \in Requests, getSigningKeyAgain(r) PROVE Control'
  <2>1. CASE getCachedKey(token[r].kid) # None
    <3>1. getCachedKey(token[r].kid) \in PublicKeys
      BY <2>1, CachedKey
    <3> QED BY <1>8, <2>1, <3>1 DEF getSigningKeyAgain, EndFetch
  <2>2. CASE getCachedKey(token[r].kid) = None
    BY <1>8, <2>2 DEF getSigningKeyAgain, EndFetch, Refuse
  <2> QED BY <2>1, <2>2
<1>9. ASSUME NEW r \in Requests, ParseAndValidate(r) PROVE Control'
  BY <1>9 DEF ParseAndValidate, Refuse, verifyRS256
<1>10. CASE UNCHANGED vars
  BY <1>10 DEF vars
<1> QED BY <1>1, <1>2, <1>3, <1>4, <1>5, <1>6, <1>7, <1>8, <1>9, <1>10 DEF Next, RequestStep

----------------------------------------------------------------------------
(* The step of a request that neither looks a key up nor touches the cache. *)
PlainStep(r) ==
  \/ \E t \in Tokens \union {None} : authMiddleware(r, t)
  \/ RefreshFails(r) \/ ParseAndValidate(r)

(* The actions of Next, one by one. *)
LEMMA NextCases ==
  ASSUME [Next]_vars
  PROVE  \/ Tick
         \/ \E keys \in KeySets : Rotate(keys)
         \/ \E r \in Requests : PlainStep(r)
         \/ \E r \in Requests : getSigningKey(r)
         \/ \E r \in Requests : Answer(r)
         \/ \E r \in Requests : refreshJWKS(r)
         \/ \E r \in Requests : getSigningKeyAgain(r)
         \/ UNCHANGED vars
  BY DEF Next, RequestStep, PlainStep

(* No step dates anything into the future. *)
LEMMA DatedStep ==
  ASSUME TypeOK, Control, Dated, [Next]_vars
  PROVE  Dated'
<1> USE JwksVerifierAssumption DEF provider, cache, fetched, Goto, TypeOK, Dated
<1>1. CASE Tick
  BY <1>1 DEF Tick
<1>2. ASSUME NEW keys \in KeySets, Rotate(keys) PROVE Dated'
  BY <1>2 DEF Rotate
<1>3. ASSUME NEW r \in Requests, PlainStep(r) PROVE Dated'
  BY <1>3 DEF PlainStep, authMiddleware, RefreshFails, ParseAndValidate, Refuse, EndFetch
<1>4. ASSUME NEW r \in Requests, getSigningKey(r) PROVE Dated'
  BY <1>4 DEF getSigningKey
<1>5. ASSUME NEW r \in Requests, Answer(r) PROVE Dated'
  BY <1>5 DEF Answer
<1>6. ASSUME NEW r \in Requests, refreshJWKS(r) PROVE Dated'
  BY <1>6 DEF refreshJWKS, Overtakes
<1>7. ASSUME NEW r \in Requests, getSigningKeyAgain(r) PROVE Dated'
  BY <1>7 DEF getSigningKeyAgain, EndFetch, Refuse
<1>8. CASE UNCHANGED vars
  BY <1>8 DEF vars
<1> QED BY <1>1, <1>2, <1>3, <1>4, <1>5, <1>6, <1>7, <1>8, NextCases

(* Only Rotate changes what the tokens lead to. *)
LEMMA ResolvesStep ==
  ASSUME TypeOK, ResolvesNow, [Next]_vars
  PROVE  ResolvesNow'
<1> USE JwksVerifierAssumption DEF provider, cache, fetched, Goto, TypeOK, ResolvesNow
<1>1. CASE Tick
  BY <1>1 DEF Tick
<1>2. ASSUME NEW keys \in KeySets, Rotate(keys) PROVE ResolvesNow'
  BY <1>2 DEF Rotate
<1>3. ASSUME NEW r \in Requests, PlainStep(r) PROVE ResolvesNow'
  BY <1>3 DEF PlainStep, authMiddleware, RefreshFails, ParseAndValidate, Refuse, EndFetch
<1>4. ASSUME NEW r \in Requests, getSigningKey(r) PROVE ResolvesNow'
  BY <1>4 DEF getSigningKey
<1>5. ASSUME NEW r \in Requests, Answer(r) PROVE ResolvesNow'
  BY <1>5 DEF Answer
<1>6. ASSUME NEW r \in Requests, refreshJWKS(r) PROVE ResolvesNow'
  BY <1>6 DEF refreshJWKS, Overtakes
<1>7. ASSUME NEW r \in Requests, getSigningKeyAgain(r) PROVE ResolvesNow'
  BY <1>7 DEF getSigningKeyAgain, EndFetch, Refuse
<1>8. CASE UNCHANGED vars
  BY <1>8 DEF vars
<1> QED BY <1>1, <1>2, <1>3, <1>4, <1>5, <1>6, <1>7, <1>8, NextCases

(* A key of an answer is published, or was when the fetch began or later. *)
LEMMA AnswerFreshStep ==
  ASSUME TypeOK, Dated, AnswerFresh, [Next]_vars
  PROVE  AnswerFresh'
<1> USE JwksVerifierAssumption DEF provider, cache, fetched, Goto, TypeOK, AnswerFresh
<1>1. CASE Tick
  BY <1>1 DEF Tick, Published
<1>2. ASSUME NEW keys \in KeySets, Rotate(keys) PROVE AnswerFresh'
  <2>1. ASSUME NEW r \in Requests, NEW key \in KeysIn(answer[r]), pc[r] = "answered"
        PROVE  key \in KeysIn(keys) \/ asked[r] <= lastSeen'[key]
    <3>1. key \in PublicKeys
      BY KeyOfIn
    <3> QED BY <1>2, <2>1, <3>1 DEF Rotate, Published, Dated
  <2> QED BY <1>2, <2>1 DEF Rotate, Published
<1>3. ASSUME NEW r \in Requests, PlainStep(r) PROVE AnswerFresh'
  BY <1>3 DEF PlainStep, authMiddleware, RefreshFails, ParseAndValidate, Refuse, EndFetch, Published
<1>4. ASSUME NEW r \in Requests, getSigningKey(r) PROVE AnswerFresh'
  BY <1>4 DEF getSigningKey, Published
<1>5. ASSUME NEW r \in Requests, Answer(r) PROVE AnswerFresh'
  BY <1>5 DEF Answer, Published
<1>6. ASSUME NEW r \in Requests, refreshJWKS(r) PROVE AnswerFresh'
  BY <1>6 DEF refreshJWKS, Overtakes, Published
<1>7. ASSUME NEW r \in Requests, getSigningKeyAgain(r) PROVE AnswerFresh'
  BY <1>7 DEF getSigningKeyAgain, EndFetch, Refuse, Published
<1>8. CASE UNCHANGED vars
  BY <1>8 DEF vars, Published
<1> QED BY <1>1, <1>2, <1>3, <1>4, <1>5, <1>6, <1>7, <1>8, NextCases

(* A key of the cache is published, or was within the window before the cache expires. *)
LEMMA CacheFreshStep ==
  ASSUME TypeOK, Dated, AnswerFresh, CacheFresh, [Next]_vars
  PROVE  CacheFresh'
<1> USE JwksVerifierAssumption DEF provider, cache, fetched, Goto, TypeOK, CacheFresh
<1>1. CASE Tick
  BY <1>1 DEF Tick, Published
<1>2. ASSUME NEW keys \in KeySets, Rotate(keys) PROVE CacheFresh'
  <2>1. ASSUME NEW key \in KeysIn(keysByKid)
        PROVE  key \in KeysIn(keys) \/ cacheUntil <= lastSeen'[key] + Window
    <3>1. key \in PublicKeys
      BY KeyOfIn
    <3> QED BY <1>2, <2>1, <3>1 DEF Rotate, Published, Dated, Window
  <2> QED BY <1>2, <2>1 DEF Rotate, Published
<1>3. ASSUME NEW r \in Requests, PlainStep(r) PROVE CacheFresh'
  BY <1>3 DEF PlainStep, authMiddleware, RefreshFails, ParseAndValidate, Refuse, EndFetch, Published
<1>4. ASSUME NEW r \in Requests, getSigningKey(r) PROVE CacheFresh'
  BY <1>4 DEF getSigningKey, Published
<1>5. ASSUME NEW r \in Requests, Answer(r) PROVE CacheFresh'
  BY <1>5 DEF Answer, Published
<1>6. ASSUME NEW r \in Requests, refreshJWKS(r) PROVE CacheFresh'
  <2>1. ASSUME NEW key \in KeysIn(answer[r])
        PROVE  Published(key) \/ clock + CacheTTL <= lastSeen[key] + Window
    <3>1. key \in PublicKeys
      BY KeyOfIn
    <3> QED BY <1>6, <2>1, <3>1 DEF refreshJWKS, AnswerFresh, Dated, Window
  <2> QED BY <1>6, <2>1 DEF refreshJWKS, Published
<1>7. ASSUME NEW r \in Requests, getSigningKeyAgain(r) PROVE CacheFresh'
  BY <1>7 DEF getSigningKeyAgain, EndFetch, Refuse, Published
<1>8. CASE UNCHANGED vars
  BY <1>8 DEF vars, Published
<1> QED BY <1>1, <1>2, <1>3, <1>4, <1>5, <1>6, <1>7, <1>8, NextCases

(* A key that was found is published, or was within the window before. *)
LEMMA FoundFreshStep ==
  ASSUME TypeOK, Control, Dated, CacheFresh, FoundFresh, [Next]_vars
  PROVE  FoundFresh'
<1> USE JwksVerifierAssumption DEF provider, cache, fetched, Goto, TypeOK, FoundFresh
<1>1. CASE Tick
  BY <1>1 DEF Tick, Published
<1>2. ASSUME NEW keys \in KeySets, Rotate(keys) PROVE FoundFresh'
  <2>1. ASSUME NEW r \in Requests, pc[r] \in {"verify", "served"}
        PROVE  signingKey[r] \in KeysIn(keys) \/ foundAt[r] <= lastSeen'[signingKey[r]] + Window
    BY <1>2, <2>1 DEF Rotate, Published, Dated, Control, Window
  <2> QED BY <1>2, <2>1 DEF Rotate, Published
<1>3. ASSUME NEW r \in Requests, PlainStep(r) PROVE FoundFresh'
  BY <1>3 DEF PlainStep, authMiddleware, RefreshFails, ParseAndValidate, Refuse, EndFetch, Published
<1>4. ASSUME NEW r \in Requests, getSigningKey(r) PROVE FoundFresh'
  <2>1. CASE getCachedKey(token[r].kid) # None
    <3>1. /\ getCachedKey(token[r].kid) \in KeysIn(keysByKid) /\ clock <= cacheUntil
          /\ getCachedKey(token[r].kid) \in PublicKeys
      BY <2>1, CachedKey
    <3>2. \/ Published(getCachedKey(token[r].kid))
          \/ clock <= lastSeen[getCachedKey(token[r].kid)] + Window
      BY <3>1 DEF CacheFresh, Window
    <3> QED BY <1>4, <2>1, <3>2 DEF getSigningKey, Published
  <2>2. CASE getCachedKey(token[r].kid) = None
    BY <1>4, <2>2 DEF getSigningKey, Published
  <2> QED BY <2>1, <2>2
<1>5. ASSUME NEW r \in Requests, Answer(r) PROVE FoundFresh'
  BY <1>5 DEF Answer, Published
<1>6. ASSUME NEW r \in Requests, refreshJWKS(r) PROVE FoundFresh'
  BY <1>6 DEF refreshJWKS, Overtakes, Published
<1>7. ASSUME NEW r \in Requests, getSigningKeyAgain(r) PROVE FoundFresh'
  <2>1. CASE getCachedKey(token[r].kid) # None
    <3>1. /\ getCachedKey(token[r].kid) \in KeysIn(keysByKid) /\ clock <= cacheUntil
          /\ getCachedKey(token[r].kid) \in PublicKeys
      BY <2>1, CachedKey
    <3>2. \/ Published(getCachedKey(token[r].kid))
          \/ clock <= lastSeen[getCachedKey(token[r].kid)] + Window
      BY <3>1 DEF CacheFresh, Window
    <3> QED BY <1>7, <2>1, <3>2 DEF getSigningKeyAgain, EndFetch, Refuse, Published
  <2>2. CASE getCachedKey(token[r].kid) = None
    BY <1>7, <2>2 DEF getSigningKeyAgain, EndFetch, Refuse, Published
  <2> QED BY <2>1, <2>2
<1>8. CASE UNCHANGED vars
  BY <1>8 DEF vars, Published
<1> QED BY <1>1, <1>2, <1>3, <1>4, <1>5, <1>6, <1>7, <1>8, NextCases

(* A token that led to its key before the fetch is verified by the answer. *)
LEMMA AnswerKnowsStep ==
  ASSUME TypeOK, Dated, ResolvesNow, AnswerKnows, [Next]_vars
  PROVE  AnswerKnows'
<1> USE JwksVerifierAssumption DEF provider, cache, fetched, Goto, TypeOK, AnswerKnows
<1>1. CASE Tick
  BY <1>1 DEF Tick
<1>2. ASSUME NEW keys \in KeySets, Rotate(keys) PROVE AnswerKnows'
  <2>1. ASSUME NEW r \in Requests, NEW t \in Tokens, pc[r] \in {"answered", "again"},
               resolves'[t] # None, keyOf(answer[r], t.kid) # t.key
        PROVE  asked[r] <= resolves'[t]
    BY <1>2, <2>1 DEF Rotate, Dated, ResolvesNow
  <2> QED BY <1>2, <2>1 DEF Rotate
<1>3. ASSUME NEW r \in Requests, PlainStep(r) PROVE AnswerKnows'
  BY <1>3 DEF PlainStep, authMiddleware, RefreshFails, ParseAndValidate, Refuse, EndFetch
<1>4. ASSUME NEW r \in Requests, getSigningKey(r) PROVE AnswerKnows'
  BY <1>4 DEF getSigningKey
<1>5. ASSUME NEW r \in Requests, Answer(r) PROVE AnswerKnows'
  BY <1>5 DEF Answer, ResolvesNow
<1>6. ASSUME NEW r \in Requests, refreshJWKS(r) PROVE AnswerKnows'
  BY <1>6 DEF refreshJWKS, Overtakes
<1>7. ASSUME NEW r \in Requests, getSigningKeyAgain(r) PROVE AnswerKnows'
  BY <1>7 DEF getSigningKeyAgain, EndFetch, Refuse
<1>8. CASE UNCHANGED vars
  BY <1>8 DEF vars
<1> QED BY <1>1, <1>2, <1>3, <1>4, <1>5, <1>6, <1>7, <1>8, NextCases

(* A token the cache does not verify led nowhere when its key set was fetched. *)
LEMMA CacheKnowsStep ==
  ASSUME TypeOK, Dated, ResolvesNow, AnswerKnows, CacheKnows, [Next]_vars
  PROVE  CacheKnows'
<1> USE JwksVerifierAssumption DEF provider, cache, fetched, Goto, TypeOK, CacheKnows
<1>1. CASE Tick
  BY <1>1 DEF Tick
<1>2. ASSUME NEW keys \in KeySets, Rotate(keys) PROVE CacheKnows'
  <2>1. ASSUME NEW t \in Tokens, keysByKid # NoKeys,
               resolves'[t] # None, keyOf(keysByKid, t.kid) # t.key
        PROVE  cacheUntil <= resolves'[t] + Window
    BY <1>2, <2>1 DEF Rotate, Dated, ResolvesNow, Window
  <2> QED BY <1>2, <2>1 DEF Rotate
<1>3. ASSUME NEW r \in Requests, PlainStep(r) PROVE CacheKnows'
  BY <1>3 DEF PlainStep, authMiddleware, RefreshFails, ParseAndValidate, Refuse, EndFetch
<1>4. ASSUME NEW r \in Requests, getSigningKey(r) PROVE CacheKnows'
  BY <1>4 DEF getSigningKey
<1>5. ASSUME NEW r \in Requests, Answer(r) PROVE CacheKnows'
  BY <1>5 DEF Answer
<1>6. ASSUME NEW r \in Requests, refreshJWKS(r) PROVE CacheKnows'
  <2>1. ASSUME NEW t \in Tokens, resolves[t] # None, keyOf(answer[r], t.kid) # t.key
        PROVE  clock + CacheTTL <= resolves[t] + Window
    <3>1. asked[r] <= resolves[t] /\ clock <= asked[r] + HTTPWait
      BY <1>6, <2>1 DEF refreshJWKS, AnswerKnows, Dated
    <3> QED BY <2>1, <3>1 DEF Window
  <2> QED BY <1>6, <2>1 DEF refreshJWKS
<1>7. ASSUME NEW r \in Requests, getSigningKeyAgain(r) PROVE CacheKnows'
  BY <1>7 DEF getSigningKeyAgain, EndFetch, Refuse
<1>8. CASE UNCHANGED vars
  BY <1>8 DEF vars
<1> QED BY <1>1, <1>2, <1>3, <1>4, <1>5, <1>6, <1>7, <1>8, NextCases

(* A token whose lookup found another key led nowhere a window before. *)
LEMMA FoundKnowsStep ==
  ASSUME TypeOK, Control, Dated, ResolvesNow, CacheKnows, FoundKnows, [Next]_vars
  PROVE  FoundKnows'
<1> USE JwksVerifierAssumption DEF provider, cache, fetched, Goto, TypeOK, FoundKnows
<1>1. CASE Tick
  BY <1>1 DEF Tick
<1>2. ASSUME NEW keys \in KeySets, Rotate(keys) PROVE FoundKnows'
  <2>1. ASSUME NEW r \in Requests, pc[r] = "verify", resolves'[token[r]] # None,
               signingKey[r] # token[r].key
        PROVE  foundAt[r] <= resolves'[token[r]] + Window
    BY <1>2, <2>1 DEF Rotate, Dated, ResolvesNow, Control, Window
  <2> QED BY <1>2, <2>1 DEF Rotate
<1>3. ASSUME NEW r \in Requests, PlainStep(r) PROVE FoundKnows'
  BY <1>3 DEF PlainStep, authMiddleware, RefreshFails, ParseAndValidate, Refuse, EndFetch
<1>4. ASSUME NEW r \in Requests, getSigningKey(r) PROVE FoundKnows'
  <2>1. CASE getCachedKey(token[r].kid) # None
    <3>1. /\ keysByKid # NoKeys /\ clock <= cacheUntil
          /\ getCachedKey(token[r].kid) = keyOf(keysByKid, token[r].kid)
      BY <2>1, CachedKey
    <3>2. token[r] \in Tokens
      BY <1>4 DEF Control, getSigningKey
    <3>3. resolves[token[r]] # None /\ getCachedKey(token[r].kid) # token[r].key
          => clock <= resolves[token[r]] + Window
      BY <3>1, <3>2 DEF CacheKnows, Window
    <3> QED BY <1>4, <2>1, <3>3 DEF getSigningKey
  <2>2. CASE getCachedKey(token[r].kid) = None
    BY <1>4, <2>2 DEF getSigningKey
  <2> QED BY <2>1, <2>2
<1>5. ASSUME NEW r \in Requests, Answer(r) PROVE FoundKnows'
  BY <1>5 DEF Answer
<1>6. ASSUME NEW r \in Requests, refreshJWKS(r) PROVE FoundKnows'
  BY <1>6 DEF refreshJWKS, Overtakes
<1>7. ASSUME NEW r \in Requests, getSigningKeyAgain(r) PROVE FoundKnows'
  <2>1. CASE getCachedKey(token[r].kid) # None
    <3>1. /\ keysByKid # NoKeys /\ clock <= cacheUntil
          /\ getCachedKey(token[r].kid) = keyOf(keysByKid, token[r].kid)
      BY <2>1, CachedKey
    <3>2. token[r] \in Tokens
      BY <1>7 DEF Control, getSigningKeyAgain, EndFetch, Refuse
    <3>3. resolves[token[r]] # None /\ getCachedKey(token[r].kid) # token[r].key
          => clock <= resolves[token[r]] + Window
      BY <3>1, <3>2 DEF CacheKnows, Window
    <3> QED BY <1>7, <2>1, <3>3 DEF getSigningKeyAgain, EndFetch, Refuse
  <2>2. CASE getCachedKey(token[r].kid) = None
    BY <1>7, <2>2 DEF getSigningKeyAgain, EndFetch, Refuse
  <2> QED BY <2>1, <2>2
<1>8. CASE UNCHANGED vars
  BY <1>8 DEF vars
<1> QED BY <1>1, <1>2, <1>3, <1>4, <1>5, <1>6, <1>7, <1>8, NextCases

(* Only another refresh takes a request's own answer out of the cache. *)
LEMMA OwnStep ==
  ASSUME TypeOK, Own, [Next]_vars
  PROVE  Own'
<1> USE JwksVerifierAssumption DEF provider, cache, fetched, Goto, TypeOK, Own
<1>1. CASE Tick
  BY <1>1 DEF Tick
<1>2. ASSUME NEW keys \in KeySets, Rotate(keys) PROVE Own'
  BY <1>2 DEF Rotate
<1>3. ASSUME NEW r \in Requests, PlainStep(r) PROVE Own'
  BY <1>3 DEF PlainStep, authMiddleware, RefreshFails, ParseAndValidate, Refuse, EndFetch
<1>4. ASSUME NEW r \in Requests, getSigningKey(r) PROVE Own'
  BY <1>4 DEF getSigningKey
<1>5. ASSUME NEW r \in Requests, Answer(r) PROVE Own'
  BY <1>5 DEF Answer
<1>6. ASSUME NEW r \in Requests, refreshJWKS(r) PROVE Own'
  BY <1>6 DEF refreshJWKS, Overtakes
<1>7. ASSUME NEW r \in Requests, getSigningKeyAgain(r) PROVE Own'
  BY <1>7 DEF getSigningKeyAgain, EndFetch, Refuse
<1>8. CASE UNCHANGED vars
  BY <1>8 DEF vars
<1> QED BY <1>1, <1>2, <1>3, <1>4, <1>5, <1>6, <1>7, <1>8, NextCases

(* Only an overtaken answer is older than the cache. *)
LEMMA VersionsStep ==
  ASSUME TypeOK, Versions, [Next]_vars
  PROVE  Versions'
<1> USE JwksVerifierAssumption DEF provider, cache, fetched, Goto, TypeOK, Versions
<1>1. CASE Tick
  BY <1>1 DEF Tick
<1>2. ASSUME NEW keys \in KeySets, Rotate(keys) PROVE Versions'
  BY <1>2 DEF Rotate
<1>3. ASSUME NEW r \in Requests, PlainStep(r) PROVE Versions'
  BY <1>3 DEF PlainStep, authMiddleware, RefreshFails, ParseAndValidate, Refuse, EndFetch
<1>4. ASSUME NEW r \in Requests, getSigningKey(r) PROVE Versions'
  BY <1>4 DEF getSigningKey
<1>5. ASSUME NEW r \in Requests, Answer(r) PROVE Versions'
  BY <1>5 DEF Answer
<1>6. ASSUME NEW r \in Requests, refreshJWKS(r) PROVE Versions'
  BY <1>6 DEF refreshJWKS, Overtakes
<1>7. ASSUME NEW r \in Requests, getSigningKeyAgain(r) PROVE Versions'
  BY <1>7 DEF getSigningKeyAgain, EndFetch, Refuse
<1>8. CASE UNCHANGED vars
  BY <1>8 DEF vars
<1> QED BY <1>1, <1>2, <1>3, <1>4, <1>5, <1>6, <1>7, <1>8, NextCases

----------------------------------------------------------------------------
(* The initial states satisfy the invariant: the cache is empty, and no request has begun. *)
LEMMA InvInit ==
  ASSUME Init
  PROVE  Inv
<1> USE JwksVerifierAssumption DEF Init
<1>1. TypeOK
  BY DEF TypeOK, Stages
<1>2. Control /\ Dated /\ ResolvesNow
  BY DEF Control, Dated, ResolvesNow
<1>3. CacheFresh
  BY DEF CacheFresh, KeysIn, NoKeys
<1>4. AnswerFresh /\ FoundFresh /\ AnswerKnows /\ CacheKnows /\ FoundKnows /\ Own /\ Versions
  BY DEF AnswerFresh, FoundFresh, AnswerKnows, CacheKnows, FoundKnows, Own, Versions
<1> QED BY <1>1, <1>2, <1>3, <1>4 DEF Inv

(***************************************************************************)
(* Inv is an inductive invariant of the verifier.                          *)
(***************************************************************************)
THEOREM VerifierInvariant == Spec => []Inv
<1>1. Init => Inv
  BY InvInit
<1>2. Inv /\ [Next]_vars => Inv'
  BY TypeStep, ControlStep, DatedStep, ResolvesStep, AnswerFreshStep, CacheFreshStep,
     FoundFreshStep, AnswerKnowsStep, CacheKnowsStep, FoundKnowsStep, OwnStep, VersionsStep DEF Inv
<1> QED BY <1>1, <1>2, PTL DEF Spec

(***************************************************************************)
(* The types hold always; so does that a lookup never hands out a nil key. *)
(***************************************************************************)
THEOREM TypeCorrect == Spec => []TypeOK
<1>1. Inv => TypeOK
  BY DEF Inv
<1> QED BY <1>1, VerifierInvariant, PTL

(***************************************************************************)
(* A request is served only under a key the provider published at most     *)
(* HTTPWait + CacheTTL before the lookup, however many refreshes overlap.  *)
(***************************************************************************)
THEOREM TimelyKeys == Spec => []KeysAreTimely
<1>1. Inv => KeysAreTimely
  BY DEF Inv, Control, FoundFresh, KeysAreTimely
<1> QED BY <1>1, VerifierInvariant, PTL

(* The step at which the cache goes back belongs to an overtaken request. *)
LEMMA RollbackStep ==
  ASSUME Inv, [Next]_vars, cachedVersion' < cachedVersion
  PROVE  \E r \in overtaken : pc[r] = "answered" /\ pc'[r] = "again"
<1> USE DEF provider, cache, fetched, Inv, TypeOK
<1>1. CASE \E r \in Requests : refreshJWKS(r)
  <2>1. PICK r \in Requests : refreshJWKS(r)
    BY <1>1
  <2>2. r \in overtaken
    BY <2>1 DEF refreshJWKS, Versions
  <2> QED BY <2>1, <2>2 DEF refreshJWKS, Goto
<1>2. CASE ~\E r \in Requests : refreshJWKS(r)
  <2>1. cachedVersion' = cachedVersion
    BY <1>2, NextCases DEF PlainStep, Tick, Rotate, authMiddleware, RefreshFails, ParseAndValidate,
       getSigningKey, Answer, getSigningKeyAgain, vars
  <2> QED BY <2>1
<1> QED BY <1>1, <1>2

(***************************************************************************)
(* An older key set replaces a newer one only by a refresh another one has *)
(* overtaken.                                                              *)
(***************************************************************************)
THEOREM Rollback == Spec => RollbackNeedsOverlap
<1>1. Inv /\ [Next]_vars => [cachedVersion' < cachedVersion =>
                               \E r \in overtaken : pc[r] = "answered" /\ pc'[r] = "again"]_vars
  BY RollbackStep
<1> QED BY <1>1, VerifierInvariant, PTL DEF Spec, RollbackNeedsOverlap

(* One refusal of a token with valid claims, by where the request stands. *)
LEMMA RefusalStep ==
  ASSUME Inv, [Next]_vars, NEW r \in Requests,
         pc'[r] = "refused", pc[r] \in {"lookup", "fetch", "answered", "again", "verify"},
         validateClaims(token[r], clock)
  PROVE  \/ pc[r] \in {"fetch", "answered"}
         \/ pc[r] = "again" /\ (~KnownToProvider(r) \/ r \in overtaken \/ clock > cacheUntil)
         \/ /\ pc[r] = "verify"
            /\ resolves[token[r]] = None \/ foundAt[r] <= resolves[token[r]] + Window
<1> USE DEF Inv, Goto
<1>1. token[r] \in Tokens /\ pc \in [Requests -> Stages]
  BY DEF Control, TypeOK
<1>2. \/ RefreshFails(r) \/ getSigningKeyAgain(r) \/ ParseAndValidate(r)
  BY <1>1, NextCases DEF PlainStep, Tick, Rotate, authMiddleware, RefreshFails, ParseAndValidate,
     Refuse, getSigningKey, Answer, refreshJWKS, getSigningKeyAgain, vars
<1>3. CASE RefreshFails(r)
  BY <1>3 DEF RefreshFails
<1>4. CASE getSigningKeyAgain(r)
  <2> SUFFICES ASSUME KnownToProvider(r), r \notin overtaken, ~(clock > cacheUntil) PROVE FALSE
    BY <1>4 DEF getSigningKeyAgain
  <2>1. getCachedKey(token[r].kid) = None /\ pc[r] = "again"
    BY <1>1, <1>4 DEF getSigningKeyAgain
  <2>2. keysByKid = answer[r] /\ answer[r] # NoKeys
    BY <2>1 DEF Own, Control
  <2>3. keyOf(answer[r], token[r].kid) = None
    BY <2>1, <2>2 DEF getCachedKey
  <2>4. token[r].key # None
    BY <1>1, JwksVerifierAssumption
  <2>5. asked[r] <= resolves[token[r]]
    BY <1>1, <2>1, <2>3, <2>4 DEF AnswerKnows, KnownToProvider
  <2>6. asked[r] \in Nat /\ resolves[token[r]] \in Nat
    BY <1>1 DEF TypeOK, KnownToProvider
  <2> QED BY <2>5, <2>6 DEF KnownToProvider
<1>5. CASE ParseAndValidate(r)
  <2>1. pc[r] = "verify" /\ signingKey[r] # token[r].key
    BY <1>1, <1>5 DEF ParseAndValidate, verifyRS256
  <2> QED BY <2>1 DEF FoundKnows
<1> QED BY <1>2, <1>3, <1>4, <1>5

(***************************************************************************)
(* A token with valid claims is refused only for one of the listed reasons. *)
(***************************************************************************)
THEOREM Refusals == Spec => RefusedForAReason
<1> DEFINE Reason ==
      \A r \in Requests :
        /\ pc'[r] = "refused" /\ pc[r] \in {"lookup", "fetch", "answered", "again", "verify"}
        /\ validateClaims(token[r], clock)
        => \/ pc[r] \in {"fetch", "answered"}
           \/ pc[r] = "again" /\ (~KnownToProvider(r) \/ r \in overtaken \/ clock > cacheUntil)
           \/ /\ pc[r] = "verify"
              /\ resolves[token[r]] = None \/ foundAt[r] <= resolves[token[r]] + Window
<1>1. Inv /\ [Next]_vars => [Reason]_vars
  BY RefusalStep
<1> QED BY <1>1, VerifierInvariant, PTL DEF Spec, RefusedForAReason
=============================================================================
