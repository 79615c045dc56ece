--------------------------- MODULE MCJwksVerifier ---------------------------
(***************************************************************************)
(* Key 3 is published under the kid of key 2 later on, beside a key the    *)
(* parser skips and one the next entry replaces; one key set has no usable *)
(* key.  One token names its kid, one a kid that is reused and comes from  *)
(* a clock ahead of ours, one names no kid and expires, and one has the    *)
(* wrong algorithm.                                                        *)
(***************************************************************************)
EXTENDS JwksVerifier, TLC

CONSTANTS r1, r2

RSA(kid, n) == [kid |-> kid, kty |-> "RSA", use |-> "sig", alg |-> "RS256", n |-> n, e |-> 3]

MCDocuments ==
  {<<RSA("a", 2)>>,
   <<[RSA("c", 4) EXCEPT !.use = "enc"], RSA("a", 0), RSA("a", 2), RSA("a", 3), RSA("b", 4)>>,
   <<[RSA("a", 2) EXCEPT !.kty = "EC"]>>}

Token(kid, n, exp) ==
  [parts |-> 3, alg |-> "RS256", kid |-> kid, key |-> <<n, 3>>, exp |-> exp, iat |-> 0,
   authTime |-> 0, iss |-> "issuer", azp |-> "client"]

MCTokens ==
  {Token("a", 2, 9), [Token("a", 3, 9) EXCEPT !.iat = 2], Token("", 2, 1),
   [Token("a", 2, 9) EXCEPT !.alg = "HS256"]}

RequestSymmetry == Permutations(Requests)
=============================================================================
