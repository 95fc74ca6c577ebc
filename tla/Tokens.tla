-------------------------------- MODULE Tokens --------------------------------
(***************************************************************************)
(* protocols/: the library's own JWT (jwt.py), the RFC 9964 JWT            *)
(* (standard_jwt.py), COSE_Sign1 (cose.py) and the certificate co-signature*)
(* (x509.py): what each of them signs, under which context, and what it    *)
(* checks, in which order, before it accepts.                              *)
(***************************************************************************)
EXTENDS KeyDocuments

CONSTANT Skew    \* _CLOCK_SKEW_SECONDS, in the unit of the clock

ASSUME SkewAssumption == Skew \in Nat

(* A claim that holds a time; JSON can also hold text, or a number without an
   end (Infinity). *)
Number(t) == [is |-> "number", at |-> t]
Absent == [is |-> "absent", at |-> 0]
Text == [is |-> "text", at |-> 0]
Unending == [is |-> "unending", at |-> 0]

(* What the verifier asks for; "any" stands for None. *)
Expect(issuer, audience, exp) == [issuer |-> issuer, audience |-> audience, exp |-> exp]

JwtContext == Str(<<"jwt">>)
CosigContext == Str(<<"qs-x509-cosig">>)

(* The claims a token gets: the caller's replace the automatic ones. *)
FullClaims(caller, issuer, expiresIn, now) ==
  [exp |-> IF caller.exp # Absent THEN caller.exp
           ELSE IF expiresIn > 0 THEN Number(now + expiresIn) ELSE Absent,
   nbf |-> caller.nbf,
   iss |-> IF caller.iss # "any" THEN caller.iss ELSE issuer,
   aud |-> caller.aud,
   iat |-> now]

(* header "." payload; it starts with the letter e, byte 101. *)
SigningInput(header, claims) == Byte(101) \o Encoded(header) \o Encoded(claims)

NotExpired(claims, now) ==
  /\ claims.exp.is # "text"
  /\ claims.exp.is = "number" => now <= claims.exp.at + Skew
Started(claims, now) ==
  /\ claims.nbf.is # "text"
  /\ claims.nbf.is = "number" => now >= claims.nbf.at - Skew

(* StandardJwt._check_claims, and the end of JWTVerifier.verify, where a time
   that is text is a TypeError.  strict is require_exp, which jwt.py lacks. *)
ClaimsHold(claims, expect, now, strict) ==
  /\ strict => claims.exp # Absent
  /\ expect.exp => NotExpired(claims, now)
  /\ Started(claims, now)
  /\ expect.issuer # "any" => claims.iss = expect.issuer
  /\ expect.audience # "any" => expect.audience \in claims.aud
------------------------------------------------------------------------------
(* JWTSigner, over Sign or HybridSign as the algorithm's name has it. *)
JwtHeader(suite) == [alg |-> suite, version |-> 1]

JwtSign(pair, hedged, caller, issuer, expiresIn, context, now, nonce) ==
  LET suite == pair.public.algorithm
      claims == FullClaims(caller, issuer, expiresIn, now)
      sm == Signed([suite |-> suite, hedged |-> hedged], pair.secret,
                   SigningInput(JwtHeader(suite), claims), context, nonce)
  IN  [kind |-> "jwt", alg |-> suite, claims |-> claims, signature |-> sm.signature]

JwtVerify(token, key, hedged, context, expect, now) ==
  LET signer == [suite |-> key.algorithm, hedged |-> hedged]
      received == [message |-> SigningInput(JwtHeader(token.alg), token.claims),
                   context |-> context, algorithm |-> key.algorithm,
                   signature |-> token.signature]
  IN  FirstOf(<<<<BuildRefusal(signer) # "built", "invalid">>,
                <<token.alg # key.algorithm, "unsupported">>,
                <<Verify(signer, key, received, context) # "accepted", "refused">>,
                <<~ClaimsHold(token.claims, expect, now, FALSE), "refused">>>>,
              "accepted")
------------------------------------------------------------------------------
StandardHeader(suite, kid) == [alg |-> suite, kid |-> kid]

(* Fault variant: a lifetime below zero is taken for none. *)
StandardSignRefusalLax(secret, expiresIn) == ~JoseAlg(secret.algorithm)

StandardSignRefusal(secret, expiresIn) == ~JoseAlg(secret.algorithm) \/ expiresIn < 0

(* StandardJwt.sign: a raw signature with an empty native context. *)
StandardSign(secret, caller, issuer, expiresIn, kid, now) ==
  LET claims == FullClaims(caller, issuer, expiresIn, now)
      header == StandardHeader(secret.algorithm, kid)
  IN  [kind |-> "std", alg |-> secret.algorithm, kid |-> kid, claims |-> claims,
       signature |-> SignRaw(secret, SigningInput(header, claims), <<>>)]

StandardVerify(token, key, expect, now, strict) ==
  FirstOf(<<<<~JoseAlg(key.algorithm), "unsupported">>,
            <<token.alg # key.algorithm, "unsupported">>,
            <<~RawVerify(Half(key, "pqc"), <<>>,
                         SigningInput(StandardHeader(token.alg, token.kid), token.claims),
                         token.signature), "refused">>,
            <<~ClaimsHold(token.claims, expect, now, strict), "refused">>>>,
          "accepted")
------------------------------------------------------------------------------
Nil == Str(<<"nil">>)    \* no payload here: it is detached

(* sig_structure: an array of four, so it starts with byte 132. *)
SigStructure(protected, payload, aad) ==
  Byte(132) \o Encoded(protected) \o Encoded(aad) \o payload

(* sign1; a detached payload travels by itself. *)
Sign1(payload, secret, kid, aad, detached) ==
  LET protected == [alg |-> secret.algorithm, kid |-> kid]
  IN  [kind |-> "cose", protected |-> protected,
       payload |-> IF detached THEN Nil ELSE payload,
       signature |-> SignRaw(secret, SigStructure(protected, payload, aad), <<>>)]

VerifySign1(sign1, key, aad, given) ==
  LET payload == IF sign1.payload = Nil THEN given ELSE sign1.payload
  IN  FirstOf(<<<<~JoseAlg(sign1.protected.alg), "invalid">>,
                <<key.algorithm # sign1.protected.alg, "invalid">>,
                <<payload = Nil, "invalid">>,
                <<given \notin {Nil, payload}, "refused">>>>,
              VerifyRaw([suite |-> key.algorithm, hedged |-> TRUE], key,
                        SigStructure(sign1.protected, payload, aad), sign1.signature, <<>>))
------------------------------------------------------------------------------
(* HybridCertificateBuilder: the certificate names the key that co-signs it. *)
Certificate(name, pair) == [name |-> name, algo |-> pair.public.algorithm, pub |-> pair.public.material]
CosigInput(cert) == Str(<<"qs-x509-cosig-v1">>) \o Encoded(cert)

(* build(signer): without a signer, a hedged one for the key's algorithm. *)
Cosign(name, pair, hedged, nonce) ==
  LET suite == pair.public.algorithm
      cert == Certificate(name, pair)
      sm == Signed([suite |-> suite, hedged |-> hedged], pair.secret, CosigInput(cert),
                   CosigContext, nonce)
  IN  [kind |-> "cosig", cert |-> cert, algo |-> suite, signature |-> sm.signature,
       context |-> CosigContext, fp |-> Fingerprint(pair.public)]

(* verify_cosig: the verifier is built for the algorithm the bundle names. *)
VerifyCosig(cert, bundle, key, hedged) ==
  LET signer == [suite |-> bundle.algo, hedged |-> hedged]
      received == [message |-> CosigInput(cert), context |-> bundle.context,
                   algorithm |-> bundle.algo, signature |-> bundle.signature]
  IN  IF BuildRefusal(signer) # "built" THEN "invalid"
      ELSE Verify(signer, key, received, CosigContext)
==============================================================================
