----------------------------- MODULE KeyDocuments -----------------------------
(***************************************************************************)
(* How keys travel: the documents types/keys.py (PEM, CBOR, a key pair     *)
(* bundle, JWK), protocols/standard_jwt.py (RFC 9964 JWK) and              *)
(* protocols/cose.py (COSE_Key) write, and what each reader makes of them. *)
(* A document is the fields a reader looks at; a field the format does not *)
(* have is "absent".                                                       *)
(***************************************************************************)
EXTENDS SignatureTerms

States == {"classical_only", "hybrid_transition", "pqc_preferred", "pqc_only"}
StateOf(s) == IF IsHybrid(s) THEN "hybrid_transition" ELSE "pqc_only"

Refused(why) == [refused |-> why]
Refusals == {Refused("refused"), Refused("incompatible")}

(* PublicKey, SecretKey and KeyPair; a secret is a 32-byte seed or expanded. *)
Public(material, suite) == [material |-> material, algorithm |-> suite, state |-> StateOf(suite)]
Secret(material, suite, form) ==
  [material |-> material, algorithm |-> suite, state |-> StateOf(suite), form |-> form]
Pair(public, secret) ==
  IF public.algorithm = secret.algorithm THEN [public |-> public, secret |-> secret] ELSE Refused("refused")

(* BaseKey.fingerprint: a digest of the algorithm and the bytes. *)
Fingerprint(key) == <<key.algorithm, key.material>>

(* Sign.generate_keypair and HybridSign.generate_keypair; liboqs makes expanded keys, pyca
   seeds.  Sign.keypair_from_seed takes plain ML-DSA only. *)
Generated(material, suite, form) == Pair(Public(material, suite), Secret(material, suite, form))
SeedSuite(s) == ~s.v2 /\ ~IsHybrid(s)
KeypairFromSeed(seed, suite) == IF SeedSuite(suite) THEN Generated(seed, suite, "seed") ELSE Refused("refused")

(* ML_DSA_JOSE_ALGS and COSE_ALGORITHMS have the same three names. *)
JoseAlg(s) == SeedSuite(s)
------------------------------------------------------------------------------
CurrentVersion == 1    \* _CURRENT_KEY_VERSION = _MAX_SUPPORTED_KEY_VERSION
Library == {"pem", "cbor", "jwk"}
Standards == {"akp", "cose"}

(* _to_cbor_payload_dict, to_pem, to_cbor *)
KeyMap(format, key, ktype) ==
  [format |-> format, v |-> CurrentVersion, algo |-> key.algorithm, ms |-> key.state,
   ktype |-> ktype, key |-> key]

(* PublicKey._to_jwk_payload; a SecretKey has no JWK form. *)
PublicJwk(public) ==
  [format |-> "jwk", v |-> CurrentVersion, algo |-> public.algorithm, ms |-> public.state,
   pub |-> public.material, priv |-> "absent"]

(* StandardJwt.public_jwk, and for "cose" encode_cose_key: the RFC 9964 names
   only. *)
StandardPublic(format, public) ==
  IF JoseAlg(public.algorithm)
  THEN [format |-> format, algo |-> public.algorithm, ms |-> "absent",
        pub |-> public.material, priv |-> "absent"]
  ELSE Refused("refused")

(* StandardJwt.private_jwk and cose.encode_cose_private_key: a seed, and the
   public half the pair has. *)
StandardPrivate(format, pair) ==
  IF pair.secret.form = "seed" /\ JoseAlg(pair.secret.algorithm)
  THEN [StandardPublic(format, pair.public) EXCEPT !.priv = pair.secret.material]
  ELSE Refused("refused")

(* KeyPair.to_cbor_bundle *)
Bundle(pair) == [format |-> "bundle", v |-> CurrentVersion,
                 pub |-> KeyMap("cbor", pair.public, "pub"), sec |-> KeyMap("cbor", pair.secret, "sec")]

PublicDocuments(pair) ==
  ({KeyMap(f, pair.public, "pub") : f \in {"pem", "cbor"}} \cup
   {PublicJwk(pair.public)} \cup {StandardPublic(f, pair.public) : f \in Standards}) \ Refusals
PrivateDocuments(pair) ==
  ({Bundle(pair)} \cup {KeyMap(f, pair.secret, "sec") : f \in {"pem", "cbor"}} \cup
   {StandardPrivate(f, pair) : f \in Standards}) \ Refusals
------------------------------------------------------------------------------
(* An unknown or missing migration state is read as HYBRID_TRANSITION. *)
StateRead(ms) == IF ms \in States THEN ms ELSE "hybrid_transition"

(* _parse_cbor_dict: a newer version is refused, and so is the other kind of
   key; the reader of PEM looks at the label too. *)
ParseRefusal(doc, format, ktype) ==
  FirstOf(<<<<doc.format # format, "refused">>,
            <<doc.v < 1, "refused">>,
            <<doc.v > CurrentVersion, "incompatible">>,
            <<doc.ktype # ktype, "refused">>>>,
          "read")

(* What PublicKey and SecretKey make of a PEM or CBOR document. *)
KeyFrom(doc, format, ktype) ==
  LET outcome == ParseRefusal(doc, format, ktype)
  IN  IF outcome = "read"
      THEN [doc.key EXCEPT !.algorithm = doc.algo, !.state = StateRead(doc.ms)]
      ELSE Refused(outcome)

PublicFrom(doc, format) == KeyFrom(doc, format, "pub")
SecretFrom(doc, format) == KeyFrom(doc, format, "sec")

(* KeyPair.from_cbor_bundle: the halves are not compared with each other. *)
PairFromBundle(doc) ==
  LET pub == PublicFrom(doc.pub, "cbor")  sec == SecretFrom(doc.sec, "cbor")
  IN  IF pub \in Refusals THEN pub ELSE IF sec \in Refusals THEN sec ELSE Pair(pub, sec)

(* PublicKey.from_jwk reads every JWK with kty AKP, whatever its version. *)
PublicFromJwk(doc) ==
  IF doc.format \in {"jwk", "akp"}
  THEN [material |-> doc.pub, algorithm |-> doc.algo, state |-> StateRead(doc.ms)]
  ELSE Refused("refused")

(* decode_cose_key: private keys are refused. *)
PublicFromCose(doc) ==
  IF doc.format = "cose" /\ doc.priv = "absent"
  THEN [material |-> doc.pub, algorithm |-> doc.algo, state |-> "hybrid_transition"]
  ELSE Refused("refused")

(* _public_parts: what StandardJwt.verify takes from a JWK. *)
PartsOfJwk(doc) ==
  IF doc.format \in {"jwk", "akp"} /\ JoseAlg(doc.algo)
  THEN [material |-> doc.pub, algorithm |-> doc.algo, state |-> "hybrid_transition"]
  ELSE Refused("refused")

(* Fault variant: the public half in the document is not looked at. *)
PairFromSeedTrusting(doc, format) ==
  IF doc.format = format /\ doc.priv # "absent"
  THEN LET pair == KeypairFromSeed(doc.priv, doc.algo)
       IN  [pair EXCEPT !.public.material = IF doc.pub = "absent" THEN @ ELSE doc.pub]
  ELSE Refused("refused")

(* keypair_from_private_jwk and keypair_from_cose_key: the pair is derived
   from the seed, and a public half in the document must be its own. *)
PairFromSeed(doc, format) ==
  IF doc.format = format /\ doc.priv # "absent"
  THEN LET pair == KeypairFromSeed(doc.priv, doc.algo)
       IN  IF doc.pub \in {"absent", pair.public.material} THEN pair ELSE Refused("refused")
  ELSE Refused("refused")

PairFromJwk(doc) == PairFromSeed(doc, "akp")
PairFromCose(doc) == PairFromSeed(doc, "cose")
------------------------------------------------------------------------------
(* Every reader that gives a public key, and every one that gives a pair, tried
   on one document. *)
PublicReadings(doc) ==
  (CASE doc.format \in {"pem", "cbor"} -> {PublicFrom(doc, f) : f \in {"pem", "cbor"}}
     [] doc.format \in {"jwk", "akp"} -> {PublicFromJwk(doc), PartsOfJwk(doc)}
     [] doc.format = "cose" -> {PublicFromCose(doc)}
     [] doc.format = "bundle" -> Refusals)
  \ Refusals

PairReadings(doc) ==
  (CASE doc.format = "bundle" -> {PairFromBundle(doc)}
     [] doc.format \in Standards -> {PairFromJwk(doc), PairFromCose(doc)}
     [] OTHER -> Refusals)
  \ Refusals
==============================================================================
