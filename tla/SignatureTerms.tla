---------------------------- MODULE SignatureTerms ----------------------------
(***************************************************************************)
(* signatures/: what Sign and HybridSign sign, how they wrap it, and what  *)
(* they check before they accept it.  Bytes are sequences of pieces, so    *)
(* that concatenation and length prefixes are what they are in the code; a *)
(* primitive signature is the key half that made it, the native FIPS 204   *)
(* context and the bytes signed.                                           *)
(***************************************************************************)
EXTENDS Integers, Sequences, FiniteSets, EarlyReturns

CONSTANT Width    \* pieces an encoded structure is long

ASSUME WidthAssumption == Width \in Nat \ {0}

(* A suite is what the algorithm name says: Ed25519+ML-DSA-65-v2 is one. *)
Classicals == {"none", "Ed25519", "P-384"}
PQCs == {"ML-DSA-65", "ML-DSA-87"}
Suite == [classical: Classicals, pqc: PQCs, v2: BOOLEAN]
IsHybrid(s) == s.classical # "none"
SpecName(s) == [s EXCEPT !.v2 = FALSE]    \* the registry's name for the ML-DSA half

(* HYBRID_SIGNATURE_COMBINATIONS and V2_HYBRIDS *)
Approved(s) ==
  \/ ~IsHybrid(s)
  \/ s.classical = "Ed25519"
  \/ s.classical = "P-384" /\ s.pqc = "ML-DSA-87"

(* One half of a key pair: v1 and v2 keys of a suite have the same bytes. *)
Half(key, part) ==
  <<key.material, IF part = "pqc" THEN key.algorithm.pqc ELSE key.algorithm.classical>>

(* Signers and verifiers are built the same way. *)
Signer == [suite: Suite, hedged: BOOLEAN]
BuildRefusal(signer) ==
  FirstOf(<<<<signer.suite.v2 /\ ~Approved(signer.suite), "unsupported">>,
            <<signer.suite.v2 /\ ~signer.hedged, "invalid">>,
            <<~Approved(signer.suite), "invalid">>>>,
          "built")

(* One byte, some text, or a structure encoded so that it ends where it ends.
   What applications pass may hold any of these pieces. *)
Byte(n) == <<[byte |-> n]>>
Str(chars) == [i \in DOMAIN chars |-> [text |-> chars[i]]]
Encoded(structure) == [i \in 1..Width |-> [encoded |-> structure, at |-> i]]

Omitted == Str(<<"no argument">>)    \* context=None
(* "quantum-safe-sig-v2"; the letter q is the byte 113. *)
Label == Byte(113) \o Str(<<"uantum-safe-sig-v2">>)
RawSignature(half, native, data) == [by |-> half, native |-> native, data |-> data]
RawVerify(half, native, data, sig) == sig = RawSignature(half, native, data)

(* The randomness of a hedged signature: 32 bytes, never drawn twice. *)
Hedge(signer, nonce) == IF signer.hedged THEN <<[random |-> nonce]>> ELSE <<>>
------------------------------------------------------------------------------
(* v1: len(context) || context || rand || message, under an empty native
   context; both halves of a hybrid sign the same bytes. *)
V1Input(context, rand, message) == Byte(Len(context)) \o context \o rand \o message

V1Blob(signer, key, message, context, rand) ==
  LET data == V1Input(context, rand, message)
      half(part) == RawSignature(Half(key, part), <<>>, data)
  IN  [version |-> 1, rand |-> rand,
       parts |-> IF IsHybrid(signer.suite)
                 THEN [classical |-> half("classical"), pqc |-> half("pqc"),
                       names |-> <<signer.suite.classical, signer.suite.pqc>>]
                 ELSE [pqc |-> half("pqc")]]

(* Fault variant: the suite is not signed. *)
M2Unnamed(suite, context, message) == Byte(Len(context)) \o context \o message

(* v2: M2 = len(name) || name || len(context) || context || message, signed by
   ML-DSA under LABEL and by the classical half after LABEL || 0. *)
M2(suite, context, message) ==
  Encoded(suite) \o Byte(Len(context)) \o context \o message

V2Blob(signer, key, message, context) ==
  LET data == M2(signer.suite, context, message)
      pqc == RawSignature(Half(key, "pqc"), Label, data)
  IN  [version |-> 2,
       parts |-> IF IsHybrid(signer.suite)
                 THEN [classical |-> RawSignature(Half(key, "classical"), <<>>,
                                                  Label \o Byte(0) \o data),
                       pqc |-> pqc]
                 ELSE [pqc |-> pqc]]

TooLong(context) == Len(context) > 255

(* Sign.sign / HybridSign.sign; SignedMessage refuses an empty message, after
   it was signed. *)
SignRefusal(signer, key, message, context) ==
  FirstOf(<<<<key.algorithm # signer.suite, "unsupported">>,
            <<TooLong(context), "invalid">>,
            <<message = <<>>, "invalid">>>>,
          "signed")

Signed(signer, key, message, context, nonce) ==
  [message |-> message, context |-> context, algorithm |-> signer.suite,
   signature |-> IF signer.suite.v2
                 THEN V2Blob(signer, key, message, context)
                 ELSE V1Blob(signer, key, message, context, Hedge(signer, nonce))]

(* SignedMessage.to_cbor / from_cbor: another version is refused, a missing
   context is the empty one. *)
ToCbor(sm) == [v |-> 1, msg |-> sm.message, sig |-> sm.signature, algo |-> sm.algorithm,
               ctx |-> sm.context]
FromCbor(map) ==
  IF map.v # 1 THEN [refused |-> "refused"]
  ELSE [message |-> map.msg, signature |-> map.sig, algorithm |-> map.algo,
        context |-> IF "ctx" \in DOMAIN map THEN map.ctx ELSE <<>>]
------------------------------------------------------------------------------
(* _unpack_sig_blob: the length in the blob must be the one the verifier's own
   mode has; a v2 blob does not start with it. *)
PrefixRight(signer, blob) ==
  /\ blob.version = 1
  /\ Len(blob.rand) = IF signer.hedged THEN 1 ELSE 0

V1Accepts(signer, key, message, blob, context) ==
  /\ PrefixRight(signer, blob)
  /\ IsHybrid(signer.suite) = ("names" \in DOMAIN blob.parts)
  /\ IsHybrid(signer.suite) =>
       /\ blob.parts.names = <<signer.suite.classical, signer.suite.pqc>>
       /\ RawVerify(Half(key, "classical"), <<>>, V1Input(context, blob.rand, message),
                    blob.parts.classical)
  /\ RawVerify(Half(key, "pqc"), <<>>, V1Input(context, blob.rand, message), blob.parts.pqc)

V2Accepts(signer, key, message, blob, context) ==
  /\ ~TooLong(context) /\ message # <<>>
  /\ blob.version = 2
  /\ IsHybrid(signer.suite) = ("classical" \in DOMAIN blob.parts)
  /\ IsHybrid(signer.suite) =>
       RawVerify(Half(key, "classical"), <<>>, Label \o Byte(0) \o M2(signer.suite, context, message),
                 blob.parts.classical)
  /\ RawVerify(Half(key, "pqc"), Label, M2(signer.suite, context, message), blob.parts.pqc)

(* Sign.verify_bytes: neither names nor contexts are compared first; the bytes
   of a key of another suite do not verify. *)
VerifyBytes(signer, key, message, blob, context) ==
  IF /\ SpecName(key.algorithm) = SpecName(signer.suite)
     /\ IF signer.suite.v2 THEN V2Accepts(signer, key, message, blob, context)
                           ELSE V1Accepts(signer, key, message, blob, context)
  THEN "accepted" ELSE "refused"

(* Fault variant: the context is taken from the message when none is given. *)
ContextFromMessage(received, context) == context = Omitted \/ received.context = context

(* check_expected_context: leaving context= out means the empty context. *)
ContextExpected(received, context) ==
  received.context = IF context = Omitted THEN <<>> ELSE context

(* Sign.verify / HybridSign.verify *)
Verify(signer, key, received, context) ==
  FirstOf(<<<<~ContextExpected(received, context), "refused">>,
            <<received.algorithm # signer.suite, "unsupported">>,
            <<key.algorithm # signer.suite, "unsupported">>>>,
          VerifyBytes(signer, key, received.message, received.signature, received.context))
------------------------------------------------------------------------------
(* Sign.sign_raw / verify_raw: a plain FIPS 204 signature, by a key filed
   under either name of the algorithm. *)
RawKeyFits(signer, key) == key.algorithm \in {signer.suite, SpecName(signer.suite)}
RawSignRefusal(signer, key, context) ==
  FirstOf(<<<<~RawKeyFits(signer, key), "unsupported">>,
            <<TooLong(context), "invalid">>>>,
          "signed")
SignRaw(key, message, context) == RawSignature(Half(key, "pqc"), context, message)
VerifyRaw(signer, key, message, sig, context) ==
  FirstOf(<<<<~RawKeyFits(signer, key), "unsupported">>,
            <<TooLong(context), "refused">>>>,
          IF RawVerify(Half(key, "pqc"), context, message, sig) THEN "accepted" ELSE "refused")
==============================================================================
